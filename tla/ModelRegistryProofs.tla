------------------------- MODULE ModelRegistryProofs -------------------------
(***************************************************************************)
(* The safety properties of ModelRegistry for every set of addresses,      *)
(* versions and cursors, whatever the outcome of an access to freed memory.*)
(***************************************************************************)
EXTENDS ModelRegistry, TLAPS

\* A reload in a registered library runs only while there is no generic model,
\* and the slot about to be filled holds no native model.
LoadInv ==
    /\ pc \in {"load", "open"} /\ target \in Types /\ lib => ~slot["generic"].loaded
    /\ pc = "load" /\ target = Null /\ slot["generic"].loaded
          => slot["generic"].native \in live
    /\ pc = "open" => target \in Types /\ slot[target] = EmptySlot
    /\ pc = "parse" => who \in {"scalar"} \cup Cursors
    /\ pc \in {"load", "open"} => who \in Callers
    /\ pc \in {"load", "open"} => (lib <=> who # "init")
    /\ pc = "parse" => lib

\* The slots that a load has already been through.
Loaded(t) == IF t = "person" THEN {}
             ELSE IF t = "company" THEN {"person"}
             ELSE IF t = "generic" THEN {"person", "company"} ELSE Types

\* anyOk is about the slots loaded so far, and is reset between loads.
ResultInv ==
    /\ pc \in {"load", "open"} =>
          (anyOk <=> \E t \in Loaded(target) : slot[t].loaded)
    /\ pc \in {"idle", "down"} => ~anyOk
    /\ pc = "parse" => \E t \in Types : slot[t].loaded

\* Answers of the generic model name the model that is in the slot for good.
AnswerInv ==
    \A v \in Versions : <<"generic", v>> \in answers =>
        lib /\ slot["generic"].loaded /\ slot["generic"].content = v

\* The strings of a row are always copies in the cursor's own context.
RowInv == \A c \in Cursors : cursor[c].left > 0 => cursor[c].open /\ cursor[c].store = c

IInv == TypeOK /\ NoLeak /\ GenericUsable /\ LoadInv /\ ResultInv /\ AnswerInv /\ RowInv

-----------------------------------------------------------------------------
(* Resetting contexts touches no field of a slot but its strings *)

LEMMA DangleType ==
    ASSUME NEW s \in [Types -> Slots], NEW dead
    PROVE  /\ Dangle(s, dead) \in [Types -> Slots]
           /\ \A t \in Types : /\ Dangle(s, dead)[t].native = s[t].native
                               /\ Dangle(s, dead)[t].loaded = s[t].loaded
                               /\ Dangle(s, dead)[t].content = s[t].content
  BY DEF Dangle, Slots

LEMMA CloseType ==
    ASSUME TypeOK, NEW dead
    PROVE  /\ Close(dead) \in [Cursors -> CursorStates]
           /\ \A c \in Cursors : Close(dead)[c] \in {cursor[c], ClosedCursor}
  BY TokenAssumption DEF Close, ClosedCursor, CursorStates, TypeOK

LEMMA EmptySlotType == EmptySlot \in Slots
  BY DEF EmptySlot, Slots

LEMMA LoadedSlotType ==
    ASSUME TypeOK, NEW a \in Addr, target \in Types, who \in Callers
    PROVE  LoadedSlot(target, a) \in Slots
  BY DEF LoadedSlot, Slots, TypeOK, ContextOf, Callers, Contexts

\* What every ERROR leaves behind.
LEMMA AbortEffect ==
    ASSUME TypeOK, NEW s \in [Types -> Slots], Abort(s)
    PROVE  /\ pc' = "idle" /\ who' = Null /\ target' = Null /\ anyOk' = FALSE
           /\ slot' \in [Types -> Slots]
           /\ \A t \in Types : /\ slot'[t].native = s[t].native
                               /\ slot'[t].loaded = s[t].loaded
                               /\ slot'[t].content = s[t].content
           /\ cursor' \in [Cursors -> CursorStates]
           /\ \A c \in Cursors : cursor'[c] \in {cursor[c], ClosedCursor}
<1>1. PICK dead \in SUBSET Contexts : slot' = Dangle(s, dead) /\ cursor' = Close(dead)
  BY DEF Abort
<1>2. pc' = "idle" /\ who' = Null /\ target' = Null /\ anyOk' = FALSE
  BY DEF Abort, Return
<1> QED
  BY <1>1, <1>2, DangleType, CloseType

\* A forked backend satisfies everything but what is kept across it.
LEMMA ForkType ==
    ASSUME ForkBackend
    PROVE  /\ lib' = FALSE /\ slot' \in [Types -> Slots] /\ live' = {}
           /\ who' = Null /\ target' = Null /\ anyOk' = FALSE /\ answers' = {}
           /\ cursor' \in [Cursors -> CursorStates]
           /\ \A c \in Cursors : cursor'[c].left = 0
           /\ \A t \in Types : slot'[t] = EmptySlot
  BY EmptySlotType, TokenAssumption DEF ForkBackend, ClosedCursor, CursorStates

-----------------------------------------------------------------------------
(* The steps of the code and of its environment, one name each *)

LEMMA NextCases ==
    ASSUME [Next]_vars
    PROVE  \/ FreeOld \/ FreeOldErrors \/ FreeOldCrashes
           \/ \E a \in Addr \ live : OpenModel(a) \/ OpenModelCancelled(a)
           \/ OpenFails \/ LibraryLoaded \/ NotLoadedError \/ ReloadDone
           \/ ParseNothing \/ (\E n \in 1..MaxTokens : ParseName(n)) \/ ParseCrashes
           \/ LoadLibrary
           \/ \E w \in {"scalar"} \cup Cursors : CallWithGeneric(w) \/ CallWithReload(w)
           \/ \E c \in Cursors : NextRow(c) \/ EndCursor(c)
           \/ \E c \in {"row", "query"} : ResetContext(c)
           \/ \E t \in Types, content \in Versions \cup {Null} : ChangeFile(t, content)
           \/ Reconnect
           \/ UNCHANGED vars
  BY DEF Next, CodeStep, Environment, Call

LEMMA TypeStep == IInv /\ [Next]_vars => TypeOK'
<1> SUFFICES ASSUME IInv, [Next]_vars PROVE TypeOK'
  OBVIOUS
<1> USE DEF TypeOK
<1>1. TypeOK /\ LoadInv
  BY DEF IInv
<1>2. CASE FreeOld
  <2>1. slot' \in [Types -> Slots]
    BY <1>1, <1>2, EmptySlotType DEF FreeOld
  <2>2. touched' \subseteq {"model", "dictionary", "strings"}
    BY <1>1, <1>2 DEF FreeOld, FreeTouches
  <2> QED
    BY <1>1, <1>2, <2>1, <2>2 DEF FreeOld
<1>3. CASE FreeOldErrors
  <2>1. touched' \subseteq {"model", "dictionary", "strings"}
    BY <1>1, <1>3 DEF FreeOldErrors, FreeTouches
  <2>2. live' \subseteq Addr /\ Abort(slot) /\ UNCHANGED <<file, lib, answers>>
    BY <1>1, <1>3 DEF FreeOldErrors
  <2> QED
    BY <1>1, <2>1, <2>2, AbortEffect
<1>4. CASE FreeOldCrashes
  <2>1. touched' \subseteq {"model", "dictionary", "strings"}
    BY <1>1, <1>4 DEF FreeOldCrashes, FreeTouches, Crash
  <2>2. ForkBackend /\ pc' = "down" /\ file' = file
    BY <1>4 DEF FreeOldCrashes, Crash
  <2>3. /\ lib' = FALSE /\ slot' \in [Types -> Slots] /\ live' = {} /\ who' = Null
        /\ target' = Null /\ anyOk' = FALSE /\ answers' = {}
        /\ cursor' \in [Cursors -> CursorStates]
    BY <2>2, ForkType
  <2> QED
    BY <1>1, <2>1, <2>2, <2>3
<1>5. ASSUME NEW a \in Addr \ live, OpenModel(a) PROVE TypeOK'
  <2>1. LoadedSlot(target, a) \in Slots
    BY <1>1, <1>5, LoadedSlotType DEF LoadInv, OpenModel
  <2>2. slot' \in [Types -> Slots]
    BY <1>1, <1>5, <2>1 DEF OpenModel
  <2>3. After(target) \in Types \cup {Null}
    BY DEF After, Types
  <2> QED
    BY <1>1, <1>5, <2>2, <2>3 DEF OpenModel, Succeeded
<1>6. ASSUME NEW a \in Addr \ live, OpenModelCancelled(a) PROVE TypeOK'
  <2>1. LoadedSlot(target, a) \in Slots
    BY <1>1, <1>6, LoadedSlotType DEF LoadInv, OpenModelCancelled
  <2>2. [slot EXCEPT ![target] = LoadedSlot(target, a)] \in [Types -> Slots]
    BY <1>1, <2>1
  <2>3. /\ Abort([slot EXCEPT ![target] = LoadedSlot(target, a)])
        /\ live' \subseteq Addr /\ UNCHANGED <<file, lib, answers, touched>>
    BY <1>1, <1>6 DEF OpenModelCancelled
  <2> QED
    BY <1>1, <2>2, <2>3, AbortEffect
<1>7. CASE OpenFails
  <2>1. slot' \in [Types -> Slots]
    BY <1>1, <1>7, EmptySlotType DEF OpenFails, UnopenedSlot
  <2>2. After(target) \in Types \cup {Null}
    BY DEF After, Types
  <2> QED
    BY <1>1, <1>7, <2>1, <2>2 DEF OpenFails, Succeeded
<1>8. CASE LibraryLoaded
  BY <1>1, <1>8 DEF LibraryLoaded, Return
<1>9. CASE NotLoadedError
  <2>1. Abort(slot) /\ UNCHANGED <<file, lib, live, answers, touched>>
    BY <1>9 DEF NotLoadedError
  <2> QED
    BY <1>1, <2>1, AbortEffect
<1>10. CASE ReloadDone
  BY <1>1, <1>10 DEF ReloadDone
<1>11. CASE ParseNothing
  <2>1. slot' \in [Types -> Slots]
    BY <1>1, <1>11, DangleType DEF ParseNothing
  <2> QED
    BY <1>1, <1>11, <2>1 DEF ParseNothing, Return
<1>12. ASSUME NEW n \in 1..MaxTokens, ParseName(n) PROVE TypeOK'
  <2>1. cursor' \in [Cursors -> CursorStates]
    <3> SUFFICES ASSUME NEW c \in Cursors PROVE cursor'[c] \in CursorStates
      BY <1>12 DEF ParseName
    <3>1. CASE c = who
      <4>1. cursor'[c] = [open |-> TRUE, left |-> n - 1, store |-> Store(slot[Chosen])]
        BY <1>12, <3>1 DEF ParseName
      <4>2. Store(slot[Chosen]) \in Contexts
        BY <3>1, CursorAssumption DEF Store, ContextOf, Contexts
      <4>3. n - 1 \in 0..MaxTokens
        BY TokenAssumption
      <4> QED
        BY <4>1, <4>2, <4>3 DEF CursorStates
    <3>2. CASE c # who
      BY <1>1, <1>12, <3>2 DEF ParseName
    <3> QED
      BY <3>1, <3>2
  <2>2. answers' \subseteq {"person", "generic"} \X (Versions \cup {Null})
    <3>1. slot[Chosen].content \in Versions \cup {Null}
      BY <1>1 DEF Chosen, Types, Slots
    <3> QED
      BY <1>1, <1>12, <3>1 DEF ParseName, Chosen
  <2>3. touched' \subseteq {"model", "dictionary", "strings"}
    BY <1>1, <1>12 DEF ParseName, ParseTouches
  <2> QED
    BY <1>1, <1>12, <2>1, <2>2, <2>3 DEF ParseName, Return
<1>13. CASE ParseCrashes
  <2>1. touched' \subseteq {"model", "dictionary", "strings"}
    BY <1>1, <1>13 DEF ParseCrashes, ParseTouches, Crash
  <2>2. ForkBackend /\ pc' = "down" /\ file' = file
    BY <1>13 DEF ParseCrashes, Crash
  <2>3. /\ lib' = FALSE /\ slot' \in [Types -> Slots] /\ live' = {} /\ who' = Null
        /\ target' = Null /\ anyOk' = FALSE /\ answers' = {}
        /\ cursor' \in [Cursors -> CursorStates]
    BY <2>2, ForkType
  <2> QED
    BY <1>1, <2>1, <2>2, <2>3
<1>14. CASE LoadLibrary
  BY <1>1, <1>14 DEF LoadLibrary, First, Types, Callers
<1>15. ASSUME NEW w \in {"scalar"} \cup Cursors, CallWithGeneric(w) \/ CallWithReload(w)
       PROVE TypeOK'
  BY <1>1, <1>15 DEF CallWithGeneric, CallWithReload, First, Types, Callers
<1>16. ASSUME NEW c \in Cursors, NextRow(c) PROVE TypeOK'
  <2>1. cursor[c].left - 1 \in 0..MaxTokens
    BY <1>1, <1>16, TokenAssumption DEF NextRow, MoreRows, CursorStates
  <2>2. [cursor[c] EXCEPT !.left = cursor[c].left - 1] \in CursorStates
    BY <1>1, <2>1 DEF CursorStates
  <2>3. cursor' = [cursor EXCEPT ![c] = [cursor[c] EXCEPT !.left = cursor[c].left - 1]]
    BY <1>1, <1>16 DEF NextRow, CursorStates
  <2>4. cursor' \in [Cursors -> CursorStates]
    BY <1>1, <2>2, <2>3
  <2> QED
    BY <1>1, <1>16, <2>4 DEF NextRow
<1>17. ASSUME NEW c \in Cursors, EndCursor(c) PROVE TypeOK'
  <2>1. slot' \in [Types -> Slots]
    BY <1>1, <1>17, DangleType DEF EndCursor
  <2>2. ClosedCursor \in CursorStates
    BY TokenAssumption DEF ClosedCursor, CursorStates
  <2> QED
    BY <1>1, <1>17, <2>1, <2>2 DEF EndCursor
<1>18. ASSUME NEW c \in {"row", "query"}, ResetContext(c) PROVE TypeOK'
  <2>1. slot' \in [Types -> Slots]
    BY <1>1, <1>18, DangleType DEF ResetContext
  <2> QED
    BY <1>1, <1>18, <2>1 DEF ResetContext
<1>19. ASSUME NEW t \in Types, NEW content \in Versions \cup {Null}, ChangeFile(t, content)
       PROVE TypeOK'
  BY <1>1, <1>19 DEF ChangeFile
<1>20. CASE Reconnect
  BY <1>1, <1>20, ForkType DEF Reconnect
<1>21. CASE UNCHANGED vars
  BY <1>1, <1>21 DEF vars
<1> QED
  BY <1>2, <1>3, <1>4, <1>5, <1>6, <1>7, <1>8, <1>9, <1>10, <1>11, <1>12, <1>13,
     <1>14, <1>15, <1>16, <1>17, <1>18, <1>19, <1>20, <1>21, NextCases

-----------------------------------------------------------------------------
(* Most steps free no native model and fill no slot *)

\* The pointers, flags and contents of the slots stay as they are.
SameModels(s, r) ==
    \A t \in Types : s[t].native = r[t].native /\ s[t].loaded = r[t].loaded
                     /\ s[t].content = r[t].content

Quiet == SameModels(slot', slot) /\ live' = live /\ lib' = lib

LEMMA QuietSteps ==
    ASSUME IInv, [Next]_vars
    PROVE  \/ FreeOld \/ FreeOldErrors
           \/ \E a \in Addr \ live : OpenModel(a) \/ OpenModelCancelled(a)
           \/ OpenFails \/ LibraryLoaded
           \/ ForkBackend /\ pc' \in {"idle", "down"}
           \/ Quiet
<1>1. TypeOK
  BY DEF IInv
<1>2. CASE FreeOldCrashes \/ ParseCrashes \/ Reconnect
  BY <1>2 DEF FreeOldCrashes, ParseCrashes, Reconnect, Crash
<1>3. CASE NotLoadedError
  <2>1. slot \in [Types -> Slots] /\ Abort(slot) /\ live' = live /\ lib' = lib
    BY <1>1, <1>3 DEF NotLoadedError, TypeOK
  <2> QED
    BY <1>1, <2>1, AbortEffect DEF Quiet, SameModels
<1>4. CASE ParseNothing
  BY <1>1, <1>4, DangleType DEF ParseNothing, Quiet, SameModels, TypeOK
<1>5. CASE \E c \in Cursors : EndCursor(c)
  BY <1>1, <1>5, DangleType DEF EndCursor, Quiet, SameModels, TypeOK
<1>6. CASE \E c \in {"row", "query"} : ResetContext(c)
  BY <1>1, <1>6, DangleType DEF ResetContext, Quiet, SameModels, TypeOK
<1>7. CASE ReloadDone \/ LoadLibrary
  BY <1>7 DEF ReloadDone, LoadLibrary, Quiet, SameModels
<1>8. CASE \E n \in 1..MaxTokens : ParseName(n)
  BY <1>8 DEF ParseName, Quiet, SameModels
<1>9. CASE \E w \in {"scalar"} \cup Cursors : CallWithGeneric(w) \/ CallWithReload(w)
  BY <1>9 DEF CallWithGeneric, CallWithReload, Quiet, SameModels
<1>10. CASE \E c \in Cursors : NextRow(c)
  BY <1>10 DEF NextRow, Quiet, SameModels
<1>11. CASE \E t \in Types, content \in Versions \cup {Null} : ChangeFile(t, content)
  BY <1>11 DEF ChangeFile, Quiet, SameModels
<1>12. CASE UNCHANGED vars
  BY <1>12 DEF vars, Quiet, SameModels
<1> QED
  BY <1>2, <1>3, <1>4, <1>5, <1>6, <1>7, <1>8, <1>9, <1>10, <1>11, <1>12, NextCases

\* How the loading steps move a native model in and out of a slot.
LEMMA FreeEffect ==
    ASSUME IInv, FreeOld
    PROVE  /\ slot'[target] = EmptySlot
           /\ \A t \in Types \ {target} : slot'[t] = slot[t]
           /\ live' = live \ {slot[target].native}
  BY DEF IInv, TypeOK, FreeOld, Loading, Released

LEMMA OpenEffect ==
    ASSUME IInv, NEW a \in Addr \ live, OpenModel(a) \/ OpenModelCancelled(a)
    PROVE  /\ slot'[target].native = a
           /\ slot'[target].loaded = TRUE
           /\ \A t \in Types \ {target} : /\ slot'[t].native = slot[t].native
                                          /\ slot'[t].loaded = slot[t].loaded
                                          /\ slot'[t].content = slot[t].content
           /\ live' = live \cup {a}
           /\ target \in Types /\ lib' = lib
<1>1. TypeOK /\ LoadInv
  BY DEF IInv
<1>2. pc = "open" /\ target \in Types /\ who \in Callers
  BY <1>1 DEF OpenModel, OpenModelCancelled, LoadInv
<1> DEFINE s == [slot EXCEPT ![target] = LoadedSlot(target, a)]
<1>3. s \in [Types -> Slots]
  BY <1>1, <1>2, LoadedSlotType DEF TypeOK
<1>4. s[target].native = a /\ s[target].loaded = TRUE
  BY <1>1, <1>2 DEF LoadedSlot, TypeOK
<1>5. \A t \in Types \ {target} : s[t] = slot[t]
  BY <1>1 DEF TypeOK
<1>6. live' = live \cup {a} /\ lib' = lib
  BY DEF OpenModel, OpenModelCancelled
<1>7. CASE OpenModel(a)
  BY <1>2, <1>4, <1>5, <1>6, <1>7 DEF OpenModel
<1>8. CASE OpenModelCancelled(a)
  <2>1. Abort(s)
    BY <1>8 DEF OpenModelCancelled
  <2> HIDE DEF s
  <2>2. \A t \in Types : /\ slot'[t].native = s[t].native
                         /\ slot'[t].loaded = s[t].loaded
                         /\ slot'[t].content = s[t].content
    BY <1>1, <1>3, <2>1, AbortEffect DEF SameModels
  <2>3. slot'[target].native = a /\ slot'[target].loaded = TRUE
    BY <1>2, <1>4, <2>2
  <2>4. \A t \in Types \ {target} : /\ slot'[t].native = slot[t].native
                                    /\ slot'[t].loaded = slot[t].loaded
                                    /\ slot'[t].content = slot[t].content
    BY <1>5, <2>2
  <2> QED
    BY <1>2, <1>6, <2>3, <2>4
<1> QED
  BY <1>7, <1>8

LEMMA OpenFailsEffect ==
    ASSUME IInv, OpenFails
    PROVE  slot' = slot /\ live' = live /\ lib' = lib /\ slot[target] = EmptySlot
           /\ target \in Types
  BY DEF IInv, LoadInv, TypeOK, OpenFails, UnopenedSlot

LEMMA FreeErrorEffect ==
    ASSUME IInv, FreeOldErrors
    PROVE  /\ SameModels(slot', slot) /\ live' = live \ {slot[target].native}
           /\ lib' = lib /\ pc' = "idle" /\ target \in Types /\ pc = "load"
<1>1. TypeOK /\ slot \in [Types -> Slots] /\ Abort(slot)
  BY DEF IInv, TypeOK, FreeOldErrors
<1>2. live' = live \ {slot[target].native} /\ lib' = lib /\ target # Null /\ pc = "load"
  BY DEF FreeOldErrors, Loading, Released
<1>3. target \in Types
  BY <1>1, <1>2 DEF TypeOK
<1> QED
  BY <1>1, <1>2, <1>3, AbortEffect DEF SameModels

-----------------------------------------------------------------------------
(* No native model is leaked *)

LEMMA LeakStep == IInv /\ [Next]_vars => NoLeak'
<1> SUFFICES ASSUME IInv, [Next]_vars, NEW b \in live'
             PROVE  \E t \in Types : slot'[t].native = b
  BY DEF NoLeak
<1>1. TypeOK /\ NoLeak /\ LoadInv
  BY DEF IInv
<1>2. CASE FreeOld
  <2>1. b \in live /\ b # slot[target].native
    BY <1>2, FreeEffect
  <2>2. PICK t \in Types : slot[t].native = b
    BY <1>1, <2>1 DEF NoLeak
  <2> QED
    BY <1>2, <2>1, <2>2, FreeEffect
<1>3. CASE FreeOldErrors
  BY <1>1, <1>3, FreeErrorEffect DEF NoLeak, SameModels
<1>4. ASSUME NEW a \in Addr \ live, OpenModel(a) \/ OpenModelCancelled(a)
      PROVE  \E t \in Types : slot'[t].native = b
  <2>0. /\ slot'[target].native = a
        /\ \A t \in Types \ {target} : slot'[t].native = slot[t].native
        /\ live' = live \cup {a}
        /\ target \in Types
    BY <1>4, OpenEffect
  <2>1. CASE b = a
    BY <2>0, <2>1
  <2>2. CASE b # a
    <3>1. b \in live
      BY <2>0, <2>2
    <3>2. PICK t \in Types : slot[t].native = b
      BY <1>1, <3>1 DEF NoLeak
    <3>3. slot[target] = EmptySlot
      BY <1>1, <1>4 DEF LoadInv, OpenModel, OpenModelCancelled
    <3>4. b # Null
      BY <1>1, <3>1, NullAssumption DEF TypeOK
    <3>5. t # target
      BY <3>2, <3>3, <3>4 DEF EmptySlot
    <3> QED
      BY <2>0, <3>2, <3>5
  <2> QED
    BY <2>1, <2>2
<1>5. CASE OpenFails
  BY <1>1, <1>5, OpenFailsEffect DEF NoLeak
<1>6. CASE LibraryLoaded
  BY <1>1, <1>6 DEF NoLeak, LibraryLoaded
<1>7. CASE ForkBackend
  BY <1>7 DEF ForkBackend
<1>8. CASE Quiet
  BY <1>1, <1>8 DEF NoLeak, Quiet, SameModels
<1> QED
  BY <1>2, <1>3, <1>4, <1>5, <1>6, <1>7, <1>8, QuietSteps

-----------------------------------------------------------------------------
(* The generic model of a registered library is never freed *)

LEMMA UsableStep == IInv /\ [Next]_vars => GenericUsable'
<1> SUFFICES ASSUME IInv, [Next]_vars, lib', slot'["generic"].loaded
             PROVE  slot'["generic"].native \in live'
  BY DEF GenericUsable
<1> USE DEF Types
<1>1. TypeOK /\ GenericUsable /\ LoadInv
  BY DEF IInv
<1>2. CASE FreeOld
  <2>1. lib /\ target \in Types /\ pc = "load"
    BY <1>1, <1>2 DEF FreeOld, Loading, TypeOK
  <2>2. ~slot["generic"].loaded
    BY <1>1, <2>1 DEF LoadInv
  <2> QED
    BY <1>2, <2>2, FreeEffect DEF EmptySlot
<1>3. CASE FreeOldErrors
  <2>1. ~slot["generic"].loaded
    BY <1>1, <1>3, FreeErrorEffect DEF LoadInv
  <2> QED
    BY <1>3, <2>1, FreeErrorEffect DEF SameModels
<1>4. ASSUME NEW a \in Addr \ live, OpenModel(a) \/ OpenModelCancelled(a)
      PROVE  slot'["generic"].native \in live'
  <2>1. CASE target = "generic"
    BY <1>4, <2>1, OpenEffect
  <2>2. CASE target # "generic"
    BY <1>1, <1>4, <2>2, OpenEffect DEF GenericUsable
  <2> QED
    BY <2>1, <2>2
<1>5. CASE OpenFails
  <2>1. slot' = slot /\ live' = live /\ lib' = lib
    BY <1>5, OpenFailsEffect
  <2> QED
    BY <1>1, <2>1 DEF GenericUsable
<1>6. CASE LibraryLoaded
  BY <1>1, <1>6 DEF LoadInv, LibraryLoaded
<1>7. CASE ForkBackend
  BY <1>7 DEF ForkBackend
<1>8. CASE Quiet
  BY <1>1, <1>8 DEF GenericUsable, Quiet, SameModels
<1> QED
  BY <1>2, <1>3, <1>4, <1>5, <1>6, <1>7, <1>8, QuietSteps

-----------------------------------------------------------------------------
(* The bookkeeping of a load in progress *)

\* A step either leaves no call in progress or is one of the steps within one.
LEMMA RestSteps ==
    ASSUME IInv, [Next]_vars
    PROVE  \/ pc' \in {"idle", "down"} /\ anyOk' = FALSE
           \/ FreeOld \/ (\E a \in Addr \ live : OpenModel(a)) \/ OpenFails
           \/ ReloadDone \/ LoadLibrary
           \/ \E w \in {"scalar"} \cup Cursors : CallWithGeneric(w) \/ CallWithReload(w)
           \/ UNCHANGED <<lib, slot, live, pc, who, target, anyOk>>
<1>1. pc \in {"idle", "down"} => anyOk = FALSE
  BY DEF IInv, TypeOK, ResultInv
<1>2. CASE FreeOldErrors \/ NotLoadedError
           \/ \E a \in Addr \ live : OpenModelCancelled(a)
  BY <1>2 DEF FreeOldErrors, NotLoadedError, OpenModelCancelled, Abort, Return
<1>3. CASE FreeOldCrashes \/ ParseCrashes \/ Reconnect
  BY <1>3 DEF FreeOldCrashes, ParseCrashes, Reconnect, Crash, ForkBackend
<1>4. CASE LibraryLoaded \/ ParseNothing \/ \E n \in 1..MaxTokens : ParseName(n)
  BY <1>4 DEF LibraryLoaded, ParseNothing, ParseName, Return
<1>5. CASE \E c \in Cursors : NextRow(c) \/ EndCursor(c)
  BY <1>1, <1>5 DEF NextRow, EndCursor
<1>6. CASE \E c \in {"row", "query"} : ResetContext(c)
  BY <1>1, <1>6 DEF ResetContext
<1>7. CASE \E t \in Types, content \in Versions \cup {Null} : ChangeFile(t, content)
  BY <1>7 DEF ChangeFile
<1>8. CASE UNCHANGED vars
  BY <1>8 DEF vars
<1> QED
  BY <1>2, <1>3, <1>4, <1>5, <1>6, <1>7, <1>8, NextCases

LEMMA LoadStep == IInv /\ [Next]_vars => LoadInv'
<1> SUFFICES ASSUME IInv, [Next]_vars PROVE LoadInv'
  OBVIOUS
<1>1. TypeOK /\ LoadInv
  BY DEF IInv
<1>2. CASE pc' \in {"idle", "down"}
  BY <1>2 DEF LoadInv
<1>3. CASE FreeOld
  <2>1. /\ pc' = "open" /\ target' = target /\ target \in Types /\ pc = "load"
        /\ who' = who /\ lib' = lib
    BY <1>1, <1>3 DEF FreeOld, Loading, TypeOK
  <2>2. slot'[target] = EmptySlot /\ \A t \in Types \ {target} : slot'[t] = slot[t]
    BY <1>3, FreeEffect
  <2>3. lib => ~slot'["generic"].loaded
    BY <1>1, <2>1, <2>2 DEF LoadInv, EmptySlot, Types
  <2> QED
    BY <1>1, <2>1, <2>2, <2>3 DEF LoadInv
<1>4. ASSUME NEW a \in Addr \ live, OpenModel(a) PROVE LoadInv'
  <2>1. /\ slot'[target].native = a
        /\ \A t \in Types \ {target} : slot'[t].loaded = slot[t].loaded
        /\ live' = live \cup {a} /\ lib' = lib /\ target \in Types
    BY <1>4, OpenEffect
  <2>2. pc' = "load" /\ target' = After(target) /\ who' = who /\ pc = "open"
    BY <1>4 DEF OpenModel
  <2>3. target' \in Types => target # "generic" /\ target' # Null
    BY <2>2, NullAssumption DEF After, Types
  <2>4. target' = Null => target = "generic"
    BY <2>1, <2>2, NullAssumption DEF After, Types
  <2>5. target' \in Types /\ lib => ~slot'["generic"].loaded
    BY <1>1, <2>1, <2>2, <2>3 DEF LoadInv, Types
  <2>6. target' = Null => slot'["generic"].native \in live'
    BY <2>1, <2>4
  <2> QED
    BY <1>1, <2>1, <2>2, <2>5, <2>6 DEF LoadInv
<1>5. CASE OpenFails
  <2>1. /\ slot' = slot /\ live' = live /\ lib' = lib /\ slot[target] = EmptySlot
        /\ target \in Types
    BY <1>5, OpenFailsEffect
  <2>2. pc' = "load" /\ target' = After(target) /\ who' = who /\ pc = "open"
    BY <1>5 DEF OpenFails
  <2>3. target' = Null => target = "generic"
    BY <2>1, <2>2, NullAssumption DEF After, Types
  <2>4. target' = Null => ~slot'["generic"].loaded
    BY <2>1, <2>3 DEF EmptySlot
  <2> QED
    BY <1>1, <2>1, <2>2, <2>4 DEF LoadInv
<1>6. CASE ReloadDone
  BY <1>1, <1>6 DEF ReloadDone, LoadInv, Callers
<1>7. CASE LoadLibrary
  BY <1>1, <1>7, NullAssumption DEF LoadLibrary, LoadInv, Callers, First, Types
<1>8. ASSUME NEW w \in {"scalar"} \cup Cursors, CallWithGeneric(w) \/ CallWithReload(w)
      PROVE  LoadInv'
  <2>1. w # "init" /\ w \in Callers
    BY CursorAssumption DEF Callers
  <2>2. First \in Types /\ First # Null
    BY NullAssumption DEF First, Types
  <2> QED
    BY <1>1, <1>8, <2>1, <2>2
    DEF CallWithGeneric, CallWithReload, MayCall, NeedsReload, LoadInv
<1>9. CASE UNCHANGED <<lib, slot, live, pc, who, target, anyOk>>
  BY <1>1, <1>9 DEF LoadInv
<1> QED
  BY <1>2, <1>3, <1>4, <1>5, <1>6, <1>7, <1>8, <1>9, RestSteps

LEMMA ResultStep == IInv /\ [Next]_vars => ResultInv'
<1> SUFFICES ASSUME IInv, [Next]_vars PROVE ResultInv'
  OBVIOUS
<1>1. TypeOK /\ LoadInv /\ ResultInv
  BY DEF IInv
<1>2. CASE pc' \in {"idle", "down"} /\ anyOk' = FALSE
  BY <1>2 DEF ResultInv
<1>3. CASE FreeOld
  <2>1. /\ pc' = "open" /\ target' = target /\ target \in Types /\ pc = "load"
        /\ anyOk' = anyOk
    BY <1>1, <1>3 DEF FreeOld, Loading, TypeOK
  <2>2. \A t \in Types \ {target} : slot'[t] = slot[t]
    BY <1>3, FreeEffect
  <2>3. Loaded(target) \subseteq Types \ {target}
    BY <2>1 DEF Loaded, Types
  <2> QED
    BY <1>1, <2>1, <2>2, <2>3 DEF ResultInv
<1>4. ASSUME NEW a \in Addr \ live, OpenModel(a) PROVE ResultInv'
  <2>1. slot'[target].loaded = TRUE /\ target \in Types
    BY <1>4, OpenEffect
  <2>2. pc' = "load" /\ target' = After(target) /\ anyOk' = TRUE
    BY <1>4 DEF OpenModel, Succeeded
  <2>3. target \in Loaded(target')
    BY <2>1, <2>2, NullAssumption DEF Loaded, After, Types
  <2> QED
    BY <2>1, <2>2, <2>3 DEF ResultInv
<1>5. CASE OpenFails
  <2>1. slot' = slot /\ slot[target] = EmptySlot /\ target \in Types
    BY <1>5, OpenFailsEffect
  <2>2. pc' = "load" /\ target' = After(target) /\ pc = "open" /\ anyOk' = anyOk
    BY <1>1, <1>5 DEF OpenFails, Succeeded, TypeOK
  <2>3. Loaded(target') = Loaded(target) \cup {target}
    BY <2>1, <2>2, NullAssumption DEF Loaded, After, Types
  <2>4. ~slot[target].loaded
    BY <2>1 DEF EmptySlot
  <2> QED
    BY <1>1, <2>1, <2>2, <2>3, <2>4 DEF ResultInv
<1>6. CASE ReloadDone
  <2>1. pc = "load" /\ target = Null /\ anyOk /\ pc' = "parse" /\ slot' = slot
    BY <1>6 DEF ReloadDone
  <2>2. \E t \in Types : slot[t].loaded
    BY <1>1, <2>1, NullAssumption DEF ResultInv, Loaded, Types
  <2> QED
    BY <2>1, <2>2 DEF ResultInv
<1>7. CASE LoadLibrary
  <2>1. pc' = "load" /\ target' = "person" /\ anyOk' = FALSE
    BY <1>1, <1>7 DEF LoadLibrary, First, ResultInv, TypeOK
  <2> QED
    BY <2>1 DEF ResultInv, Loaded
<1>8. ASSUME NEW w \in {"scalar"} \cup Cursors, CallWithGeneric(w) \/ CallWithReload(w)
      PROVE  ResultInv'
  <2>1. CASE CallWithGeneric(w)
    BY <2>1 DEF CallWithGeneric, NeedsReload, Types, ResultInv
  <2>2. CASE CallWithReload(w)
    <3>1. pc' = "load" /\ target' = "person" /\ anyOk' = FALSE
      BY <1>1, <2>2 DEF CallWithReload, MayCall, First, ResultInv, TypeOK
    <3> QED
      BY <3>1 DEF ResultInv, Loaded
  <2> QED
    BY <1>8, <2>1, <2>2
<1>9. CASE UNCHANGED <<lib, slot, live, pc, who, target, anyOk>>
  BY <1>1, <1>9 DEF ResultInv
<1> QED
  BY <1>2, <1>3, <1>4, <1>5, <1>6, <1>7, <1>8, <1>9, RestSteps

-----------------------------------------------------------------------------
(* Answers and rows *)

\* Only a parsed name adds an answer; a new backend has none.
LEMMA AnswerSource ==
    ASSUME [Next]_vars
    PROVE  answers' \in {answers, {}} \/ \E n \in 1..MaxTokens : ParseName(n)
<1>1. CASE FreeOld \/ FreeOldErrors \/ OpenFails \/ LibraryLoaded \/ NotLoadedError
           \/ ReloadDone \/ ParseNothing \/ LoadLibrary
  BY <1>1 DEF FreeOld, FreeOldErrors, OpenFails, LibraryLoaded, NotLoadedError,
              ReloadDone, ParseNothing, LoadLibrary
<1>2. CASE FreeOldCrashes \/ ParseCrashes \/ Reconnect
  BY <1>2 DEF FreeOldCrashes, ParseCrashes, Reconnect, Crash, ForkBackend
<1>3. CASE \E a \in Addr \ live : OpenModel(a) \/ OpenModelCancelled(a)
  BY <1>3 DEF OpenModel, OpenModelCancelled
<1>4. CASE \E w \in {"scalar"} \cup Cursors : CallWithGeneric(w) \/ CallWithReload(w)
  BY <1>4 DEF CallWithGeneric, CallWithReload
<1>5. CASE \E c \in Cursors : NextRow(c) \/ EndCursor(c)
  BY <1>5 DEF NextRow, EndCursor
<1>6. CASE \E c \in {"row", "query"} : ResetContext(c)
  BY <1>6 DEF ResetContext
<1>7. CASE \E t \in Types, content \in Versions \cup {Null} : ChangeFile(t, content)
  BY <1>7 DEF ChangeFile
<1>8. CASE UNCHANGED vars
  BY <1>8 DEF vars
<1> QED
  BY <1>1, <1>2, <1>3, <1>4, <1>5, <1>6, <1>7, <1>8, NextCases

\* A name parsed after a generic answer adds no other answer.
LEMMA ParseAnswers ==
    ASSUME IInv, NEW n \in 1..MaxTokens, ParseName(n),
           NEW v \in Versions, <<"generic", v>> \in answers'
    PROVE  /\ lib /\ slot["generic"].loaded /\ slot["generic"].content = v
           /\ <<"generic", v>> \in answers => answers' = answers
<1>1. LoadInv /\ AnswerInv /\ pc = "parse" /\ lib
  BY DEF IInv, ParseName, LoadInv
<1>2. answers' = answers \cup {<<Chosen, slot[Chosen].content>>}
  BY DEF ParseName
<1>3. CASE <<"generic", v>> \in answers
  <2>1. lib /\ slot["generic"].loaded /\ slot["generic"].content = v
    BY <1>1, <1>3 DEF AnswerInv
  <2> QED
    BY <1>2, <1>3, <2>1 DEF Chosen
<1>4. CASE <<"generic", v>> \notin answers
  <2>1. <<"generic", v>> = <<Chosen, slot[Chosen].content>>
    BY <1>2, <1>4
  <2>2. slot["generic"].loaded
    BY <2>1 DEF Chosen
  <2> QED
    BY <1>1, <1>4, <2>1, <2>2 DEF Chosen
<1> QED
  BY <1>3, <1>4

LEMMA AnswerStep == IInv /\ [Next]_vars => AnswerInv'
<1> SUFFICES ASSUME IInv, [Next]_vars, NEW v \in Versions, <<"generic", v>> \in answers'
             PROVE  lib' /\ slot'["generic"].loaded /\ slot'["generic"].content = v
  BY DEF AnswerInv
<1> USE DEF Types
<1>1. TypeOK /\ LoadInv /\ AnswerInv
  BY DEF IInv
<1>2. ASSUME NEW n \in 1..MaxTokens, ParseName(n)
      PROVE  lib' /\ slot'["generic"].loaded /\ slot'["generic"].content = v
  BY <1>2, ParseAnswers DEF ParseName
<1>3. CASE answers' = {}
  BY <1>3
<1>4. CASE answers' = answers
  <2>0. lib /\ slot["generic"].loaded /\ slot["generic"].content = v
    BY <1>1, <1>4 DEF AnswerInv
  <2>1. CASE FreeOld
    <3>1. target \in Types /\ pc = "load"
      BY <1>1, <2>1 DEF FreeOld, Loading, TypeOK
    <3> QED
      BY <1>1, <2>0, <3>1 DEF LoadInv
  <2>2. CASE FreeOldErrors
    <3>1. target \in Types /\ pc = "load"
      BY <2>2, FreeErrorEffect
    <3> QED
      BY <1>1, <2>0, <3>1 DEF LoadInv
  <2>3. CASE \E a \in Addr \ live : OpenModel(a) \/ OpenModelCancelled(a)
    <3>1. pc = "open"
      BY <2>3 DEF OpenModel, OpenModelCancelled
    <3> QED
      BY <1>1, <2>0, <3>1 DEF LoadInv
  <2>4. CASE OpenFails
    <3>1. slot' = slot /\ lib' = lib
      BY <2>4, OpenFailsEffect
    <3> QED
      BY <2>0, <3>1
  <2>5. CASE LibraryLoaded
    BY <2>0, <2>5 DEF LibraryLoaded
  <2>6. CASE ForkBackend
    BY <1>4, <2>6 DEF ForkBackend
  <2>7. CASE Quiet
    BY <2>0, <2>7 DEF Quiet, SameModels
  <2> QED
    BY <2>1, <2>2, <2>3, <2>4, <2>5, <2>6, <2>7, QuietSteps
<1> QED
  BY <1>2, <1>3, <1>4, AnswerSource

LEMMA RowStep == IInv /\ [Next]_vars => RowInv'
<1> SUFFICES ASSUME IInv, [Next]_vars, NEW c \in Cursors, cursor'[c].left > 0
             PROVE  cursor'[c].open /\ cursor'[c].store = c
  BY DEF RowInv
<1>1. TypeOK /\ LoadInv /\ RowInv
  BY DEF IInv
<1>2. ClosedCursor.left = 0
  BY DEF ClosedCursor
<1>3. CASE cursor'[c] \in {cursor[c], ClosedCursor}
  BY <1>1, <1>2, <1>3 DEF RowInv
<1>4. CASE FreeOldErrors \/ NotLoadedError
  <2>1. slot \in [Types -> Slots] /\ Abort(slot)
    BY <1>1, <1>4 DEF TypeOK, FreeOldErrors, NotLoadedError
  <2> QED
    BY <1>1, <1>3, <2>1, AbortEffect
<1>5. CASE \E a \in Addr \ live : OpenModelCancelled(a)
  <2>1. cursor'[c] \in {cursor[c], ClosedCursor}
    BY <1>5 DEF OpenModelCancelled, Abort, Close
  <2> QED
    BY <1>3, <2>1
<1>6. CASE FreeOldCrashes \/ ParseCrashes \/ Reconnect
  BY <1>2, <1>6 DEF FreeOldCrashes, ParseCrashes, Reconnect, Crash, ForkBackend
<1>7. CASE FreeOld \/ OpenFails \/ LibraryLoaded \/ ReloadDone \/ ParseNothing
           \/ LoadLibrary \/ \E a \in Addr \ live : OpenModel(a)
  BY <1>3, <1>7 DEF FreeOld, OpenFails, LibraryLoaded, ReloadDone, ParseNothing,
                    LoadLibrary, OpenModel
<1>8. ASSUME NEW n \in 1..MaxTokens, ParseName(n)
      PROVE  cursor'[c].open /\ cursor'[c].store = c
  <2>1. CASE c = who
    <3>1. ContextOf(c) = c
      BY CursorAssumption DEF ContextOf
    <3> QED
      BY <1>8, <2>1, <3>1 DEF ParseName, Store
  <2>2. CASE c # who
    BY <1>3, <1>8, <2>2 DEF ParseName
  <2> QED
    BY <2>1, <2>2
<1>9. ASSUME NEW d \in Cursors, NextRow(d)
      PROVE  cursor'[c].open /\ cursor'[c].store = c
  <2>1. CASE c = d
    <3>1. cursor[c].open /\ cursor[c].left > 0
      BY <1>9, <2>1 DEF NextRow, MoreRows
    <3>2. cursor'[c].open = cursor[c].open /\ cursor'[c].store = cursor[c].store
      BY <1>1, <1>9, <2>1 DEF NextRow, TypeOK, CursorStates
    <3> QED
      BY <1>1, <3>1, <3>2 DEF RowInv
  <2>2. CASE c # d
    BY <1>1, <1>3, <1>9, <2>2 DEF NextRow, TypeOK
  <2> QED
    BY <2>1, <2>2
<1>10. ASSUME NEW d \in Cursors, EndCursor(d)
       PROVE  cursor'[c].open /\ cursor'[c].store = c
  BY <1>1, <1>2, <1>3, <1>10 DEF EndCursor, TypeOK
<1>11. CASE \E w \in {"scalar"} \cup Cursors : CallWithGeneric(w) \/ CallWithReload(w)
  BY <1>3, <1>11 DEF CallWithGeneric, CallWithReload
<1>12. CASE \E d \in {"row", "query"} : ResetContext(d)
  BY <1>3, <1>12 DEF ResetContext
<1>13. CASE \E t \in Types, content \in Versions \cup {Null} : ChangeFile(t, content)
  BY <1>3, <1>13 DEF ChangeFile
<1>14. CASE UNCHANGED vars
  BY <1>3, <1>14 DEF vars
<1> QED
  BY <1>4, <1>5, <1>6, <1>7, <1>8, <1>9, <1>10, <1>11, <1>12, <1>13, <1>14, NextCases

-----------------------------------------------------------------------------
(* The theorems *)

LEMMA InitInv == Init => IInv
<1> SUFFICES ASSUME Init PROVE IInv
  OBVIOUS
<1>1. TypeOK
  <2>1. slot \in [Types -> Slots]
    BY EmptySlotType DEF Init
  <2>2. cursor \in [Cursors -> CursorStates]
    BY TokenAssumption DEF Init, ClosedCursor, CursorStates
  <2> QED
    BY <2>1, <2>2 DEF Init, TypeOK
<1>2. NoLeak /\ GenericUsable /\ AnswerInv
  BY DEF Init, NoLeak, GenericUsable, AnswerInv
<1>3. LoadInv /\ ResultInv
  BY DEF Init, LoadInv, ResultInv
<1>4. RowInv
  BY DEF Init, RowInv, ClosedCursor
<1> QED
  BY <1>1, <1>2, <1>3, <1>4 DEF IInv

LEMMA NextInv == IInv /\ [Next]_vars => IInv'
  BY TypeStep, LeakStep, UsableStep, LoadStep, ResultStep, AnswerStep, RowStep DEF IInv

\* The inductive invariant holds of every behaviour of the registry.
THEOREM Inductive == Spec => []IInv
  BY InitInv, NextInv, PTL DEF Spec

\* Every variable keeps its type, whatever the entry points do.
THEOREM TypeCorrect == Spec => []TypeOK
<1>1. IInv => TypeOK
  BY DEF IInv
<1> QED
  BY <1>1, Inductive, PTL

\* free_crf_model() and load_model_from_file() lose no native model.
THEOREM NothingLeaks == Spec => []NoLeak
<1>1. IInv => NoLeak
  BY DEF IInv
<1> QED
  BY <1>1, Inductive, PTL

\* A generic model in a registered library can always be tagged with.
THEOREM GenericStaysUsable == Spec => []GenericUsable
<1>1. IInv => GenericUsable
  BY DEF IInv
<1> QED
  BY <1>1, Inductive, PTL

\* load_default_model() fails exactly when no slot holds a model, and a call
\* has no model to use only when the company model alone was loaded.
THEOREM ErrorsAreHonest == Spec => []ResultHonest
<1>1. IInv => ResultHonest
  <2>1. ASSUME IInv, pc = "load", target = Null
        PROVE  anyOk <=> \E t \in Types : slot[t].loaded
    <3>1. Loaded(target) = Types
      BY <2>1, NullAssumption DEF Loaded, Types
    <3> QED
      BY <2>1, <3>1 DEF IInv, ResultInv
  <2>2. ASSUME IInv, pc = "parse", ~slot[Chosen].loaded
        PROVE  {t \in Types : slot[t].loaded} = {"company"}
    <3>1. ~slot["generic"].loaded /\ ~slot["person"].loaded
      BY <2>2 DEF Chosen
    <3>2. \E t \in Types : slot[t].loaded
      BY <2>2 DEF IInv, ResultInv
    <3> QED
      BY <3>1, <3>2 DEF Types
  <2> QED
    BY <2>1, <2>2 DEF ResultHonest
<1> QED
  BY <1>1, Inductive, PTL

\* The rows an open parse_name() cursor still owes are readable.
THEOREM RowsStayReadable == Spec => []CursorIntact
<1>1. IInv => CursorIntact
  BY DEF IInv, RowInv, CursorIntact
<1> QED
  BY <1>1, Inductive, PTL

\* After one answer of the generic model a backend never changes its mind.
THEOREM AnswersAreStable == Spec => AnswersSettle
<1>1. IInv /\ [Next]_vars =>
        [\A v \in Versions : <<"generic", v>> \in answers => answers' \in {answers, {}}]_vars
  <2> SUFFICES ASSUME IInv, [Next]_vars, NEW v \in Versions, <<"generic", v>> \in answers
               PROVE  answers' \in {answers, {}}
    OBVIOUS
  <2>1. ASSUME NEW n \in 1..MaxTokens, ParseName(n) PROVE answers' = answers
    <3>1. <<"generic", v>> \in answers'
      BY <2>1 DEF ParseName
    <3> QED
      BY <2>1, <3>1, ParseAnswers
  <2> QED
    BY <2>1, AnswerSource
<1> QED
  BY <1>1, Inductive, PTL DEF Spec, AnswersSettle

==============================================================================
