---------------------------- MODULE ModelRegistry ----------------------------
(***************************************************************************)
(* One Postgres backend that has pg_probablepeople loaded: the three       *)
(* static model slots of src/crfsuite_wrapper.c, the SQL entry points of   *)
(* src/pg_probablepeople.c that pick a model and reload the slots, and the *)
(* memory contexts that own what is allocated on the way.                  *)
(*                                                                         *)
(* The backend is one sequential process, so an entry point is cut into    *)
(* the steps between which something else can show: another process may    *)
(* replace a model file between two loads, a cancel request is served by   *)
(* the ereport(LOG) that ends a successful load, and a step that touches   *)
(* freed memory has every outcome in Outcomes.                             *)
(***************************************************************************)
EXTENDS Naturals

CONSTANTS
    Addr,       \* addresses malloc can hand out for native crfsuite models
    Versions,   \* contents a readable model file can have
    Cursors,    \* parse_name() calls whose rows are fetched one at a time
    MaxTokens,  \* bound on the tokens of a name
    Outcomes,   \* what an access to freed memory may do in this build
    Null        \* no address, no file, no string, no caller

Types == {"person", "company", "generic"}

ASSUME NullAssumption == Null \notin Addr \cup Versions \cup Types
ASSUME CursorAssumption ==
    /\ Cursors \cap {"row", "query", "dead", "init", "scalar"} = {}
    /\ Null \notin Cursors \cup {"row", "query", "dead", "init", "scalar"}
ASSUME TokenAssumption == MaxTokens \in Nat \ {0}
ASSUME OutcomeAssumption == Outcomes \subseteq {"survive", "error", "crash"}

\* load_default_model() loads person, then company, then generic.
First == "person"
After(t) == IF t = "person" THEN "company" ELSE IF t = "company" THEN "generic" ELSE Null

(***************************************************************************)
(* Memory contexts outside crf_memory_context that can be current while a  *)
(* load runs: the per-row expression context, the one a library is loaded  *)
(* in, and the multi_call_memory_ctx of every open parse_name() cursor.    *)
(***************************************************************************)
Contexts == {"row", "query"} \cup Cursors

(***************************************************************************)
(* Who runs load_default_model(): _PG_init ("init"), tag_name_crf or       *)
(* parse_name_cols ("scalar": the two share this control), or the first    *)
(* call of parse_name_crf for a cursor.                                    *)
(***************************************************************************)
Callers == {"init", "scalar"} \cup Cursors

\* The memory context that is current while a caller runs.
ContextOf(who) == IF who = "init" THEN "query"
                  ELSE IF who = "scalar" THEN "row" ELSE who

VARIABLES
    file,    \* the model file of each type: its content, or Null
    lib,     \* Postgres has registered the library: _PG_init returned
    slot,    \* person_model, company_model, generic_model
    live,    \* addresses of native models that are allocated
    pc,      \* where the backend is
    who,     \* the caller being served
    target,  \* the slot load_default_model() loads next; Null after the last
    anyOk,   \* one of its loads succeeded
    cursor,  \* the parse_name() cursors
    answers, \* history: the models that answered a name in this backend
    touched  \* history: kinds of freed memory this backend has read

vars == <<file, lib, slot, live, pc, who, target, anyOk, cursor, answers, touched>>

(***************************************************************************)
(* A slot: the native model and its two dictionaries live and die          *)
(* together, so native stands for the three pointers; strs is the context  *)
(* that owns model_name and version, or "dead" once that context is gone.  *)
(***************************************************************************)
Slots == [native  : Addr \cup {Null},
          loaded  : BOOLEAN,
          content : Versions \cup {Null},
          strs    : Contexts \cup {Null, "dead"}]

EmptySlot == [native |-> Null, loaded |-> FALSE, content |-> Null, strs |-> Null]

\* A cursor: the rows left to fetch and what holds the strings of those rows.
CursorStates == [open  : BOOLEAN,
                 left  : 0..MaxTokens,
                 store : Contexts \cup Addr \cup {Null}]

ClosedCursor == [open |-> FALSE, left |-> 0, store |-> Null]

TypeOK ==
    /\ file \in [Types -> Versions \cup {Null}]
    /\ lib \in BOOLEAN
    /\ slot \in [Types -> Slots]
    /\ live \subseteq Addr
    /\ pc \in {"idle", "load", "open", "parse", "down"}
    /\ who \in Callers \cup {Null}
    /\ target \in Types \cup {Null}
    /\ anyOk \in BOOLEAN
    /\ cursor \in [Cursors -> CursorStates]
    /\ answers \subseteq {"person", "generic"} \X (Versions \cup {Null})
    /\ touched \subseteq {"model", "dictionary", "strings"}

Init ==
    /\ file \in [Types -> Versions \cup {Null}]
    /\ lib = FALSE
    /\ slot = [t \in Types |-> EmptySlot]
    /\ live = {}
    /\ pc = "idle"
    /\ who = Null
    /\ target = Null
    /\ anyOk = FALSE
    /\ cursor = [c \in Cursors |-> ClosedCursor]
    /\ answers = {}
    /\ touched = {}

-----------------------------------------------------------------------------
(* Postgres, as the extension uses it *)

\* A backend that has just been forked: static storage is zero.
ForkBackend ==
    /\ lib' = FALSE
    /\ slot' = [t \in Types |-> EmptySlot]
    /\ live' = {}
    /\ who' = Null
    /\ target' = Null
    /\ anyOk' = FALSE
    /\ cursor' = [c \in Cursors |-> ClosedCursor]
    /\ answers' = {}

\* What s becomes once the contexts in dead are reset: the strings of a model
\* that were allocated in one of them are gone, the pointers to them are not.
Dangle(s, dead) ==
    [t \in Types |-> IF s[t].strs \in dead THEN [s[t] EXCEPT !.strs = "dead"]
                     ELSE s[t]]

Close(dead) == [c \in Cursors |-> IF c \in dead THEN ClosedCursor ELSE cursor[c]]

\* The call in progress is over and control is back in Postgres.
Return ==
    /\ pc' = "idle"
    /\ who' = Null
    /\ target' = Null
    /\ anyOk' = FALSE

\* ereport(ERROR) leaves the registry at s and unwinds to an enclosing
\* (sub)transaction, which resets the caller's context and maybe others.
Abort(s) ==
    /\ Return
    /\ \E dead \in SUBSET Contexts :
          /\ ContextOf(who) \in dead
          /\ slot' = Dangle(s, dead)
          /\ cursor' = Close(dead)

\* SIGSEGV: the backend's memory is gone; what it touched stays on record.
Crash(touch) ==
    /\ touch # {}
    /\ "crash" \in Outcomes
    /\ ForkBackend
    /\ pc' = "down"
    /\ touched' = touched \cup touch
    /\ UNCHANGED file

\* A new connection, in place of this one or after its crash.
Reconnect ==
    /\ pc \in {"idle", "down"}
    /\ ForkBackend
    /\ pc' = "idle"
    /\ touched' = {}
    /\ UNCHANGED file

\* Between two calls the executor resets a context of its own.
ResetContext(c) ==
    /\ pc = "idle"
    /\ slot' = Dangle(slot, {c})
    /\ UNCHANGED <<file, lib, live, pc, who, target, anyOk, cursor, answers, touched>>

\* An administrator installs, upgrades or removes a model file.
ChangeFile(t, content) ==
    /\ content # file[t]
    /\ file' = [file EXCEPT ![t] = content]
    /\ UNCHANGED <<lib, slot, live, pc, who, target, anyOk, cursor, answers, touched>>

-----------------------------------------------------------------------------
(* Entry points: choosing a model *)

\* _PG_init, run by the first use of the library; once more if it threw.
LoadLibrary ==
    /\ pc = "idle"
    /\ ~lib
    /\ pc' = "load"
    /\ who' = "init"
    /\ target' = First
    /\ UNCHANGED <<file, lib, slot, live, anyOk, cursor, answers, touched>>

\* A call may begin: a cursor's first call only while that cursor is closed.
MayCall(w) == pc = "idle" /\ lib /\ (w \in Cursors => ~cursor[w].open)

\* Mutants of NeedsReload: reload on every call; test the pointer alone, which
\* is set once _PG_init has run.
AlwaysReload == TRUE
ReloadIfUnset == ~lib

\* model == NULL || !model->is_loaded, for the generic model.
NeedsReload == ~slot["generic"].loaded

\* get_active_model("generic") is loaded: parse with it.
CallWithGeneric(w) ==
    /\ MayCall(w)
    /\ ~NeedsReload
    /\ pc' = "parse"
    /\ who' = w
    /\ UNCHANGED <<file, lib, slot, live, target, anyOk, cursor, answers, touched>>

\* It is not: load_default_model() reloads all three slots first.
CallWithReload(w) ==
    /\ MayCall(w)
    /\ NeedsReload
    /\ pc' = "load"
    /\ who' = w
    /\ target' = First
    /\ UNCHANGED <<file, lib, slot, live, anyOk, cursor, answers, touched>>

-----------------------------------------------------------------------------
(* load_default_model(), one load_model_from_file() after the other *)

Loading == pc = "load" /\ target # Null

\* What free_crf_model() reads after it was freed: model->release() frees the
\* dictionaries that labels->release() and attrs->release() then dereference,
\* and model_name and version may be gone with the context they were made in.
FreeTouches(m) ==
    {k \in {"model", "dictionary", "strings"} :
        \/ k = "model" /\ m.native # Null /\ m.native \notin live
        \/ k = "dictionary" /\ m.native # Null
        \/ k = "strings" /\ m.strs = "dead"}

\* Mutant of Released: the native model is not released.
NothingReleased(m) == {}

\* The native model that model->release() frees: its count was 1.
Released(m) == {m.native}

\* free_crf_model(*target_model), then create_crf_model(): the old model goes
\* before anything is known of the new file.
FreeOld ==
    /\ Loading
    /\ FreeTouches(slot[target]) # {} => "survive" \in Outcomes
    /\ slot' = [slot EXCEPT ![target] = EmptySlot]
    /\ live' = live \ Released(slot[target])
    /\ touched' = touched \cup FreeTouches(slot[target])
    /\ pc' = "open"
    /\ UNCHANGED <<file, lib, who, target, anyOk, cursor, answers>>

\* pfree() of a dead string finds no chunk header and reports an error: the
\* native model is freed, the slot still points at it and says is_loaded.
FreeOldErrors ==
    /\ Loading
    /\ slot[target].strs = "dead"
    /\ "error" \in Outcomes
    /\ live' = live \ Released(slot[target])
    /\ touched' = touched \cup FreeTouches(slot[target])
    /\ Abort(slot)
    /\ UNCHANGED <<file, lib, answers>>

FreeOldCrashes == Loading /\ Crash(FreeTouches(slot[target]))

\* The model loaded into t: its strings are pstrdup'd in the caller's context.
LoadedSlot(t, a) ==
    [native |-> a, loaded |-> TRUE, content |-> file[t], strs |-> ContextOf(who)]

\* Mutant of UnopenedSlot: is_loaded is set before the result is looked at.
UnopenedButLoaded == [EmptySlot EXCEPT !.loaded = TRUE]

\* What create_crf_model() made, when the early return leaves it as it is.
UnopenedSlot == EmptySlot

\* Mutant of Succeeded: the last load overwrites the result of the others.
LastSucceeded(before, ok) == ok

\* load_default_model() succeeds if any of its three loads did.
Succeeded(before, ok) == before \/ ok

\* crfsuite_create_instance_from_file() succeeds at address a.
OpenModel(a) ==
    /\ pc = "open"
    /\ file[target] # Null
    /\ slot' = [slot EXCEPT ![target] = LoadedSlot(target, a)]
    /\ live' = live \cup {a}
    /\ anyOk' = Succeeded(anyOk, TRUE)
    /\ target' = After(target)
    /\ pc' = "load"
    /\ UNCHANGED <<file, lib, who, cursor, answers, touched>>

\* The same, but the ereport(LOG) at its end serves a pending query cancel.
OpenModelCancelled(a) ==
    /\ pc = "open"
    /\ file[target] # Null
    /\ live' = live \cup {a}
    /\ Abort([slot EXCEPT ![target] = LoadedSlot(target, a)])
    /\ UNCHANGED <<file, lib, answers, touched>>

\* The file cannot be opened, or no memory is left: the slot stays empty.
OpenFails ==
    /\ pc = "open"
    /\ file[target] = Null \/ live = Addr
    /\ slot' = [slot EXCEPT ![target] = UnopenedSlot]
    /\ anyOk' = Succeeded(anyOk, FALSE)
    /\ target' = After(target)
    /\ pc' = "load"
    /\ UNCHANGED <<file, lib, live, who, cursor, answers, touched>>

\* _PG_init is done, with or without its WARNING, and the library registered.
LibraryLoaded ==
    /\ pc = "load" /\ target = Null /\ who = "init"
    /\ lib' = TRUE
    /\ Return
    /\ UNCHANGED <<file, slot, live, cursor, answers, touched>>

\* Mutant of NotLoadedError: the load is retried inside the call.
RetryLoad ==
    /\ pc = "load" /\ target = Null /\ who # "init" /\ ~anyOk
    /\ target' = First
    /\ UNCHANGED <<file, lib, slot, live, pc, who, anyOk, cursor, answers, touched>>

\* No slot could be loaded: "CRF model is not loaded".
NotLoadedError ==
    /\ pc = "load" /\ target = Null /\ who # "init" /\ ~anyOk
    /\ Abort(slot)
    /\ UNCHANGED <<file, lib, live, answers, touched>>

ReloadDone ==
    /\ pc = "load" /\ target = Null /\ who # "init" /\ anyOk
    /\ pc' = "parse"
    /\ UNCHANGED <<file, lib, slot, live, who, target, anyOk, cursor, answers, touched>>

-----------------------------------------------------------------------------
(* parse_name_string() and the rows of parse_name() *)

\* Mutant of Store: the label pointers of the model are kept, not copied.
BorrowedLabels(m) == m.native

\* pstrdup(): a result's texts and labels live in the caller's context.
Store(m) == ContextOf(who)

\* The generic model, or the person model as fallback; never the company model.
Chosen == IF slot["generic"].loaded THEN "generic" ELSE "person"

\* A NULL result: the model is not loaded, the name has no token, or the
\* tagger fails. A cursor then ends at once and its context is reset.
ParseNothing ==
    /\ pc = "parse"
    /\ slot' = Dangle(slot, {who} \cap Cursors)
    /\ Return
    /\ UNCHANGED <<file, lib, live, cursor, answers, touched>>

\* What tagging and pstrdup(model->version) read after it was freed.
ParseTouches(m) ==
    {k \in {"model", "strings"} :
        \/ k = "model" /\ m.native \notin live
        \/ k = "strings" /\ m.strs = "dead"}

\* A result of n tokens. Labels and texts are copied into the caller's context;
\* the first call of a cursor also emits the first row.
ParseName(n) ==
    LET m == slot[Chosen] IN
    /\ pc = "parse"
    /\ m.loaded
    /\ ParseTouches(m) # {} => "survive" \in Outcomes
    /\ answers' = answers \cup {<<Chosen, m.content>>}
    /\ touched' = touched \cup ParseTouches(m)
    /\ cursor' = [c \in Cursors |->
                    IF c = who THEN [open |-> TRUE, left |-> n - 1, store |-> Store(m)]
                    ELSE cursor[c]]
    /\ Return
    /\ UNCHANGED <<file, lib, slot, live>>

ParseCrashes ==
    /\ pc = "parse"
    /\ slot[Chosen].loaded
    /\ Crash(ParseTouches(slot[Chosen]))

\* Mutant of MoreRows: current_idx <= num_tokens.
OneRowTooMany(c) == cursor[c].open

\* current_idx < num_tokens
MoreRows(c) == cursor[c].open /\ cursor[c].left > 0

\* SRF_RETURN_NEXT: the next row is copied out of the stored result.
NextRow(c) ==
    /\ pc = "idle"
    /\ MoreRows(c)
    /\ cursor' = [cursor EXCEPT ![c].left = @ - 1]
    /\ UNCHANGED <<file, lib, slot, live, pc, who, target, anyOk, answers, touched>>

\* SRF_RETURN_DONE, or the query stops fetching: the cursor's context goes.
EndCursor(c) ==
    /\ pc = "idle"
    /\ cursor[c].open
    /\ cursor' = [cursor EXCEPT ![c] = ClosedCursor]
    /\ slot' = Dangle(slot, {c})
    /\ UNCHANGED <<file, lib, live, pc, who, target, anyOk, answers, touched>>

-----------------------------------------------------------------------------
Call(w) == CallWithGeneric(w) \/ CallWithReload(w)

\* The code's own steps: once entered, the backend runs them without waiting.
CodeStep ==
    \/ FreeOld
    \/ FreeOldErrors
    \/ FreeOldCrashes
    \/ \E a \in Addr \ live : OpenModel(a) \/ OpenModelCancelled(a)
    \/ OpenFails
    \/ LibraryLoaded
    \/ NotLoadedError
    \/ ReloadDone
    \/ ParseNothing
    \/ \E n \in 1..MaxTokens : ParseName(n)
    \/ ParseCrashes

\* What clients, the executor and the administrator do.
Environment ==
    \/ LoadLibrary
    \/ \E w \in {"scalar"} \cup Cursors : Call(w)
    \/ \E c \in Cursors : NextRow(c) \/ EndCursor(c)
    \/ \E c \in {"row", "query"} : ResetContext(c)
    \/ \E t \in Types, content \in Versions \cup {Null} : ChangeFile(t, content)
    \/ Reconnect

Next == CodeStep \/ Environment

Spec == Init /\ [][Next]_vars

\* Entered code runs to its end; clients and files are free to do nothing.
FairSpec == Spec /\ WF_vars(CodeStep)

-----------------------------------------------------------------------------
(* What makes the registry correct *)

\* free_crf_model() and load_model_from_file() leak no native model: whatever
\* fails, is cancelled or is freed too early, each one is held by a slot.
NoLeak == \A a \in live : \E t \in Types : slot[t].native = a

\* Once the library is registered, a generic model that says is_loaded can be
\* tagged with: no reload of the others, and no freed memory they touched,
\* takes its native model away.
GenericUsable ==
    lib /\ slot["generic"].loaded => slot["generic"].native \in live

\* When load_default_model() returns, its result says whether any slot holds a
\* model: an error is raised exactly when there is none. A call that goes on
\* and yet has no model to use, so that it gives no rows and no error, finds
\* that of three models the company model alone was loaded.
ResultHonest ==
    /\ pc = "load" /\ target = Null => (anyOk <=> \E t \in Types : slot[t].loaded)
    /\ pc = "parse" /\ ~slot[Chosen].loaded =>
           {t \in Types : slot[t].loaded} = {"company"}

\* The rows a parse_name() cursor has still to return are readable, though the
\* model that produced them may have been reloaded since the first row.
CursorIntact ==
    \A c \in Cursors :
        cursor[c].left > 0 => cursor[c].open /\ cursor[c].store \in {c} \cup live

\* After the first answer of the generic model every answer of this backend
\* comes from that same model: it is never replaced, and never fallen back from.
AnswersSettle ==
    [][\A v \in Versions : <<"generic", v>> \in answers => answers' \in {answers, {}}]_vars

\* Once a generic model file is there to stay, calls stop falling back to the
\* person model: a failed load is retried by the next call.
Recovers == <>[](file["generic"] # Null) => <>[](pc = "parse" => slot["generic"].loaded)

\* A call that entered the extension comes back, or takes the backend down.
CallsReturn == pc \in {"load", "open", "parse"} ~> pc \in {"idle", "down"}

-----------------------------------------------------------------------------
(* What comments and declarations of the repository say of it, and the code   *)
(* does not do                                                                *)

\* "This object is owned and freed only by a crfsuite_model_t object": nobody
\* uses a dictionary after its model was released.
DictionaryOwnedByModel == "dictionary" \notin touched

\* "Initialize memory context for long-lived model data": what a model in a
\* slot points to lives as long as the slot.
ModelDataLongLived == "strings" \notin touched

==============================================================================
