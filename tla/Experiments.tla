----------------------------- MODULE Experiments -----------------------------
(***************************************************************************)
(* experiment.py over the Session of state.py.  An experiment is a file of *)
(* planned calls; the worlds its calls are answered in are regions of the  *)
(* one live window, which a reset or a restart of the Studio replaces by   *)
(* an empty one.  Requests run in threads of the HTTP server.  One call    *)
(* per condition of the spec stands for the calls of all its roles; no     *)
(* difference between roles of one condition is used.                      *)
(***************************************************************************)
EXTENDS Integers, SequencesExt

CONSTANTS
  Exps,
  Conditions,      \* as the spec lists them
  Flat,            \* those whose roles share one region
  Threads,
  MaxIterations,   \* of a role
  MaxResets,       \* bounds resets and restarts
  Absent, Torn       \* no value; a file that does not parse

Cells == Range(Conditions)

ASSUME ConditionsAssumption ==
  /\ Conditions \in Seq(Cells) /\ Flat \subseteq Cells
  /\ MaxIterations \in Nat \ {0} /\ MaxResets \in Nat

(* The names of worlds, and what the file of an experiment plans.           *)
WorldNames == ({"F"} \X Cells) \union ({"L"} \X (Nat \ {0}))
Plans == [calls : [Cells -> WorldNames \union {Absent}], done : SUBSET Cells]

ASSUME AbsentAssumption ==
  Absent \notin WorldNames \union Plans /\ Torn \notin Plans \union {Absent}

VARIABLES
  doc,       \* experiment.json of each experiment
  worlds,    \* session.window: who bound each world and what was written to it
  counter,   \* session._counter
  job,       \* the request each thread is serving
  resets,
  stale,     \* the experiments made in a window that is gone
  orderly    \* no two requests on one experiment met, every save landed, and
             \* no stale experiment was answered

expVars == <<doc, worlds, counter, job, resets, stale, orderly>>

NoJob == [step |-> "idle"]

Planned == [calls |-> [c \in Cells |-> Absent], done |-> {}]

ExpInit ==
  /\ doc = [e \in Exps |-> Absent] /\ worlds = << >> /\ counter = 0
  /\ job = [t \in Threads |-> NoJob]
  /\ resets = 0 /\ stale = {} /\ orderly = TRUE

Written(e) == doc[e] \notin {Absent, Torn}

Finish(t) == job' = [job EXCEPT ![t] = NoJob]

-----------------------------------------------------------------------------
(* create: the plan is saved before anything is bound.                      *)
Create(t, e) ==
  /\ job[t] = NoJob /\ doc[e] = Absent
  /\ doc' = [doc EXCEPT ![e] = Planned]
  /\ job' = [job EXCEPT ![t] = [step |-> "binding", exp |-> e, copy |-> Planned]]
  /\ UNCHANGED <<worlds, counter, resets, stale, orderly>>

Unbound(t) == {i \in DOMAIN Conditions : job[t].copy.calls[Conditions[i]] = Absent}

(* A partitioned instance is numbered by the session; a flat one is named   *)
(* after its task and condition, which every run of the spec shares.        *)
WorldName(c) == IF c \in Flat THEN <<"F", c>> ELSE <<"L", counter + 1>>

(* materialize, the next condition: region names are never used twice, so a *)
(* name that is taken ends the request with no calls saved.                 *)
BindWorld(t) ==
  /\ job[t].step = "binding"
  /\ \E i \in Unbound(t) :
       LET c == Conditions[i]
           name == WorldName(c)
       IN  /\ \A j \in Unbound(t) : i <= j
           /\ IF name \in DOMAIN worlds
              THEN Finish(t) /\ UNCHANGED <<worlds, counter>>
              ELSE /\ worlds' = [n \in DOMAIN worlds \union {name} |->
                                   IF n = name THEN [owner |-> job[t].exp, got |-> <<>>] ELSE worlds[n]]
                   /\ counter' = IF c \in Flat THEN counter ELSE counter + 1
                   /\ job' = [job EXCEPT ![t].copy.calls[c] = name]
  /\ UNCHANGED <<doc, resets, stale, orderly>>

SaveCalls(t) ==
  /\ job[t].step = "binding" /\ Unbound(t) = {}
  /\ doc' = [doc EXCEPT ![job[t].exp] = job[t].copy]
  /\ Finish(t)
  /\ UNCHANGED <<worlds, counter, resets, stale, orderly>>

-----------------------------------------------------------------------------
PlannedCall(run, c) == run.calls[c] # Absent     \* mutant: no already_ingested

Pending(run, c) == run.calls[c] # Absent /\ c \notin run.done

OnExp(t, e) == job[t] # NoJob /\ job[t].exp = e

(* api_exp_ingest loads the experiment; a call that is done changes nothing *)
LoadCopy(t, e, c) ==
  /\ job[t] = NoJob /\ Written(e) /\ Pending(doc[e], c)
  /\ job' = [job EXCEPT ![t] = [step |-> "loaded", exp |-> e, cell |-> c, copy |-> doc[e]]]
  /\ orderly' = (orderly /\ \A d \in Threads : ~OnExp(d, e))
  /\ UNCHANGED <<doc, worlds, counter, resets, stale>>

RoleWorld(t) == job[t].copy.calls[job[t].cell]

(* The response goes to the world the call names, in whichever window is    *)
(* live, and the role ticks; a role out of iterations has been released.    *)
WriteAnswer(t) ==
  /\ job[t].step = "loaded" /\ RoleWorld(t) \in DOMAIN worlds
  /\ IF Len(worlds[RoleWorld(t)].got) < MaxIterations
     THEN /\ worlds' = [worlds EXCEPT ![RoleWorld(t)].got = Append(@, <<job[t].exp, job[t].cell>>)]
          /\ job' = [job EXCEPT ![t].step = "written"]
          /\ orderly' = (orderly /\ job[t].exp \notin stale)
     ELSE /\ job' = [job EXCEPT ![t].step = "refused"]
          /\ UNCHANGED <<worlds, orderly>>
  /\ UNCHANGED <<doc, counter, resets, stale>>

(* After a reset or a restart session.window.loops has no such role, and    *)
(* the request ends with an error; or it had the role when it was asked,    *)
(* and the window that is there under the lock refuses the write.           *)
NoSuchRole(t) ==
  /\ \/ /\ job[t].step = "binding" /\ job[t].exp \in stale
        /\ Finish(t)
     \/ /\ job[t].step = "loaded" /\ RoleWorld(t) \notin DOMAIN worlds
        /\ Finish(t) \/ job' = [job EXCEPT ![t].step = "refused"]
  /\ UNCHANGED <<doc, worlds, counter, resets, stale, orderly>>

MarkedDone(run, c) == [run EXCEPT !.done = @ \union {c}]

(* The whole copy is saved, also after a refusal.                           *)
Save(t) ==
  /\ job[t].step \in {"written", "refused"}
  /\ LET run == job[t].copy
     IN  doc' = [doc EXCEPT ![job[t].exp] =
                   IF job[t].step = "written" THEN MarkedDone(run, job[t].cell) ELSE run]
  /\ Finish(t)
  /\ UNCHANGED <<worlds, counter, resets, stale, orderly>>

(* save() raises: before the file is emptied, or after.                     *)
SaveFails(t) ==
  /\ job[t].step \in {"written", "refused"} \/ (job[t].step = "binding" /\ Unbound(t) = {})
  /\ \/ UNCHANGED doc
     \/ doc' = [doc EXCEPT ![job[t].exp] = Torn]
  /\ Finish(t)
  /\ orderly' = FALSE
  /\ UNCHANGED <<worlds, counter, resets, stale>>

-----------------------------------------------------------------------------
NewWindow ==
  /\ resets < MaxResets /\ resets' = resets + 1
  /\ worlds' = << >> /\ counter' = 0
  /\ stale' = {e \in Exps : doc[e] # Absent}

ResetSession == NewWindow /\ UNCHANGED <<doc, job, orderly>>

(* The Studio dies and starts again: the files are as they were.            *)
Restart ==
  /\ NewWindow
  /\ job' = [t \in Threads |-> NoJob]
  /\ UNCHANGED <<doc, orderly>>

ExpNext ==
  \/ ResetSession \/ Restart
  \/ \E t \in Threads :
       \/ \E e \in Exps : Create(t, e) \/ \E c \in Cells : LoadCopy(t, e, c)
       \/ BindWorld(t) \/ SaveCalls(t) \/ WriteAnswer(t) \/ NoSuchRole(t) \/ Save(t) \/ SaveFails(t)

ExpSpec == ExpInit /\ [][ExpNext]_expVars

-----------------------------------------------------------------------------
Answered(e, c) == IF c \in doc[e].done THEN <<<<e, c>>>> ELSE <<>>

(* As long as requests on one experiment follow one another, saves land and *)
(* experiments of an earlier window are let be, the file of every           *)
(* experiment of this window agrees with the window: each call names a      *)
(* world of its own experiment, which holds the call's response once if the *)
(* file calls it done and nothing if not.                                   *)
FileAndWindowAgree ==
  orderly => \A e \in Exps \ stale :
    (Written(e) /\ \A t \in Threads : ~OnExp(t, e)) =>
      \A c \in {x \in Cells : doc[e].calls[x] # Absent} :
        /\ doc[e].calls[c] \in DOMAIN worlds
        /\ worlds[doc[e].calls[c]] = [owner |-> e, got |-> Answered(e, c)]
=============================================================================
