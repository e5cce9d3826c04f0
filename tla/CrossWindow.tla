----------------------------- MODULE CrossWindow -----------------------------
(***************************************************************************)
(* cross_window.py: a run of separate model calls, kept whole in one file. *)
(* Every request loads the file, changes its copy and writes it back; the  *)
(* Studio serves requests in threads, and the loops plane is a process of  *)
(* its own on the same file.  Callers are the sessions that drive the run: *)
(* each asks for the next call, sends its prompt to a model and ingests    *)
(* the response.                                                           *)
(***************************************************************************)
EXTENDS Integers, SequencesExt

CONSTANTS
  Order,       \* the participants, as the topology lists them
  ReadsFrom,   \* whose declared output each of them may see
  Responses,
  Callers,
  Unanswered, Garbled  \* no value; a file that does not parse

Parts == Range(Order)

ASSUME TopologyAssumption ==
  /\ Order \in Seq(Parts)
  /\ ReadsFrom \in [Parts -> SUBSET Parts]
  /\ Unanswered \notin Responses

VARIABLES
  file,     \* the run on disk
  caller,   \* what each caller is in the middle of
  met       \* two ingests have overlapped

runVars == <<file, caller, met>>

(* A prompt is its participant's own task and the outputs spliced into it.  *)
(* answers is not in the file: the prompt each response is an answer to.    *)
Created ==
  [done |-> {}, response |-> [p \in Parts |-> Unanswered],
   prompt |-> [p \in Parts |-> {}], answers |-> [p \in Parts |-> Unanswered]]

Free == [step |-> "idle"]

RunInit == file = Created /\ caller = [c \in Callers |-> Free] /\ met = FALSE

-----------------------------------------------------------------------------
UpstreamDone(run, p) == ReadsFrom[p] \subseteq run.done

Waiting(run) == {i \in DOMAIN Order : Order[i] \notin run.done /\ UpstreamDone(run, Order[i])}

(* next_call: the first in the order of the topology.                       *)
IsNext(run, i) == i \in Waiting(run) /\ \A j \in Waiting(run) : i <= j

SplicedIntoNext(run, p, answer) ==     \* mutant: only the call that is next
  [q \in Parts |-> IF p \in ReadsFrom[q] /\ \E i \in DOMAIN Order :
                         q = Order[i] /\ IsNext([run EXCEPT !.done = @ \union {p}], i)
                   THEN run.prompt[q] \union {<<p, answer>>} ELSE run.prompt[q]]

Spliced(run, p, answer) ==
  [q \in Parts |-> IF q \notin run.done \union {p} /\ p \in ReadsFrom[q]
                   THEN run.prompt[q] \union {<<p, answer>>} ELSE run.prompt[q]]

Ingested(run, p, answer, sent) ==
  [done |-> run.done \union {p},
   response |-> [run.response EXCEPT ![p] = answer],
   prompt |-> Spliced(run, p, answer),
   answers |-> [run.answers EXCEPT ![p] = sent]]

(* status: the next call, whose prompt the caller sends as it stands.       *)
Ask(c) ==
  /\ caller[c] = Free /\ file # Garbled
  /\ \E i \in DOMAIN Order :
       /\ IsNext(file, i)
       /\ caller' = [caller EXCEPT ![c] =
            [step |-> "sent", part |-> Order[i], prompt |-> file.prompt[Order[i]]]]
  /\ UNCHANGED <<file, met>>

NotKnownAsIngested(run, p) == FALSE     \* mutant: a call is ingested again

AlreadyIngested(run, p) == p \in run.done

Ingesting(c) == caller[c].step \in {"ingesting", "writing"}

(* ingest: the response to c's prompt has come.                             *)
LoadRun(c) ==
  /\ caller[c].step = "sent" /\ file # Garbled
  /\ IF AlreadyIngested(file, caller[c].part)
     THEN caller' = [caller EXCEPT ![c] = Free] /\ UNCHANGED met
     ELSE /\ \E answer \in Responses :
               caller' = [caller EXCEPT ![c] =
                 [step |-> "ingesting",
                  copy |-> Ingested(file, caller[c].part, answer, caller[c].prompt)]]
          /\ met' = (met \/ \E d \in Callers \ {c} : Ingesting(d))
  /\ UNCHANGED file

(* save() opens the file, which empties it, and then writes it.             *)
Open(c) ==
  /\ caller[c].step = "ingesting"
  /\ file' = Garbled
  /\ caller' = [caller EXCEPT ![c] = [step |-> "writing", copy |-> caller[c].copy]]
  /\ UNCHANGED met

(* When another writer has filled the file since it was opened, the end of  *)
(* the longer text may stay behind the shorter one.                         *)
Fill(c) ==
  /\ caller[c].step = "writing"
  /\ \/ file' = caller[c].copy
     \/ file # Garbled /\ file' = Garbled
  /\ caller' = [caller EXCEPT ![c] = Free]
  /\ UNCHANGED met

(* The session dies, or loses what it was doing.                            *)
Quit(c) ==
  /\ caller[c] # Free
  /\ caller' = [caller EXCEPT ![c] = Free]
  /\ UNCHANGED <<file, met>>

RunNext == \E c \in Callers : Ask(c) \/ LoadRun(c) \/ Open(c) \/ Fill(c) \/ Quit(c)

RunSpec == RunInit /\ [][RunNext]_runVars

-----------------------------------------------------------------------------
Outputs(run, p) == {<<q, run.response[q]>> : q \in ReadsFrom[p] \intersect run.done}

Consistent(run) == \A p \in Parts \ run.done : run.prompt[p] = Outputs(run, p)

(* The prompt of a call still to be made holds the declared output of each  *)
(* participant it reads that has answered, once, and nothing of any other,  *)
(* whichever ingests overlapped and whichever of them were lost: what a     *)
(* participant is sent never mixes two versions of the run.                 *)
PendingPromptsHold == file # Garbled => Consistent(file)

(* The text holds the output of everyone the participant reads.             *)
Complete(run, p, text) == ReadsFrom[p] \subseteq run.done /\ text = Outputs(run, p)

Settled(run) ==
  \A p \in run.done : run.answers[p] = run.prompt[p] /\ Complete(run, p, run.prompt[p])

(* While no two ingests overlap, the prompt on record for an answered call  *)
(* is the one that was sent, with the output of everyone the participant    *)
(* reads: the report searches the text the model was really given.          *)
RecordedAsSentUnraced == file # Garbled /\ ~met => Settled(file)

(* cross_window.py:23: "every dispatched prompt is recorded verbatim".      *)
RecordedAsSent == file # Garbled => \A p \in file.done : file.answers[p] = file.prompt[p]
=============================================================================
