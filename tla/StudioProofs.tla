---------------------------- MODULE StudioProofs ----------------------------
(***************************************************************************)
(* The files of the Studio.  What a participant of a cross-window run is   *)
(* sent is consistent whatever overlaps, and on record as it was sent      *)
(* while nothing does: for any topology, any responses and any number of   *)
(* callers.  The file of an experiment agrees with the window as long as   *)
(* its requests are orderly, for any experiments, conditions and threads.  *)
(***************************************************************************)
EXTENDS CrossWindow, Experiments, TLAPS

Typed(run) ==
  /\ run.done \subseteq Parts
  /\ run.response \in [Parts -> Responses \union {Unanswered}]
  /\ DOMAIN run.answers = Parts

CallersTyped ==
  /\ DOMAIN caller = Callers
  /\ \A c \in Callers : caller[c].step = "sent" => caller[c].part \in Parts

(* Every version of the run, on disk or in some request, is consistent.     *)
VersionsHold ==
  /\ file # Garbled => Typed(file) /\ Consistent(file)
  /\ \A c \in Callers : Ingesting(c) => Typed(caller[c].copy) /\ Consistent(caller[c].copy)

Sound == CallersTyped /\ VersionsHold

(* A later version of a run: nothing answered is answered otherwise.        *)
Extends(new, old) ==
  old.done \subseteq new.done /\ \A q \in old.done : new.response[q] = old.response[q]

SentBy(c) == caller[c].step = "sent"

(* While no ingests have overlapped.                                        *)
Alone == \A c, d \in Callers : Ingesting(c) /\ Ingesting(d) => c = d

FileSettled ==
  file # Garbled =>
    Settled(file) /\ \A c \in Callers : SentBy(c) => Complete(file, caller[c].part, caller[c].prompt)

CopiesSettled ==
  \A c \in Callers : Ingesting(c) =>
    /\ Settled(caller[c].copy)
    /\ \A d \in Callers : SentBy(d) => Complete(caller[c].copy, caller[d].part, caller[d].prompt)
    /\ file # Garbled => Extends(caller[c].copy, file)

Orderly == Alone /\ FileSettled /\ CopiesSettled

RunInv == Sound /\ (~met => Orderly)

-----------------------------------------------------------------------------
(* Ingesting a response makes a consistent version that extends the old.    *)
LEMMA IngestedHolds ==
  ASSUME NEW run, Typed(run), Consistent(run),
         NEW p \in Parts \ run.done, NEW answer \in Responses, NEW sent
  PROVE  /\ Typed(Ingested(run, p, answer, sent))
         /\ Consistent(Ingested(run, p, answer, sent))
         /\ Extends(Ingested(run, p, answer, sent), run)
<1> DEFINE new == Ingested(run, p, answer, sent)
<1>1. /\ new.done = run.done \union {p}
      /\ new.response = [run.response EXCEPT ![p] = answer]
      /\ new.prompt = Spliced(run, p, answer)
  BY DEF Ingested
<1>2. /\ run.done \subseteq Parts
      /\ run.response \in [Parts -> Responses \union {Unanswered}]
  BY DEF Typed
<1>3. Typed(new)
  BY <1>1, <1>2 DEF Typed, Ingested
<1>4. /\ new.response[p] = answer
      /\ \A q \in run.done : new.response[q] = run.response[q]
  BY <1>1, <1>2
<1>5. ASSUME NEW q \in Parts \ new.done
      PROVE  new.prompt[q] = Outputs(new, q)
  <2>1. q \in Parts \ run.done /\ q \notin run.done \union {p}
    BY <1>1
  <2>2. run.prompt[q] = Outputs(run, q)
    BY <2>1 DEF Consistent
  <2>3. CASE p \in ReadsFrom[q]
    <3>1. new.prompt[q] = run.prompt[q] \union {<<p, answer>>}
      BY <1>1, <2>1, <2>3 DEF Spliced
    <3>2. ReadsFrom[q] \intersect new.done = (ReadsFrom[q] \intersect run.done) \union {p}
      BY <1>1, <2>3
    <3>3. Outputs(new, q) = Outputs(run, q) \union {<<p, answer>>}
      BY <1>4, <3>2 DEF Outputs
    <3> QED BY <2>2, <3>1, <3>3
  <2>4. CASE p \notin ReadsFrom[q]
    <3>1. new.prompt[q] = run.prompt[q]
      BY <1>1, <2>1, <2>4 DEF Spliced
    <3>2. ReadsFrom[q] \intersect new.done = ReadsFrom[q] \intersect run.done
      BY <1>1, <2>4
    <3>3. Outputs(new, q) = Outputs(run, q)
      BY <1>4, <3>2 DEF Outputs
    <3> QED BY <2>2, <3>1, <3>3
  <2> QED BY <2>3, <2>4
<1>6. Consistent(new)
  BY <1>5 DEF Consistent
<1>7. Extends(new, run)
  BY <1>1, <1>4 DEF Extends
<1> QED BY <1>3, <1>6, <1>7

LEMMA CompleteStays ==
  ASSUME NEW old, NEW new, NEW p, NEW text, Extends(new, old), Complete(old, p, text)
  PROVE  Complete(new, p, text)
<1>1. ReadsFrom[p] \subseteq old.done /\ ReadsFrom[p] \subseteq new.done
  BY DEF Extends, Complete
<1>2. ReadsFrom[p] \intersect old.done = ReadsFrom[p] \intersect new.done
  BY <1>1
<1>3. \A q \in ReadsFrom[p] : old.response[q] = new.response[q]
  BY <1>1 DEF Extends
<1>4. Outputs(old, p) = Outputs(new, p)
  BY <1>2, <1>3 DEF Outputs
<1> QED BY <1>1, <1>4 DEF Complete

(* Answering the prompt the run holds leaves it settled.                    *)
LEMMA IngestedSettles ==
  ASSUME NEW run, Typed(run), Consistent(run), Settled(run),
         NEW p \in Parts \ run.done, NEW answer \in Responses,
         NEW sent, Complete(run, p, sent)
  PROVE  Settled(Ingested(run, p, answer, sent))
<1> DEFINE new == Ingested(run, p, answer, sent)
<1>1. /\ new.done = run.done \union {p}
      /\ new.prompt = Spliced(run, p, answer)
      /\ new.answers = [run.answers EXCEPT ![p] = sent]
  BY DEF Ingested
<1>2. Extends(new, run)
  BY IngestedHolds
<1>3. \A q \in run.done \union {p} : new.prompt[q] = run.prompt[q]
  BY <1>1 DEF Spliced, Typed
<1>4. sent = run.prompt[p]
  BY DEF Complete, Consistent
<1>5. Complete(new, p, sent)
  BY <1>2, CompleteStays
<1>6. ASSUME NEW q \in run.done
      PROVE  new.answers[q] = new.prompt[q] /\ Complete(new, q, new.prompt[q])
  <2>1. q # p /\ run.answers[q] = run.prompt[q] /\ Complete(run, q, run.prompt[q])
    BY DEF Settled
  <2>2. Complete(new, q, run.prompt[q])
    BY <1>2, <2>1, CompleteStays
  <2> QED BY <1>1, <1>3, <2>1, <2>2
<1>7. new.answers[p] = sent /\ new.prompt[p] = sent
  BY <1>1, <1>3, <1>4 DEF Typed
<1> QED BY <1>1, <1>5, <1>6, <1>7 DEF Settled

-----------------------------------------------------------------------------
(* A step of c leaves the other callers what they were.                     *)
OnlyMoves(c) == DOMAIN caller' = Callers /\ \A d \in Callers \ {c} : caller'[d] = caller[d]

LEMMA RunInvStarts == RunInit => RunInv
<1> SUFFICES ASSUME RunInit PROVE RunInv
  OBVIOUS
<1>1. \A c \in Callers : caller[c].step = "idle"
  BY DEF RunInit, Free
<1>2. file.done = {} /\ file.prompt = [p \in Parts |-> {}]
  BY DEF RunInit, Created
<1>3. Typed(file)
  BY DEF RunInit, Created, Typed
<1>4. Consistent(file)
  BY <1>2 DEF Consistent, Outputs
<1>5. Sound
  BY <1>1, <1>3, <1>4 DEF Sound, CallersTyped, VersionsHold, Ingesting, RunInit
<1>6. Orderly
  BY <1>1, <1>2 DEF Orderly, Alone, FileSettled, CopiesSettled, Settled, Ingesting, SentBy
<1> QED BY <1>5, <1>6 DEF RunInv

(* A caller that stops, with the file as it is.                             *)
LEMMA FreedKeeps ==
  ASSUME RunInv, NEW c \in Callers, caller' = [caller EXCEPT ![c] = Free],
         UNCHANGED <<file, met>>
  PROVE  RunInv'
<1>1. OnlyMoves(c) /\ caller'[c].step = "idle"
  BY DEF RunInv, Sound, CallersTyped, OnlyMoves, Free
<1>2. Sound'
  BY <1>1 DEF RunInv, Sound, CallersTyped, VersionsHold, Ingesting, OnlyMoves
<1>3. Orderly => Orderly'
  BY <1>1 DEF Orderly, Alone, FileSettled, CopiesSettled, Ingesting, SentBy, OnlyMoves
<1> QED BY <1>2, <1>3 DEF RunInv

LEMMA AskKeeps ==
  ASSUME RunInv, NEW c \in Callers, Ask(c)
  PROVE  RunInv'
<1>1. PICK i \in DOMAIN Order :
        /\ IsNext(file, i)
        /\ caller' = [caller EXCEPT ![c] =
             [step |-> "sent", part |-> Order[i], prompt |-> file.prompt[Order[i]]]]
  BY DEF Ask
<1> DEFINE p == Order[i]
<1>2. p \in Parts \ file.done /\ ReadsFrom[p] \subseteq file.done
  BY <1>1, TopologyAssumption DEF IsNext, Waiting, UpstreamDone
<1>3. /\ OnlyMoves(c) /\ file' = file /\ met' = met /\ file # Garbled
      /\ caller'[c].step = "sent" /\ caller'[c].part = p /\ caller'[c].prompt = file.prompt[p]
      /\ caller[c].step = "idle"
  BY <1>1 DEF RunInv, Sound, CallersTyped, OnlyMoves, Ask, Free
<1>4. Complete(file, p, file.prompt[p])
  BY <1>2, <1>3 DEF RunInv, Sound, VersionsHold, Consistent, Complete
<1>5. Sound'
  BY <1>2, <1>3 DEF RunInv, Sound, CallersTyped, VersionsHold, Ingesting, OnlyMoves
<1>6. ASSUME Orderly PROVE Orderly'
  <2>1. Alone'
    BY <1>3, <1>6 DEF Orderly, Alone, Ingesting, OnlyMoves
  <2>2. FileSettled'
    BY <1>3, <1>4, <1>6 DEF Orderly, FileSettled, SentBy, OnlyMoves
  <2>3. ASSUME NEW d \in Callers, Ingesting(d)'
        PROVE  /\ caller'[d] = caller[d] /\ Settled(caller[d].copy)
               /\ \A e \in Callers : SentBy(e)' =>
                    Complete(caller[d].copy, caller'[e].part, caller'[e].prompt)
               /\ Extends(caller[d].copy, file)
    <3>1. d # c /\ caller'[d] = caller[d] /\ Ingesting(d)
      BY <1>3, <2>3 DEF Ingesting, OnlyMoves
    <3>2. Settled(caller[d].copy) /\ Extends(caller[d].copy, file)
      BY <1>3, <1>6, <3>1 DEF Orderly, CopiesSettled
    <3>3. Complete(caller[d].copy, p, file.prompt[p])
      BY <1>4, <3>2, CompleteStays
    <3> QED BY <1>3, <1>6, <3>1, <3>2, <3>3 DEF Orderly, CopiesSettled, SentBy, OnlyMoves
  <2>4. CopiesSettled'
    BY <1>3, <2>3 DEF CopiesSettled
  <2> QED BY <2>1, <2>2, <2>4 DEF Orderly
<1> QED BY <1>3, <1>5, <1>6 DEF RunInv

LEMMA LoadKeeps ==
  ASSUME RunInv, NEW c \in Callers, LoadRun(c)
  PROVE  RunInv'
<1> DEFINE p == caller[c].part
           sent == caller[c].prompt
<1>1. CASE AlreadyIngested(file, p)
  BY <1>1, FreedKeeps DEF LoadRun
<1>2. CASE ~AlreadyIngested(file, p)
  <2>1. PICK answer \in Responses :
          caller' = [caller EXCEPT ![c] =
            [step |-> "ingesting", copy |-> Ingested(file, p, answer, sent)]]
    BY <1>2 DEF LoadRun
  <2> DEFINE new == Ingested(file, p, answer, sent)
  <2> HIDE DEF new
  <2>2. /\ OnlyMoves(c) /\ file' = file /\ file # Garbled /\ SentBy(c)
        /\ caller'[c].step = "ingesting" /\ caller'[c].copy = new
    BY <2>1 DEF RunInv, Sound, CallersTyped, OnlyMoves, LoadRun, SentBy, new
  <2>3. p \in Parts \ file.done /\ Typed(file) /\ Consistent(file)
    BY <1>2, <2>2 DEF RunInv, Sound, CallersTyped, VersionsHold, SentBy, AlreadyIngested
  <2>4. Typed(new) /\ Consistent(new) /\ Extends(new, file)
    BY <2>3, IngestedHolds DEF new
  <2>5. Sound'
    BY <2>2, <2>4 DEF RunInv, Sound, CallersTyped, VersionsHold, Ingesting, OnlyMoves
  <2>6. ASSUME ~met' PROVE Orderly'
    <3>1. ~met /\ Orderly /\ \A d \in Callers \ {c} : ~Ingesting(d)
      BY <1>2, <2>6 DEF LoadRun, RunInv
    <3>2. \A d \in Callers : Ingesting(d)' => d = c
      BY <2>2, <3>1 DEF Ingesting, OnlyMoves
    <3>3. Alone'
      BY <3>2 DEF Alone
    <3>4. \A d \in Callers : SentBy(d)' => caller'[d] = caller[d] /\ SentBy(d)
      BY <2>2 DEF SentBy, OnlyMoves
    <3>5. FileSettled'
      BY <2>2, <3>1, <3>4 DEF Orderly, FileSettled
    <3>6. Settled(file) /\ Complete(file, p, sent)
      BY <2>2, <3>1 DEF Orderly, FileSettled
    <3>7. Settled(new)
      BY <2>3, <3>6, IngestedSettles DEF new
    <3>8. ASSUME NEW d \in Callers, SentBy(d)'
          PROVE  Complete(new, caller'[d].part, caller'[d].prompt)
      <4>1. Complete(file, caller'[d].part, caller'[d].prompt)
        BY <2>2, <3>1, <3>4, <3>8 DEF Orderly, FileSettled
      <4> QED BY <2>4, <4>1, CompleteStays
    <3>9. CopiesSettled'
      BY <2>2, <2>4, <3>2, <3>7, <3>8 DEF CopiesSettled
    <3> QED BY <3>3, <3>5, <3>9 DEF Orderly
  <2> QED BY <2>5, <2>6 DEF RunInv
<1> QED BY <1>1, <1>2

LEMMA OpenKeeps ==
  ASSUME RunInv, NEW c \in Callers, Open(c)
  PROVE  RunInv'
<1>1. /\ OnlyMoves(c) /\ file' = Garbled /\ met' = met /\ Ingesting(c)
      /\ caller'[c].step = "writing" /\ caller'[c].copy = caller[c].copy
  BY DEF RunInv, Sound, CallersTyped, OnlyMoves, Open, Ingesting
<1>2. \A d \in Callers : Ingesting(d)' => Ingesting(d) /\ caller'[d].copy = caller[d].copy
  BY <1>1 DEF Ingesting, OnlyMoves
<1>3. \A d \in Callers : SentBy(d)' => SentBy(d) /\ caller'[d] = caller[d]
  BY <1>1 DEF SentBy, OnlyMoves
<1>4. Sound'
  BY <1>1, <1>2, <1>3 DEF RunInv, Sound, CallersTyped, VersionsHold, SentBy, OnlyMoves
<1>5. Orderly => Orderly'
  BY <1>1, <1>2, <1>3 DEF Orderly, Alone, FileSettled, CopiesSettled
<1> QED BY <1>1, <1>4, <1>5 DEF RunInv

LEMMA FillKeeps ==
  ASSUME RunInv, NEW c \in Callers, Fill(c)
  PROVE  RunInv'
<1>1. /\ OnlyMoves(c) /\ met' = met /\ Ingesting(c) /\ caller'[c].step = "idle"
      /\ file' = caller[c].copy \/ file' = Garbled
  BY DEF RunInv, Sound, CallersTyped, OnlyMoves, Fill, Ingesting, Free
<1>2. \A d \in Callers : Ingesting(d)' => d # c /\ Ingesting(d) /\ caller'[d] = caller[d]
  BY <1>1 DEF Ingesting, OnlyMoves
<1>3. \A d \in Callers : SentBy(d)' => SentBy(d) /\ caller'[d] = caller[d]
  BY <1>1 DEF SentBy, OnlyMoves
<1>4. Sound'
  BY <1>1, <1>2, <1>3 DEF RunInv, Sound, CallersTyped, VersionsHold, SentBy, OnlyMoves
<1>5. ASSUME Orderly PROVE Orderly'
  <2>1. \A d \in Callers : ~Ingesting(d)'
    BY <1>1, <1>2, <1>5 DEF Orderly, Alone
  <2>2. FileSettled'
    BY <1>1, <1>3, <1>5 DEF Orderly, FileSettled, CopiesSettled
  <2> QED BY <2>1, <2>2 DEF Orderly, Alone, CopiesSettled
<1> QED BY <1>1, <1>4, <1>5 DEF RunInv

LEMMA RunInvKept == RunInv /\ [RunNext]_runVars => RunInv'
<1> SUFFICES ASSUME RunInv, [RunNext]_runVars PROVE RunInv'
  OBVIOUS
<1>1. CASE UNCHANGED runVars
  BY <1>1 DEF runVars, RunInv, Sound, CallersTyped, VersionsHold, Ingesting, Orderly, Alone,
     FileSettled, CopiesSettled, SentBy
<1>2. ASSUME NEW c \in Callers, Ask(c) \/ LoadRun(c) \/ Open(c) \/ Fill(c) \/ Quit(c)
      PROVE  RunInv'
  <2>1. CASE Quit(c)
    BY <2>1, FreedKeeps DEF Quit
  <2> QED BY <1>2, <2>1, AskKeeps, LoadKeeps, OpenKeeps, FillKeeps
<1> QED BY <1>1, <1>2 DEF RunNext

LEMMA RunInvHolds == RunSpec => []RunInv
<1> QED BY RunInvStarts, RunInvKept, PTL DEF RunSpec

(* What a participant will be sent is the output of those it reads that     *)
(* have answered, whichever requests overlap: cross_window.py, ingest.      *)
THEOREM PendingPromptsProved == RunSpec => []PendingPromptsHold
<1>1. RunInv => PendingPromptsHold
  BY DEF RunInv, Sound, VersionsHold, PendingPromptsHold
<1> QED BY <1>1, RunInvHolds, PTL

(* Until two ingests overlap, the prompt on record is the prompt that was   *)
(* sent, and it was complete: cross_window.py, next_call and ingest.        *)
THEOREM RecordedAsSentProved == RunSpec => []RecordedAsSentUnraced
<1>1. RunInv => RecordedAsSentUnraced
  BY DEF RunInv, Orderly, FileSettled, RecordedAsSentUnraced
<1> QED BY <1>1, RunInvHolds, PTL

-----------------------------------------------------------------------------
Jobs ==
  {NoJob} \union [step : {"binding"}, exp : Exps, copy : Plans]
          \union [step : {"loaded", "written", "refused"}, exp : Exps, cell : Cells, copy : Plans]

ExpTypes ==
  /\ doc \in [Exps -> Plans \union {Absent, Torn}]
  /\ job \in [Threads -> Jobs]
  /\ counter \in Nat
  /\ \A t \in Threads, e \in Exps : OnExp(t, e) => doc[e] # Absent

(* Each call of the run has a world of its own, which holds its response    *)
(* once if the run calls it done and nothing if not.                        *)
OwnWorlds(run) ==
  \A c, d \in Cells : run.calls[c] = run.calls[d] /\ run.calls[c] # Absent => c = d

Agrees(run, e) ==
  \A c \in Cells : run.calls[c] # Absent =>
    /\ run.calls[c] \in DOMAIN worlds
    /\ worlds[run.calls[c]] = [owner |-> e, got |-> IF c \in run.done THEN <<<<e, c>>>> ELSE <<>>]

(* The run that agrees with the window in the middle of a request: what the *)
(* request will save.                                                       *)
Reached(j) == IF j.step = "written" THEN MarkedDone(j.copy, j.cell) ELSE j.copy

(* The request that is on an experiment, if any, knows its file.            *)
UpToDate(j, e) ==
  /\ OwnWorlds(j.copy) /\ Agrees(Reached(j), e)
  /\ j.step = "binding" => doc[e] = Planned /\ j.copy.done = {}
  /\ j.step # "binding" => doc[e] = j.copy /\ Pending(j.copy, j.cell)

InStepOn(e) ==
  /\ doc[e] # Torn
  /\ \A t, u \in Threads : OnExp(t, e) /\ OnExp(u, e) => t = u
  /\ Written(e) => /\ OwnWorlds(doc[e])
                   /\ (\A t \in Threads : ~OnExp(t, e)) => Agrees(doc[e], e)
  /\ \A t \in Threads : OnExp(t, e) => UpToDate(job[t], e)

ExpInv == ExpTypes /\ (orderly => \A e \in Exps \ stale : InStepOn(e))

-----------------------------------------------------------------------------
LEMMA PlannedType == Planned \in Plans /\ OwnWorlds(Planned) /\ \A e : Agrees(Planned, e)
BY DEF Planned, Plans, OwnWorlds, Agrees

LEMMA JobShape ==
  ASSUME ExpTypes, NEW t \in Threads
  PROVE  /\ job[t] = NoJob \/ (job[t].exp \in Exps /\ job[t].copy \in Plans /\ job[t] # NoJob)
         /\ job[t].step = "idle" => job[t] = NoJob
         /\ job[t].step = "binding" =>
              job[t] \in [step : {"binding"}, exp : Exps, copy : Plans]
         /\ job[t].step \in {"loaded", "written", "refused"} =>
              job[t] \in [step : {"loaded", "written", "refused"}, exp : Exps, cell : Cells, copy : Plans]
         /\ job[t] # NoJob => job[t].step \in {"binding", "loaded", "written", "refused"}
<1>1. job[t] \in Jobs
  BY DEF ExpTypes
<1> QED BY <1>1 DEF Jobs, NoJob

(* The worlds of an experiment stay as they are when the steps of others    *)
(* touch only worlds of their own.                                          *)
KeepsWorldsOf(e) ==
  \A n \in DOMAIN worlds : worlds[n].owner = e => n \in DOMAIN worlds' /\ worlds'[n] = worlds[n]

(* A step of the request of thread t, on experiment f, keeps the invariant  *)
(* when it leaves f's file and request right and the worlds of others alone.*)
LEMMA RequestStep ==
  ASSUME ExpInv, NEW t \in Threads, NEW f \in Exps, NEW j \in Jobs, NEW v \in Plans \union {Torn},
         job' = [job EXCEPT ![t] = j], doc' = [doc EXCEPT ![f] = v],
         j = NoJob \/ j.exp = f, job[t] = NoJob \/ job[t].exp = f,
         counter' \in Nat, stale' = stale, orderly' => orderly,
         orderly' => \A e \in Exps \ (stale \union {f}) : KeepsWorldsOf(e),
         orderly' /\ f \notin stale => v # Torn /\ OwnWorlds(v) /\ \A u \in Threads \ {t} : ~OnExp(u, f),
         orderly' /\ f \notin stale /\ j = NoJob => Agrees(v, f)',
         orderly' /\ f \notin stale /\ j # NoJob => OwnWorlds(j.copy) /\ Agrees(Reached(j), f)',
         orderly' /\ f \notin stale /\ j # NoJob /\ j.step = "binding" => v = Planned /\ j.copy.done = {},
         orderly' /\ f \notin stale /\ j # NoJob /\ j.step # "binding" => v = j.copy /\ Pending(j.copy, j.cell)
  PROVE  ExpInv'
<1>0. ExpTypes /\ v # Absent
  BY AbsentAssumption DEF ExpInv
<1>1. /\ job' \in [Threads -> Jobs] /\ job'[t] = j /\ \A u \in Threads \ {t} : job'[u] = job[u]
      /\ doc' \in [Exps -> Plans \union {Absent, Torn}] /\ doc'[f] = v
      /\ \A e \in Exps \ {f} : doc'[e] = doc[e]
  BY <1>0 DEF ExpTypes
<1>2. ExpTypes'
  <2>1. ASSUME NEW u \in Threads, NEW e \in Exps, job'[u] # NoJob, job'[u].exp = e
        PROVE  doc'[e] # Absent
    <3>1. CASE e = f
      BY <1>0, <1>1, <3>1
    <3>2. CASE e # f
      BY <1>0, <1>1, <2>1, <3>2 DEF ExpTypes, OnExp
    <3> QED BY <3>1, <3>2
  <2> QED BY <1>1, <2>1 DEF ExpTypes, OnExp
<1>3. ASSUME orderly', NEW e \in Exps \ stale, e # f PROVE InStepOn(e)'
  <2>1. InStepOn(e) /\ doc'[e] = doc[e] /\ KeepsWorldsOf(e)
    BY <1>1, <1>3 DEF ExpInv
  <2>2. \A u \in Threads : OnExp(u, e)' => OnExp(u, e) /\ u # t
    BY <1>1, <1>3 DEF OnExp
  <2>3. \A u \in Threads : OnExp(u, e) => OnExp(u, e)' /\ job'[u] = job[u]
    BY <1>1, <1>3 DEF OnExp
  <2>4. ASSUME NEW u \in Threads, OnExp(u, e)' PROVE UpToDate(job[u], e)'
    <3>1. job'[u] = job[u] /\ UpToDate(job[u], e)
      BY <2>1, <2>2, <2>3, <2>4 DEF InStepOn
    <3>2. Agrees(Reached(job[u]), e)
      BY <3>1 DEF UpToDate
    <3> DEFINE run == Reached(job[u])
    <3>3. run = Reached(job'[u])
      BY <3>1
    <3> HIDE DEF run
    <3>4. \A c \in Cells : run.calls[c] # Absent =>
            /\ run.calls[c] \in DOMAIN worlds'
            /\ worlds'[run.calls[c]] = [owner |-> e, got |-> IF c \in run.done THEN <<<<e, c>>>> ELSE <<>>]
      <4>1. Agrees(run, e)
        BY <3>2 DEF run
      <4> QED BY <2>1, <4>1 DEF Agrees, KeepsWorldsOf
    <3>5. Agrees(Reached(job[u]), e)'
      BY <3>3, <3>4 DEF Agrees
    <3> QED BY <2>1, <3>1, <3>5 DEF UpToDate
  <2>5. ASSUME Written(e)'
        PROVE  OwnWorlds(doc[e])' /\ ((\A u \in Threads : ~OnExp(u, e)') => Agrees(doc[e], e)')
    <3>1. Written(e) /\ OwnWorlds(doc[e])
      BY <2>1, <2>5 DEF Written, InStepOn
    <3>2. OwnWorlds(doc[e])'
      BY <2>1, <3>1 DEF OwnWorlds
    <3>3. ASSUME \A u \in Threads : ~OnExp(u, e)' PROVE Agrees(doc[e], e)'
      <4>1. Agrees(doc[e], e)
        BY <2>1, <2>3, <3>1, <3>3 DEF InStepOn
      <4> QED BY <2>1, <4>1 DEF Agrees, KeepsWorldsOf
    <3> QED BY <3>2, <3>3
  <2> QED BY <2>1, <2>2, <2>4, <2>5 DEF InStepOn
<1>4. ASSUME orderly', f \notin stale PROVE InStepOn(f)'
  <2>1. \A u \in Threads : OnExp(u, f)' => u = t /\ j # NoJob
    BY <1>1, <1>4 DEF OnExp
  <2>2. ASSUME NEW u \in Threads, OnExp(u, f)' PROVE UpToDate(job[u], f)'
    <3>1. j # NoJob /\ job'[u] = j
      BY <1>1, <2>1, <2>2
    <3> QED BY <1>1, <1>4, <3>1 DEF UpToDate
  <2>3. OwnWorlds(doc[f])'
    BY <1>1, <1>4 DEF OwnWorlds
  <2>4. ASSUME \A u \in Threads : ~OnExp(u, f)' PROVE Agrees(doc[f], f)'
    <3>1. j = NoJob
      BY <1>1, <2>4 DEF OnExp
    <3> QED BY <1>1, <1>4, <3>1 DEF Agrees
  <2> QED BY <1>1, <1>4, <2>1, <2>2, <2>3, <2>4 DEF InStepOn
<1> QED BY <1>2, <1>3, <1>4 DEF ExpInv

(* A request that is on f is the only one, and f's file and worlds are as   *)
(* it takes them to be.                                                     *)
LEMMA RequestKnows ==
  ASSUME ExpInv, orderly, NEW t \in Threads, NEW f \in Exps \ stale, OnExp(t, f)
  PROVE  /\ \A u \in Threads \ {t} : ~OnExp(u, f)
         /\ doc[f] # Torn /\ (Written(f) => OwnWorlds(doc[f]))
         /\ UpToDate(job[t], f)
BY DEF ExpInv, InStepOn

LEMMA SameDoc ==
  ASSUME ExpTypes, NEW f \in Exps, UNCHANGED doc
  PROVE  doc' = [doc EXCEPT ![f] = doc[f]]
BY DEF ExpTypes

LEMMA CreateKeeps ==
  ASSUME ExpInv, NEW t \in Threads, NEW e \in Exps, Create(t, e)
  PROVE  ExpInv'
<1> DEFINE j == [step |-> "binding", exp |-> e, copy |-> Planned]
<1>1. /\ job[t] = NoJob /\ doc[e] = Absent
      /\ doc' = [doc EXCEPT ![e] = Planned] /\ job' = [job EXCEPT ![t] = j]
      /\ UNCHANGED <<worlds, counter, resets, stale, orderly>>
  BY DEF Create
<1>2. Planned \in Plans /\ OwnWorlds(Planned) /\ Planned.done = {}
  BY PlannedType DEF Planned
<1>3. j \in Jobs /\ j # NoJob /\ j.exp = e /\ j.copy = Planned /\ j.step = "binding" /\ Reached(j) = Planned
  BY <1>2 DEF Jobs, NoJob, Reached
<1> HIDE DEF j
<1>4. \A u \in Threads : ~OnExp(u, e)
  BY <1>1 DEF ExpInv, ExpTypes
<1>5. Agrees(Reached(j), e)'
  BY <1>3 DEF Agrees, Planned
<1>6. /\ counter' \in Nat /\ stale' = stale /\ (orderly' => orderly)
      /\ \A x \in Exps : KeepsWorldsOf(x)
  BY <1>1 DEF ExpInv, ExpTypes, KeepsWorldsOf
<1> QED BY <1>1, <1>2, <1>3, <1>4, <1>5, <1>6, AbsentAssumption, RequestStep

LEMMA LoadCopyKeeps ==
  ASSUME ExpInv, NEW t \in Threads, NEW e \in Exps, NEW c \in Cells, LoadCopy(t, e, c)
  PROVE  ExpInv'
<1>0. ExpTypes
  BY DEF ExpInv
<1>1. /\ job[t] = NoJob /\ Written(e) /\ Pending(doc[e], c)
      /\ job' = [job EXCEPT ![t] = [step |-> "loaded", exp |-> e, cell |-> c, copy |-> doc[e]]]
      /\ orderly' = (orderly /\ \A d \in Threads : ~OnExp(d, e))
      /\ UNCHANGED <<doc, worlds, counter, resets, stale>>
  BY DEF LoadCopy
<1>2. PICK v \in Plans : v = doc[e]
  BY <1>0, <1>1 DEF ExpTypes, Written
<1>3. PICK j \in Jobs : j = [step |-> "loaded", exp |-> e, cell |-> c, copy |-> v]
  BY DEF Jobs
<1>a. j # NoJob /\ j.exp = e /\ j.copy = v /\ j.step = "loaded" /\ j.cell = c /\ Reached(j) = v
  BY <1>3 DEF NoJob, Reached
<1>b. job' = [job EXCEPT ![t] = j]
  BY <1>1, <1>2, <1>3
<1>4. ASSUME orderly', e \notin stale
      PROVE  /\ v # Torn /\ OwnWorlds(v) /\ Agrees(Reached(j), e)'
             /\ \A u \in Threads \ {t} : ~OnExp(u, e)
  <2>1. orderly /\ \A d \in Threads : ~OnExp(d, e)
    BY <1>1, <1>4
  <2>2. doc[e] # Torn /\ OwnWorlds(doc[e]) /\ Agrees(doc[e], e)
    BY <1>1, <1>4, <2>1 DEF ExpInv, InStepOn
  <2>3. Agrees(Reached(j), e)'
    BY <1>1, <1>2, <1>a, <2>2 DEF Agrees
  <2> QED BY <1>2, <2>1, <2>2, <2>3
<1>5. doc' = [doc EXCEPT ![e] = v]
  BY <1>0, <1>1, <1>2, SameDoc
<1>6. /\ counter' \in Nat /\ stale' = stale /\ (orderly' => orderly)
      /\ \A x \in Exps : KeepsWorldsOf(x)
  BY <1>0, <1>1 DEF ExpTypes, KeepsWorldsOf
<1>7. Pending(v, c)
  BY <1>1, <1>2
<1>8. \A x \in Exps \ (stale \union {e}) : KeepsWorldsOf(x)
  BY <1>6
<1>9. orderly' /\ e \notin stale =>
        /\ v # Torn /\ OwnWorlds(v) /\ \A u \in Threads \ {t} : ~OnExp(u, e)
        /\ OwnWorlds(j.copy) /\ Agrees(Reached(j), e)'
  BY <1>4, <1>a
<1>10. j.step # "binding" /\ Pending(j.copy, j.cell) /\ v = j.copy
  BY <1>7, <1>a
<1>11. job[t] = NoJob /\ j # NoJob /\ j.exp = e
  BY <1>1, <1>a
<1> QED BY ONLY ExpInv, <1>b, <1>5, <1>6, <1>8, <1>9, <1>10, <1>11, RequestStep

LEMMA SaveCallsKeeps ==
  ASSUME ExpInv, NEW t \in Threads, SaveCalls(t)
  PROVE  ExpInv'
<1>0. ExpTypes
  BY DEF ExpInv
<1>1. /\ job[t].step = "binding" /\ job' = [job EXCEPT ![t] = NoJob]
      /\ doc' = [doc EXCEPT ![job[t].exp] = job[t].copy]
      /\ UNCHANGED <<worlds, counter, resets, stale, orderly>>
  BY DEF SaveCalls, Finish
<1>2. PICK f \in Exps, v \in Plans : f = job[t].exp /\ v = job[t].copy /\ OnExp(t, f) /\ NoJob \in Jobs
  BY <1>0, <1>1, JobShape DEF Jobs, OnExp, NoJob
<1>3. ASSUME orderly, f \notin stale
      PROVE  /\ v # Torn /\ OwnWorlds(v) /\ Agrees(v, f)'
             /\ \A u \in Threads \ {t} : ~OnExp(u, f)
  <2>1. UpToDate(job[t], f) /\ \A u \in Threads \ {t} : ~OnExp(u, f)
    BY <1>2, <1>3, RequestKnows
  <2>2. Agrees(v, f)
    BY <1>1, <1>2, <2>1 DEF UpToDate, Reached
  <2>3. Agrees(v, f)'
    BY <1>1, <2>2 DEF Agrees
  <2> QED BY <1>2, <2>1, <2>3, AbsentAssumption DEF UpToDate
<1>6. /\ counter' \in Nat /\ stale' = stale /\ (orderly' => orderly)
      /\ \A x \in Exps : KeepsWorldsOf(x)
  BY <1>0, <1>1 DEF ExpTypes, KeepsWorldsOf
<1> QED BY <1>1, <1>2, <1>3, <1>6, RequestStep

LEMMA BindWorldKeeps ==
  ASSUME ExpInv, NEW t \in Threads, BindWorld(t)
  PROVE  ExpInv'
<1>0. ExpTypes
  BY DEF ExpInv
<1>1. PICK i \in Unbound(t) :
        IF WorldName(Conditions[i]) \in DOMAIN worlds
        THEN Finish(t) /\ UNCHANGED <<worlds, counter>>
        ELSE /\ worlds' = [n \in DOMAIN worlds \union {WorldName(Conditions[i])} |->
                           IF n = WorldName(Conditions[i]) THEN [owner |-> job[t].exp, got |-> <<>>]
                           ELSE worlds[n]]
             /\ counter' = IF Conditions[i] \in Flat THEN counter ELSE counter + 1
             /\ job' = [job EXCEPT ![t].copy.calls[Conditions[i]] = WorldName(Conditions[i])]
  BY DEF BindWorld
<1>2. job[t].step = "binding" /\ UNCHANGED <<doc, resets, stale, orderly>>
  BY DEF BindWorld
<1>3. PICK c \in Cells : c = Conditions[i]
  BY ConditionsAssumption DEF Unbound
<1>4. PICK name \in WorldNames : name = WorldName(c)
  <2>1. counter + 1 \in Nat \ {0}
    BY <1>0 DEF ExpTypes
  <2>2. <<"F", c>> \in {"F"} \X Cells /\ <<"L", counter + 1>> \in {"L"} \X (Nat \ {0})
    BY <2>1
  <2> QED BY <2>2 DEF WorldName, WorldNames
<1>5. PICK f \in Exps, v \in Plans :
        /\ f = job[t].exp /\ v = job[t].copy /\ OnExp(t, f)
        /\ job[t] = [step |-> "binding", exp |-> f, copy |-> v]
  <2>1. job[t] \in [step : {"binding"}, exp : Exps, copy : Plans] /\ job[t] # NoJob
    BY <1>0, <1>2, JobShape DEF NoJob
  <2>2. job[t] = [step |-> "binding", exp |-> job[t].exp, copy |-> job[t].copy]
        /\ job[t].exp \in Exps /\ job[t].copy \in Plans
    BY <2>1
  <2> QED BY <2>1, <2>2 DEF OnExp
<1>6. v.calls \in [Cells -> WorldNames \union {Absent}] /\ v.calls[c] = Absent /\ v.done \in SUBSET Cells
  BY <1>3, <1>5 DEF Unbound, Plans
<1>7. PICK d \in Plans \union {Torn} : d = doc[f]
  BY <1>0, <1>5 DEF ExpTypes
<1>8. doc' = [doc EXCEPT ![f] = d]
  BY <1>0, <1>2, <1>7, SameDoc
<1>9. ASSUME orderly, f \notin stale
      PROVE  /\ d = Planned /\ d # Torn /\ OwnWorlds(d)
             /\ OwnWorlds(v) /\ Agrees(v, f) /\ v.done = {}
             /\ \A u \in Threads \ {t} : ~OnExp(u, f)
  BY <1>2, <1>5, <1>7, <1>9, RequestKnows, PlannedType DEF UpToDate, Reached
<1>10. CASE name \in DOMAIN worlds
  <2>1. job' = [job EXCEPT ![t] = NoJob] /\ UNCHANGED <<worlds, counter>>
    BY <1>1, <1>3, <1>4, <1>10 DEF Finish
  <2>2. orderly /\ f \notin stale => Agrees(d, f)'
    BY <1>9, PlannedType DEF Agrees, Planned
  <2>3. /\ counter' \in Nat /\ stale' = stale /\ (orderly' => orderly) /\ NoJob \in Jobs
        /\ \A x \in Exps : KeepsWorldsOf(x)
    BY <1>0, <1>2, <2>1 DEF ExpTypes, KeepsWorldsOf, Jobs
  <2>4. orderly' /\ f \notin stale =>
          d # Torn /\ OwnWorlds(d) /\ (\A u \in Threads \ {t} : ~OnExp(u, f)) /\ Agrees(d, f)'
    BY <1>9, <2>2, <2>3, AbsentAssumption
  <2>5. d \in Plans \union {Torn} /\ job[t].exp = f /\ NoJob \in Jobs
    BY <1>5, <1>7, <2>3
  <2> QED BY ONLY ExpInv, <1>8, <2>1, <2>3, <2>4, <2>5, RequestStep
<1>11. CASE name \notin DOMAIN worlds
  <2>1. /\ worlds' = [n \in DOMAIN worlds \union {name} |->
                        IF n = name THEN [owner |-> f, got |-> <<>>] ELSE worlds[n]]
        /\ counter' \in Nat
        /\ job' = [job EXCEPT ![t].copy.calls[c] = name]
    BY <1>0, <1>1, <1>3, <1>4, <1>5, <1>11 DEF ExpTypes
  <2>2. PICK w \in Plans : w = [v EXCEPT !.calls[c] = name]
    BY <1>6 DEF Plans
  <2>3. PICK j \in Jobs : j = [step |-> "binding", exp |-> f, copy |-> w]
    BY DEF Jobs
  <2>4. job' = [job EXCEPT ![t] = j]
    <3>1. job' = [job EXCEPT ![t] = [job[t] EXCEPT !.copy = [job[t].copy EXCEPT !.calls[c] = name]]]
      BY <2>1
    <3>2. [job[t] EXCEPT !.copy = w] = j
      BY <1>5, <2>3
    <3> QED BY <1>5, <2>2, <3>1, <3>2
  <2>5. j # NoJob /\ j.exp = f /\ j.copy = w /\ j.step = "binding" /\ Reached(j) = w
    BY <2>3 DEF NoJob, Reached
  <2>6. /\ w.calls[c] = name /\ w.done = v.done
        /\ \A x \in Cells \ {c} : w.calls[x] = v.calls[x]
    BY <1>6, <2>2
  <2>7. /\ DOMAIN worlds' = DOMAIN worlds \union {name}
        /\ worlds'[name] = [owner |-> f, got |-> <<>>]
        /\ \A n \in DOMAIN worlds : worlds'[n] = worlds[n]
    BY <1>11, <2>1
  <2>8. \A x \in Exps : KeepsWorldsOf(x)
    BY <2>7 DEF KeepsWorldsOf
  <2>9. name # Absent
    BY AbsentAssumption
  <2>10. ASSUME orderly, f \notin stale PROVE OwnWorlds(w) /\ Agrees(w, f)'
    <3>1. OwnWorlds(w)
      <4>1. \A x \in Cells \ {c} : v.calls[x] # Absent => v.calls[x] # name
        BY <1>9, <1>11, <2>10 DEF Agrees
      <4>2. \A x, y \in Cells \ {c} : v.calls[x] = v.calls[y] /\ v.calls[x] # Absent => x = y
        BY <1>9, <2>10 DEF OwnWorlds
      <4> QED BY <2>6, <2>9, <4>1, <4>2 DEF OwnWorlds
    <3>2. Agrees(w, f)'
      BY <1>9, <1>11, <2>6, <2>7, <2>10 DEF Agrees
    <3> QED BY <3>1, <3>2
  <2>11. orderly' /\ f \notin stale =>
           /\ d # Torn /\ OwnWorlds(d) /\ \A u \in Threads \ {t} : ~OnExp(u, f)
           /\ OwnWorlds(j.copy) /\ Agrees(Reached(j), f)'
           /\ d = Planned /\ j.copy.done = {}
    BY <1>2, <1>9, <2>5, <2>6, <2>10
  <2>12. job[t].exp = f /\ counter' \in Nat /\ stale' = stale /\ (orderly' => orderly)
    BY <1>2, <1>5, <2>1
  <2> QED BY ONLY ExpInv, <1>8, <2>4, <2>5, <2>8, <2>11, <2>12, RequestStep
<1> QED BY <1>10, <1>11

(* The response in the world makes the window agree with the run that is    *)
(* about to be saved.                                                       *)
LEMMA WriteAnswerKeeps ==
  ASSUME ExpInv, NEW t \in Threads, WriteAnswer(t)
  PROVE  ExpInv'
<1>0. ExpTypes
  BY DEF ExpInv
<1>1. job[t].step = "loaded" /\ UNCHANGED <<doc, counter, resets, stale>>
  BY DEF WriteAnswer
<1>2. PICK f \in Exps, c \in Cells, v \in Plans :
        /\ f = job[t].exp /\ c = job[t].cell /\ v = job[t].copy /\ OnExp(t, f)
        /\ job[t] = [step |-> "loaded", exp |-> f, cell |-> c, copy |-> v]
  <2>1. job[t] \in [step : {"loaded", "written", "refused"}, exp : Exps, cell : Cells, copy : Plans]
        /\ job[t] # NoJob
    BY <1>0, <1>1, JobShape DEF NoJob
  <2>2. job[t] = [step |-> "loaded", exp |-> job[t].exp, cell |-> job[t].cell, copy |-> job[t].copy]
        /\ job[t].exp \in Exps /\ job[t].cell \in Cells /\ job[t].copy \in Plans
    BY <1>1, <2>1
  <2> QED BY <2>1, <2>2 DEF OnExp
<1>3. PICK w : w = v.calls[c] /\ w \in DOMAIN worlds /\ RoleWorld(t) = w
  BY <1>2 DEF WriteAnswer, RoleWorld
<1>4. PICK d \in Plans \union {Torn} : d = doc[f]
  BY <1>0, <1>1, <1>2, JobShape DEF ExpTypes
<1>5. doc' = [doc EXCEPT ![f] = d]
  BY <1>0, <1>1, <1>4, SameDoc
<1>6. ASSUME orderly, f \notin stale
      PROVE  /\ d # Torn /\ OwnWorlds(v) /\ Agrees(v, f) /\ d = v /\ Pending(v, c)
             /\ \A u \in Threads \ {t} : ~OnExp(u, f)
  <2>1. UpToDate(job[t], f) /\ doc[f] # Torn /\ \A u \in Threads \ {t} : ~OnExp(u, f)
    BY <1>2, <1>6, RequestKnows
  <2>2. Reached(job[t]) = v
    BY <1>1, <1>2 DEF Reached
  <2> QED BY <1>1, <1>2, <1>4, <2>1, <2>2 DEF UpToDate
<1>7. CASE Len(worlds[w].got) < MaxIterations
  <2>1. /\ worlds' = [worlds EXCEPT ![w].got = Append(@, <<f, c>>)]
        /\ job' = [job EXCEPT ![t].step = "written"]
        /\ orderly' = (orderly /\ f \notin stale)
    BY <1>2, <1>3, <1>7 DEF WriteAnswer
  <2>2. PICK j \in Jobs : j = [step |-> "written", exp |-> f, cell |-> c, copy |-> v]
    BY DEF Jobs
  <2>3. job' = [job EXCEPT ![t] = j]
    <3>1. [job[t] EXCEPT !.step = "written"] = j
      BY <1>2, <2>2
    <3> QED BY <2>1, <3>1
  <2>4. /\ j # NoJob /\ j.exp = f /\ j.copy = v /\ j.step = "written" /\ j.cell = c
        /\ Reached(j) = MarkedDone(v, c)
    BY <2>2 DEF NoJob, Reached
  <2>5. /\ DOMAIN worlds' = DOMAIN worlds
        /\ \A n \in DOMAIN worlds \ {w} : worlds'[n] = worlds[n]
        /\ worlds'[w] = [worlds[w] EXCEPT !.got = Append(worlds[w].got, <<f, c>>)]
    BY <1>3, <2>1
  <2>6. ASSUME orderly'
        PROVE  /\ worlds[w] = [owner |-> f, got |-> <<>>]
               /\ orderly /\ f \notin stale
               /\ worlds'[w] = [owner |-> f, got |-> <<<<f, c>>>>]
    <3>1. orderly /\ f \notin stale
      BY <2>1, <2>6
    <3>2. worlds[w] = [owner |-> f, got |-> <<>>]
      BY <1>3, <1>6, <3>1 DEF Agrees, Pending
    <3>3. [worlds[w] EXCEPT !.got = Append(worlds[w].got, <<f, c>>)] = [owner |-> f, got |-> <<<<f, c>>>>]
      <4>1. worlds[w].got = <<>> /\ Append(<<>>, <<f, c>>) = <<<<f, c>>>>
        BY <3>2
      <4> QED BY <3>2, <4>1
    <3> QED BY <2>5, <3>1, <3>2, <3>3
  <2>7. ASSUME orderly', NEW x \in Exps \ {f} PROVE KeepsWorldsOf(x)
    <3>1. worlds[w].owner = f
      BY <2>6, <2>7
    <3> QED BY <2>5, <2>7, <3>1 DEF KeepsWorldsOf
  <2>8. ASSUME orderly' PROVE Agrees(Reached(j), f)'
    <3> DEFINE run == MarkedDone(v, c)
    <3>1. run.calls = v.calls /\ run.done = v.done \union {c}
      BY <1>2 DEF MarkedDone, Plans
    <3> HIDE DEF run
    <3>2. ASSUME NEW x \in Cells, run.calls[x] # Absent
          PROVE  /\ run.calls[x] \in DOMAIN worlds'
                 /\ worlds'[run.calls[x]] = [owner |-> f, got |-> IF x \in run.done THEN <<<<f, x>>>> ELSE <<>>]
      <4>1. CASE x = c
        BY <1>3, <2>5, <2>6, <2>8, <3>1, <4>1
      <4>2. CASE x # c
        <5>1. OwnWorlds(v) /\ Agrees(v, f) /\ v.calls[c] # Absent
          BY <1>6, <2>6, <2>8 DEF Pending
        <5>2. v.calls[x] # w
          BY <1>3, <3>1, <3>2, <4>2, <5>1 DEF OwnWorlds
        <5>3. v.calls[x] \in DOMAIN worlds
              /\ worlds[v.calls[x]] = [owner |-> f, got |-> IF x \in v.done THEN <<<<f, x>>>> ELSE <<>>]
          BY <3>1, <3>2, <5>1 DEF Agrees
        <5> QED BY <2>5, <3>1, <4>2, <5>2, <5>3
      <4> QED BY <4>1, <4>2
    <3> QED BY <2>4, <3>2 DEF Agrees, run
  <2>9. orderly' /\ f \notin stale =>
          /\ d # Torn /\ OwnWorlds(d) /\ \A u \in Threads \ {t} : ~OnExp(u, f)
          /\ OwnWorlds(j.copy) /\ Agrees(Reached(j), f)' /\ d = j.copy /\ Pending(j.copy, j.cell)
    BY <1>6, <2>4, <2>6, <2>8
  <2>10. job[t].exp = f /\ counter' \in Nat /\ stale' = stale /\ (orderly' => orderly) /\ j.step # "binding"
    BY <1>0, <1>1, <1>2, <2>1, <2>4 DEF ExpTypes
  <2> QED BY ONLY ExpInv, <1>5, <2>3, <2>4, <2>7, <2>9, <2>10, RequestStep
<1>8. CASE ~(Len(worlds[w].got) < MaxIterations)
  <2>1. job' = [job EXCEPT ![t].step = "refused"] /\ UNCHANGED <<worlds, orderly>>
    BY <1>2, <1>3, <1>8 DEF WriteAnswer
  <2>2. PICK j \in Jobs : j = [step |-> "refused", exp |-> f, cell |-> c, copy |-> v]
    BY DEF Jobs
  <2>3. job' = [job EXCEPT ![t] = j]
    <3>1. [job[t] EXCEPT !.step = "refused"] = j
      BY <1>2, <2>2
    <3> QED BY <2>1, <3>1
  <2>4. /\ j # NoJob /\ j.exp = f /\ j.copy = v /\ j.step = "refused" /\ j.cell = c /\ Reached(j) = v
    BY <2>2 DEF NoJob, Reached
  <2>5. ASSUME orderly, f \notin stale PROVE Agrees(Reached(j), f)'
    BY <1>6, <2>1, <2>4, <2>5 DEF Agrees
  <2>6. orderly' /\ f \notin stale =>
          /\ d # Torn /\ OwnWorlds(d) /\ \A u \in Threads \ {t} : ~OnExp(u, f)
          /\ OwnWorlds(j.copy) /\ Agrees(Reached(j), f)' /\ d = j.copy /\ Pending(j.copy, j.cell)
    BY <1>6, <2>1, <2>4, <2>5
  <2>7. /\ job[t].exp = f /\ counter' \in Nat /\ stale' = stale /\ (orderly' => orderly) /\ j.step # "binding"
        /\ \A x \in Exps : KeepsWorldsOf(x)
    BY <1>0, <1>1, <1>2, <2>1, <2>4 DEF ExpTypes, KeepsWorldsOf
  <2> QED BY ONLY ExpInv, <1>5, <2>3, <2>4, <2>6, <2>7, RequestStep
<1> QED BY <1>7, <1>8

(* A request on an experiment nobody answers for any more.                  *)
LEMMA GivenUp ==
  ASSUME ExpInv, NEW t \in Threads, NEW f \in Exps, OnExp(t, f), ~(orderly /\ f \notin stale),
         NEW j \in Jobs, j = NoJob \/ j.exp = f, job' = [job EXCEPT ![t] = j],
         UNCHANGED <<doc, worlds, counter, stale, orderly>>
  PROVE  ExpInv'
<1>0. ExpTypes
  BY DEF ExpInv
<1>1. PICK d \in Plans \union {Torn} : d = doc[f]
  BY <1>0 DEF ExpTypes
<1>2. doc' = [doc EXCEPT ![f] = d]
  BY <1>0, <1>1, SameDoc
<1>3. /\ counter' \in Nat /\ stale' = stale /\ orderly' = orderly
      /\ \A x \in Exps : KeepsWorldsOf(x)
  BY <1>0 DEF ExpTypes, KeepsWorldsOf
<1>4. job[t].exp = f
  BY DEF OnExp
<1>5. orderly' /\ f \notin stale => FALSE
  BY <1>3
<1>6. d \in Plans \union {Torn} /\ (orderly' => orderly)
      /\ \A x \in Exps \ (stale \union {f}) : KeepsWorldsOf(x)
  BY <1>3
<1>7. job[t] = NoJob \/ job[t].exp = f
  BY <1>4
<1> QED BY ONLY ExpInv, j \in Jobs, j = NoJob \/ j.exp = f, job' = [job EXCEPT ![t] = j],
           <1>2, <1>3, <1>5, <1>6, <1>7, RequestStep

LEMMA NoSuchRoleKeeps ==
  ASSUME ExpInv, NEW t \in Threads, NoSuchRole(t)
  PROVE  ExpInv'
<1>0. ExpTypes
  BY DEF ExpInv
<1>1. job[t].step \in {"binding", "loaded"} /\ UNCHANGED <<doc, worlds, counter, stale, orderly>>
  BY DEF NoSuchRole
<1>2. PICK f \in Exps : f = job[t].exp /\ OnExp(t, f)
  BY <1>0, <1>1, JobShape DEF OnExp, NoJob
<1>3. ~(orderly /\ f \notin stale)
  <2> SUFFICES ASSUME orderly, f \notin stale PROVE FALSE
    OBVIOUS
  <2>1. job[t].step = "loaded" /\ RoleWorld(t) \notin DOMAIN worlds
    BY <1>2 DEF NoSuchRole
  <2>2. UpToDate(job[t], f)
    BY <1>2, RequestKnows
  <2>3. Agrees(job[t].copy, f) /\ Pending(job[t].copy, job[t].cell)
    BY <2>1, <2>2 DEF UpToDate, Reached
  <2>4. job[t].cell \in Cells
    BY <1>0, <2>1, JobShape
  <2> QED BY <2>1, <2>3, <2>4 DEF Agrees, Pending, RoleWorld
<1>4. PICK j \in Jobs : (j = NoJob \/ j.exp = f) /\ job' = [job EXCEPT ![t] = j]
  <2>1. CASE Finish(t)
    BY <2>1 DEF Finish, Jobs
  <2>2. CASE ~Finish(t)
    <3>1. job[t].step = "loaded" /\ job' = [job EXCEPT ![t].step = "refused"]
      BY <2>2 DEF NoSuchRole
    <3>2. job[t] \in [step : {"loaded", "written", "refused"}, exp : Exps, cell : Cells, copy : Plans]
      BY <1>0, <3>1, JobShape
    <3> DEFINE j == [job[t] EXCEPT !.step = "refused"]
    <3>3. j \in [step : {"loaded", "written", "refused"}, exp : Exps, cell : Cells, copy : Plans]
          /\ j.exp = f
      BY <1>2, <3>2
    <3>4. job' = [job EXCEPT ![t] = j]
      BY <3>1
    <3> HIDE DEF j
    <3> QED BY <3>3, <3>4 DEF Jobs
  <2> QED BY <2>1, <2>2
<1> QED BY <1>1, <1>2, <1>3, <1>4, GivenUp

LEMMA SaveKeeps ==
  ASSUME ExpInv, NEW t \in Threads, Save(t)
  PROVE  ExpInv'
<1>0. ExpTypes
  BY DEF ExpInv
<1>1. /\ job[t].step \in {"written", "refused"} /\ job' = [job EXCEPT ![t] = NoJob]
      /\ doc' = [doc EXCEPT ![job[t].exp] = Reached(job[t])]
      /\ UNCHANGED <<worlds, counter, stale, orderly>>
  BY DEF Save, Finish, Reached
<1>2. job[t] \in [step : {"loaded", "written", "refused"}, exp : Exps, cell : Cells, copy : Plans]
      /\ job[t] # NoJob
  BY <1>0, <1>1, JobShape DEF NoJob
<1>3. PICK f \in Exps : f = job[t].exp /\ OnExp(t, f)
  BY <1>2 DEF OnExp
<1>4. PICK v \in Plans : v = Reached(job[t]) /\ v.calls = job[t].copy.calls
  <2>1. CASE job[t].step = "written"
    <3> DEFINE v == job[t].copy
    <3>1. v \in Plans /\ job[t].cell \in Cells
      BY <1>2
    <3>2. MarkedDone(v, job[t].cell) \in Plans /\ MarkedDone(v, job[t].cell).calls = v.calls
      <4> HIDE DEF v
      <4> QED BY <3>1 DEF MarkedDone, Plans
    <3> QED BY <2>1, <3>2 DEF Reached
  <2>2. CASE job[t].step # "written"
    BY <1>2, <2>2 DEF Reached
  <2> QED BY <2>1, <2>2
<1>5. ASSUME orderly, f \notin stale
      PROVE  /\ v # Torn /\ OwnWorlds(v) /\ Agrees(v, f)'
             /\ \A u \in Threads \ {t} : ~OnExp(u, f)
  <2>1. UpToDate(job[t], f) /\ \A u \in Threads \ {t} : ~OnExp(u, f)
    BY <1>3, <1>5, RequestKnows
  <2>2. Agrees(v, f) /\ OwnWorlds(v)
    BY <1>4, <2>1 DEF UpToDate, OwnWorlds
  <2>3. Agrees(v, f)'
    BY <1>1, <2>2 DEF Agrees
  <2> QED BY <2>1, <2>2, <2>3, AbsentAssumption
<1>6. /\ counter' \in Nat /\ stale' = stale /\ orderly' = orderly /\ NoJob \in Jobs
      /\ \A x \in Exps : KeepsWorldsOf(x)
  BY <1>0, <1>1 DEF ExpTypes, KeepsWorldsOf, Jobs
<1>7. doc' = [doc EXCEPT ![f] = v] /\ job[t].exp = f
  BY <1>1, <1>3, <1>4
<1>8. \A x \in Exps \ (stale \union {f}) : KeepsWorldsOf(x)
  BY <1>6
<1>9. /\ job' = [job EXCEPT ![t] = NoJob]
      /\ orderly' /\ f \notin stale => /\ v # Torn /\ OwnWorlds(v) /\ Agrees(v, f)'
                                      /\ \A u \in Threads \ {t} : ~OnExp(u, f)
  BY <1>1, <1>5
<1> QED BY ONLY ExpInv, <1>6, <1>7, <1>8, <1>9, RequestStep

LEMMA SaveFailsKeeps ==
  ASSUME ExpInv, NEW t \in Threads, SaveFails(t)
  PROVE  ExpInv'
<1>0. ExpTypes
  BY DEF ExpInv
<1>1. /\ job[t].step \in {"written", "refused", "binding"} /\ job' = [job EXCEPT ![t] = NoJob]
      /\ UNCHANGED doc \/ doc' = [doc EXCEPT ![job[t].exp] = Torn]
      /\ UNCHANGED <<counter, stale>> /\ ~orderly'
  BY DEF SaveFails, Finish
<1>2. PICK f \in Exps : f = job[t].exp /\ OnExp(t, f)
  BY <1>0, <1>1, JobShape DEF OnExp, NoJob
<1>3. PICK v \in Plans \union {Torn} : doc' = [doc EXCEPT ![f] = v]
  BY <1>0, <1>1, <1>2, SameDoc DEF ExpTypes
<1>4. counter' \in Nat /\ NoJob \in Jobs
  BY <1>0, <1>1 DEF ExpTypes, Jobs
<1> QED BY <1>1, <1>2, <1>3, <1>4, RequestStep

(* In a new window only the experiments nobody has made yet count.          *)
LEMMA NewWindowKeeps ==
  ASSUME ExpInv, NewWindow, UNCHANGED <<doc, orderly>>,
         job' = job \/ job' = [t \in Threads |-> NoJob]
  PROVE  ExpInv'
<1>0. ExpTypes
  BY DEF ExpInv
<1>1. \A t \in Threads, e \in Exps : OnExp(t, e)' => OnExp(t, e)
  BY DEF OnExp
<1>2. ExpTypes'
  BY <1>0, <1>1 DEF ExpTypes, NewWindow, Jobs
<1>3. ASSUME NEW e \in Exps \ stale' PROVE InStepOn(e)'
  <2>1. doc'[e] = Absent
    BY DEF NewWindow
  <2>2. \A t \in Threads : ~OnExp(t, e)'
    BY <1>0, <1>1, <2>1 DEF ExpTypes
  <2> QED BY <2>1, <2>2, AbsentAssumption DEF InStepOn, Written
<1> QED BY <1>2, <1>3 DEF ExpInv

LEMMA ExpInvHolds == ExpSpec => []ExpInv
<1>1. ExpInit => ExpInv
  <2> SUFFICES ASSUME ExpInit PROVE ExpInv
    OBVIOUS
  <2>1. ExpTypes
    BY DEF ExpInit, ExpTypes, Jobs, OnExp
  <2>2. \A e \in Exps : doc[e] = Absent /\ \A t \in Threads : ~OnExp(t, e)
    BY DEF ExpInit, OnExp
  <2> QED BY <2>1, <2>2, AbsentAssumption DEF ExpInv, InStepOn, Written
<1>2. ASSUME ExpInv, [ExpNext]_expVars PROVE ExpInv'
  <2>1. CASE ResetSession \/ Restart
    BY <1>2, <2>1, NewWindowKeeps DEF ResetSession, Restart
  <2>2. ASSUME NEW t \in Threads,
               \/ (\E e \in Exps : Create(t, e) \/ \E c \in Cells : LoadCopy(t, e, c))
               \/ BindWorld(t) \/ SaveCalls(t) \/ WriteAnswer(t) \/ NoSuchRole(t)
               \/ Save(t) \/ SaveFails(t)
        PROVE  ExpInv'
    BY <1>2, <2>2, CreateKeeps, LoadCopyKeeps, BindWorldKeeps, SaveCallsKeeps, WriteAnswerKeeps,
       NoSuchRoleKeeps, SaveKeeps, SaveFailsKeeps
  <2>3. CASE UNCHANGED expVars
    BY <1>2, <2>3 DEF expVars, ExpInv, ExpTypes, OnExp, InStepOn, Written, OwnWorlds, Agrees,
                      UpToDate, Reached, MarkedDone, Pending
  <2> QED BY <1>2, <2>1, <2>2, <2>3 DEF ExpNext
<1> QED BY <1>1, <1>2, PTL DEF ExpSpec

(* However many experiments and requests there are, while the requests on   *)
(* one experiment follow one another its file and the window agree on what  *)
(* was answered, and in which world.                                        *)
THEOREM AnswersAgree == ExpSpec => []FileAndWindowAgree
<1>1. ASSUME ExpInv PROVE FileAndWindowAgree
  <2> SUFFICES ASSUME orderly, NEW e \in Exps \ stale, Written(e), \A t \in Threads : ~OnExp(t, e),
                      NEW c \in Cells, doc[e].calls[c] # Absent
               PROVE  /\ doc[e].calls[c] \in DOMAIN worlds
                      /\ worlds[doc[e].calls[c]] = [owner |-> e, got |-> Answered(e, c)]
    BY DEF FileAndWindowAgree
  <2>1. Agrees(doc[e], e)
    BY <1>1 DEF ExpInv, InStepOn
  <2> QED BY <2>1 DEF Agrees, Answered
<1> QED BY <1>1, ExpInvHolds, PTL
=============================================================================
