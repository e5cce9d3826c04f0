--------------------------- MODULE CharterThreads ---------------------------
(***************************************************************************)
(* ContextService.create_spec as the HTTP surface runs it: the handler is  *)
(* a plain function, so each request runs it in a thread of the server's   *)
(* pool, and the tree has no lock.  A request reads the tree, and only     *)
(* afterwards writes it.  What it reads is taken as one step, which leaves *)
(* out interleavings but adds none.                                        *)
(***************************************************************************)
EXTENDS ConstitutionTree

CONSTANTS
  Threads,   \* the requests
  Ask,       \* the window each asks to create, each its own, and the parent it names
  Root,      \* ROOT_SCW
  RootGrant  \* the constitution the deployment gives it

VARIABLES
  specs,   \* the specifications registered
  pc       \* how far each request is

threadVars == <<treeVars, specs, pc>>

ThreadsInit ==
  /\ chartered = {Root}
  /\ up = [w \in Windows |-> None]
  /\ children = [w \in Windows |-> {}]
  /\ depth = [w \in Windows |-> 0]
  /\ charter = [w \in Windows |-> IF w = Root THEN RootGrant ELSE NoCharter]
  /\ specs = {}
  /\ pc = [r \in Threads |-> "asked"]

(* Every check that can refuse, those of ConstitutionTree.charter included. *)
(* A specification carries no request: it inherits.                         *)
Check(r) ==
  /\ pc[r] = "asked"
  /\ Ask[r].window \notin specs
  /\ MayCharter(Ask[r].window, Ask[r].parent, None)
  /\ pc' = [pc EXCEPT ![r] = "checked"]
  /\ UNCHANGED <<treeVars, specs>>

StoreNode(r) ==
  LET w == Ask[r].window
      p == Ask[r].parent
  IN  /\ pc[r] = "checked"
      /\ pc' = [pc EXCEPT ![r] = "stored"]
      /\ chartered' = chartered \union {w}
      /\ up' = [up EXCEPT ![w] = p]
      /\ depth' = [depth EXCEPT ![w] = depth[p] + 1]
      /\ charter' = [charter EXCEPT ![w] = charter[p]]
      /\ UNCHANGED <<children, specs>>

AppendChild(r) ==
  /\ pc[r] = "stored"
  /\ pc' = [pc EXCEPT ![r] = "appended"]
  /\ children' = [children EXCEPT ![Ask[r].parent] = @ \union {Ask[r].window}]
  /\ UNCHANGED <<chartered, up, depth, charter, specs>>

AddSpec(r) ==
  /\ pc[r] = "appended"
  /\ pc' = [pc EXCEPT ![r] = "created"]
  /\ specs' = specs \union {Ask[r].window}
  /\ UNCHANGED treeVars

ThreadsStep == \E r \in Threads : Check(r) \/ StoreNode(r) \/ AppendChild(r) \/ AddSpec(r)

ThreadsSpec == ThreadsInit /\ [][ThreadsStep]_threadVars

(* A spawn cap set on the root binds the whole tree: no window, whoever     *)
(* created its children, has more of them than its constitution allows.     *)
RootCapBinds ==
  \A p \in chartered :
    TighterCap(Cardinality(children[p]), charter[p].max_children)
=============================================================================
