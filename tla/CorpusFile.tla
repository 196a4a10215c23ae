----------------------------- MODULE CorpusFile -----------------------------
(***************************************************************************)
(* What the corpus store promises of its files, whatever it does to keep   *)
(* the promise: each user id has a register that holds a valid text or     *)
(* nothing.  A write takes effect at one instant between its call and its  *)
(* return and succeeds, or it has no effect and fails; a read answers with *)
(* what the register holds at one instant.  A crash loses the calls in     *)
(* flight; a power loss also takes every register back to a content it had *)
(* before.  The register of the shared corpus is only ever written by its  *)
(* operator.                                                               *)
(***************************************************************************)
CONSTANTS
    User, Anon,     \* the users, and the id of the shared corpus
    Request,
    Text, Valid,    \* the texts, and those a user's register may hold
    Absent          \* the content of an empty register

VARIABLES
    content,        \* what a read finds, per id
    durable,        \* what a power loss goes back to
    op              \* each request's call: its state, its user and its text

vars == << content, durable, op >>

None == [state |-> "none", of |-> Anon, text |-> Absent]
Failed == [state |-> "failed", of |-> Anon, text |-> Absent]

Init ==
    /\ \E t \in Text \cup {Absent} :
          content = [u \in User \cup {Anon} |-> IF u = Anon THEN t ELSE Absent]
    /\ durable = content
    /\ op = [r \in Request |-> None]

Become(r, o) == op' = [op EXCEPT ![r] = o]

Begin(r, u, t) ==
    /\ op[r] = None
    /\ Become(r, [state |-> "pending", of |-> u, text |-> t])
    /\ UNCHANGED << content, durable >>

Install(r) ==
    /\ op[r].state = "pending"
    /\ content' = [content EXCEPT ![op[r].of] = op[r].text]
    /\ Become(r, [state |-> "done", of |-> op[r].of, text |-> op[r].text])
    /\ UNCHANGED durable

Read(r, u) ==
    /\ op[r] = None
    /\ content[u] # Absent
    /\ Become(r, [state |-> "done", of |-> u, text |-> content[u]])
    /\ UNCHANGED << content, durable >>

Fail(r) ==
    /\ op[r].state \in {"none", "pending"}
    /\ Become(r, Failed)
    /\ UNCHANGED << content, durable >>

Return(r) ==
    /\ op[r].state \in {"done", "failed"}
    /\ Become(r, None)
    /\ UNCHANGED << content, durable >>

Upload ==
    /\ \E t \in Text \cup {Absent} :
          /\ content' = [content EXCEPT ![Anon] = t]
          /\ durable' = [durable EXCEPT ![Anon] = t]
    /\ UNCHANGED op

Writeback(u) ==
    /\ durable' = [durable EXCEPT ![u] = content[u]]
    /\ UNCHANGED << content, op >>

Crash ==
    /\ op' = [r \in Request |-> None]
    /\ content' \in {content, durable}
    /\ UNCHANGED durable

Next ==
    \/ \E r \in Request :
          \/ \E u \in User, t \in Valid : Begin(r, u, t)
          \/ \E u \in User \cup {Anon} : Read(r, u)
          \/ Install(r) \/ Fail(r) \/ Return(r)
    \/ \E u \in User : Writeback(u)
    \/ Upload
    \/ Crash

Spec == Init /\ [][Next]_vars
=============================================================================
