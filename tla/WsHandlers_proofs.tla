---------------------------- MODULE WsHandlers_proofs ---------------------------
(***************************************************************************)
(* Lemmas about the operators the handlers of WsHandlers are built from,   *)
(* whatever deployment runs them.                                          *)
(***************************************************************************)
EXTENDS WsHandlers, TLAPS

USE ConstantsAssumption

\* A returned invocation (Returned) is idle, or a $connect with its result.
LEMMA ReturnedShape ==
    ASSUME NEW v \in InvocationType, NEW result \in {"ok", "failed"}
    PROVE  /\ Returned(v, result) \in InvocationType
           /\ v.op # "connect" => Returned(v, result) = IdleInvocation
           /\ v.op = "connect" =>
                 Returned(v, result) = Invocation("connect", v.conn, None, result)
BY DEF InvocationType, Returned, IdleInvocation, Invocation, PCs, Ops

\* A handler that goes on after its broadcast (Resume) holds no frame any more.
LEMMA ResumeType ==
    ASSUME NEW v \in InvocationType, NEW pc \in PCs
    PROVE  Resume(v, pc) \in InvocationType
BY DEF InvocationType, Resume

\* The loop of BroadcastToRoom (Continue) goes on with what is left of the
\* targets, or the handler resumes where its broadcast was called.
LEMMA ContinueShape ==
    ASSUME NEW v \in InvocationType, NEW left \in SUBSET Conns
    PROVE  /\ Continue(v, left) \in InvocationType
           /\ \/ Continue(v, left) =
                    [v EXCEPT !.pc = "post", !.targets = left, !.stale = None]
              \/ /\ v.op = "disconnect"
                 /\ Continue(v, left) = Resume(v, "delete_conn")
              \/ /\ v.op = "join" /\ v.frame.type = "user_left"
                 /\ Continue(v, left) = Resume(v, "set_room")
              \/ /\ v.op # "disconnect"
                 /\ Continue(v, left) = Returned(v, "ok")
<1>1. /\ [v EXCEPT !.pc = "post", !.targets = left, !.stale = None] \in InvocationType
      /\ Resume(v, "delete_conn") \in InvocationType
      /\ Resume(v, "set_room") \in InvocationType
      /\ Returned(v, "ok") \in InvocationType
  <2>1. [v EXCEPT !.pc = "post", !.targets = left, !.stale = None] \in InvocationType
    BY DEF InvocationType, PCs
  <2>2. QED BY <2>1, ReturnedShape, ResumeType DEF PCs
<1>2. QED BY <1>1 DEF Continue, AfterBroadcast

\* Moving an invocation to another call (Goto) keeps its type.
LEMMA GotoType ==
    ASSUME NEW v \in InvocationType, NEW pc \in PCs
    PROVE  [v EXCEPT !.pc = pc] \in InvocationType
BY DEF InvocationType
=================================================================================
