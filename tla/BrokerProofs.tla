---------------------------- MODULE BrokerProofs ----------------------------
(***************************************************************************)
(* Proofs about the backends that are not a file, for any number of        *)
(* clients, calls and records sent again.                                  *)
(*                                                                         *)
(* Two arguments.  A load that runs has seen all that was stored since it  *)
(* began, so every record from its watermark on is one that it may answer  *)
(* with, whichever of them compaction leaves.  And a save that returned Ok *)
(* has nothing on the wire, so that what takes effect late, or once more,  *)
(* is a blob that no later save was begun upon.                            *)
(***************************************************************************)
EXTENDS Broker, TLAPS

Value == Nat \cup {Nothing}
Ops == [kind : {"none", "save", "load"}, call : Nat, got : Value, high : Nat]
Answers == [kind : {"none", "save", "load"}, result : {"none", "Ok", "Err", "Timeout"},
            blob : Value]
Places == {"idle", "save", "load", "wait", "reply", "poll"}

BTypeOK ==
  /\ calls \in Nat
  /\ log \in Seq(1..calls)
  /\ kept \subseteq 1..Len(log)
  /\ wire \subseteq 1..calls
  /\ acked \subseteq 1..calls
  /\ before \in Seq(SUBSET Nat) /\ Len(before) = calls
  /\ pc \in [Clients -> Places]
  /\ op \in [Clients -> Ops]
  /\ answer \in [Clients -> Answers]
  /\ seen \in [Clients -> SUBSET Value]

InLog(n) == \E i \in DOMAIN log : log[i] = n

\* A save has one call of its own: it has not returned, and it is sent before
\* it can take effect.
SaveInv(c) ==
  /\ pc[c] \in {"save", "wait"} =>
       /\ op[c].kind = "save"
       /\ op[c].call \in 1..calls
       /\ op[c].call \notin acked
  /\ pc[c] = "save" => op[c].call \notin wire
  /\ pc[c] = "wait" => op[c].call \in wire \/ op[c].call \in lost \/ InLog(op[c].call)

\* A load that runs has seen what is stored, and what it is about to return.
LoadInv(c) ==
  /\ pc[c] \in {"load", "reply", "poll"} =>
       op[c].kind = "load" /\ StoredIn(log) \in seen[c]
  /\ pc[c] = "reply" => op[c].got \in seen[c]
  /\ pc[c] = "poll" =>
       /\ op[c].high \in 1..Len(log)
       /\ \A i \in DOMAIN log : i >= op[c].high => log[i] \in seen[c]
  /\ pc[c] = "idle" =>
       /\ op[c] = NoOp
       /\ answer[c].kind = "load" /\ answer[c].result = "Ok" => answer[c].blob \in seen[c]

\* No two clients are in the same call.
CallsApart ==
  /\ \A c \in Clients : pc[c] # "idle" => op[c].call \in 1..calls
  /\ \A c, d \in Clients :
       c # d /\ pc[c] # "idle" /\ pc[d] # "idle" => op[c].call # op[d].call

\* What is on the wire was not acknowledged, and a call that was made saw only
\* acknowledged saves.
WireInv ==
  /\ acked \cap wire = {}
  /\ \A n \in DOMAIN before : before[n] \subseteq acked

BInv ==
  /\ BTypeOK
  /\ \A c \in Clients : SaveInv(c) /\ LoadInv(c)
  /\ CallsApart /\ WireInv
  /\ AckedTookEffect /\ AckedStaysReplaced

-----------------------------------------------------------------------------
(* Steps of a client.                                                      *)

\* What is stored is a blob or nothing.
LEMMA StoredIsValue ==
  ASSUME NEW n \in Nat, NEW l \in Seq(1..n)
  PROVE  StoredIn(l) \in Value
BY DEF StoredIn, Value

\* Nothing is stored, called or seen yet.
LEMMA InitBInv == Init => BInv
<1> SUFFICES ASSUME Init PROVE BInv
  OBVIOUS
<1>1. NoOp \in Ops /\ Answer(NoOp, "none", Nothing) \in Answers
  BY DEF NoOp, Answer, Ops, Answers, Value
<1>2. BTypeOK
  <2>1. <<>> \in Seq(1..0) /\ <<>> \in Seq(SUBSET Nat) /\ Len(<<>>) = 0
    OBVIOUS
  <2> QED
    BY <1>1, <2>1 DEF Init, BTypeOK, Places
<1>3. ASSUME NEW c \in Clients PROVE SaveInv(c) /\ LoadInv(c)
  <2>1. answer[c].kind = "none" /\ op[c] = NoOp /\ pc[c] = "idle"
    BY DEF Init, Answer, NoOp
  <2> QED
    BY <2>1 DEF SaveInv, LoadInv
<1>4. CallsApart /\ WireInv /\ AckedTookEffect /\ AckedStaysReplaced
  BY DEF Init, CallsApart, WireInv, AckedTookEffect, AckedStaysReplaced
<1> QED
  BY <1>2, <1>3, <1>4 DEF BInv

\* A call returns: what a load answers it has seen, and what a save that
\* returns Ok wrote is on the wire no more.
LEMMA ReturnBInv ==
  ASSUME BInv, NEW c \in Clients, pc[c] # "idle",
         NEW result \in {"Ok", "Err", "Timeout"}, NEW blob \in Value,
         Return(c, result, blob),
         UNCHANGED <<log, kept, wire, lost, calls, seen, before>>,
         op[c].kind = "load" /\ result = "Ok" => blob \in seen[c],
         op[c].kind = "save" /\ result = "Ok" =>
           /\ op[c].call \notin wire
           /\ op[c].call \in lost \/ InLog(op[c].call)
  PROVE  BInv'
<1> USE DEF BInv
<1>1. /\ pc' = [pc EXCEPT ![c] = "idle"]
      /\ op' = [op EXCEPT ![c] = NoOp]
      /\ answer' = [answer EXCEPT ![c] = Answer(op[c], result, blob)]
      /\ acked' = IF op[c].kind = "save" /\ result = "Ok"
                  THEN acked \cup {op[c].call} ELSE acked
  BY DEF Return, Goto
<1>2. op[c] \in Ops /\ NoOp \in Ops /\ op[c].call \in 1..calls
  BY DEF BTypeOK, NoOp, Ops, Value, CallsApart
<1>3. Answer(op[c], result, blob) \in Answers
  BY <1>2 DEF Answer, Answers, Ops
<1>4. BTypeOK'
  <2>1. answer' \in [Clients -> Answers] /\ op' \in [Clients -> Ops]
    BY <1>1, <1>2, <1>3 DEF BTypeOK
  <2>2. acked' \subseteq 1..calls
    BY <1>1, <1>2 DEF BTypeOK
  <2>3. pc' \in [Clients -> Places]
    BY <1>1 DEF BTypeOK, Places
  <2> QED
    BY <2>1, <2>2, <2>3 DEF BTypeOK
<1>5. pc'[c] = "idle" /\ op'[c] = NoOp /\ answer'[c] = Answer(op[c], result, blob)
  BY <1>1 DEF BTypeOK
<1>6. \A d \in Clients : d # c => pc'[d] = pc[d] /\ op'[d] = op[d] /\ answer'[d] = answer[d]
  BY <1>1 DEF BTypeOK
<1>7. CallsApart'
  BY <1>5, <1>6 DEF CallsApart
<1>8. ASSUME NEW d \in Clients PROVE SaveInv(d)'
  <2>1. CASE d = c
    BY <2>1, <1>5 DEF SaveInv
  <2>2. CASE d # c
    <3>1. pc[d] \in {"save", "wait"} => op[d].call \notin acked'
      BY <2>2, <1>1 DEF SaveInv, CallsApart
    <3> QED
      BY <3>1, <2>2, <1>6 DEF SaveInv, InLog
  <2> QED
    BY <2>1, <2>2
<1>9. ASSUME NEW d \in Clients PROVE LoadInv(d)'
  <2>1. CASE d = c
    <3>1. answer'[c].kind = op[c].kind /\ answer'[c].result = result /\ answer'[c].blob = blob
      BY <1>5 DEF Answer
    <3> QED
      BY <2>1, <3>1, <1>5 DEF LoadInv
  <2>2. CASE d # c
    BY <2>2, <1>6 DEF LoadInv
  <2> QED
    BY <2>1, <2>2
<1>10. WireInv'
  BY <1>1 DEF WireInv, BTypeOK
<1>11. AckedTookEffect' /\ AckedStaysReplaced'
  BY <1>1 DEF AckedTookEffect, AckedStaysReplaced, InLog
<1> QED
  BY <1>4, <1>7, <1>8, <1>9, <1>10, <1>11

\* A client goes on with its call, and everything else is as before.
LEMMA ProceedBInv ==
  ASSUME BInv, NEW c \in Clients, NEW o \in Ops, NEW p \in Places \ {"idle"},
         pc[c] # "idle", o.kind = op[c].kind, o.call = op[c].call,
         op' = [op EXCEPT ![c] = o], pc' = [pc EXCEPT ![c] = p],
         UNCHANGED <<log, kept, lost, answer, acked, calls, seen, before>>,
         wire' = wire \/ (wire' = wire \cup {o.call} /\ pc[c] = "save" /\ p = "wait"),
         SaveInv(c)', LoadInv(c)'
  PROVE  BInv'
<1> USE DEF BInv
<1>1. BTypeOK'
  BY DEF BTypeOK, CallsApart
<1>2. pc'[c] = p /\ op'[c] = o
  BY DEF BTypeOK
<1>3. \A d \in Clients : d # c => pc'[d] = pc[d] /\ op'[d] = op[d]
  BY DEF BTypeOK
<1>4. CallsApart'
  BY <1>2, <1>3 DEF CallsApart
<1>5. ASSUME NEW d \in Clients, d # c PROVE SaveInv(d)' /\ LoadInv(d)'
  <2>1. pc[d] = "save" => op[d].call \notin wire'
    BY <1>5 DEF SaveInv, CallsApart
  <2> QED
    BY <2>1, <1>3, <1>5 DEF SaveInv, LoadInv, InLog
<1>6. WireInv'
  BY DEF WireInv, SaveInv
<1>7. AckedTookEffect' /\ AckedStaysReplaced'
  BY DEF AckedTookEffect, AckedStaysReplaced
<1> QED
  BY <1>1, <1>4, <1>5, <1>6, <1>7

\* A write that takes effect is what is stored; each load that runs has seen
\* it, and no save that was begun before had it acknowledged.
LEMMA StoreEffect ==
  ASSUME BInv, NEW b \in 1..calls, b \notin acked, Store(b), UNCHANGED <<calls, before>>
  PROVE  /\ log' \in Seq(1..calls) /\ kept' \subseteq 1..Len(log')
         /\ seen' \in [Clients -> SUBSET Value]
         /\ \A n : InLog(n) \/ n = b => InLog(n)'
         /\ \A c \in Clients : op[c].kind # "load" => seen'[c] = seen[c]
         /\ \A c \in Clients : pc[c] \in {"load", "reply", "poll"} =>
              /\ StoredIn(log') \in seen'[c]
              /\ seen[c] \subseteq seen'[c]
         /\ \A c \in Clients : pc[c] = "poll" =>
              /\ op[c].high \in 1..Len(log')
              /\ \A i \in DOMAIN log' : i >= op[c].high => log'[i] \in seen'[c]
         /\ AckedStaysReplaced'
<1> USE DEF BInv
<1>1. /\ log' = Append(log, b)
      /\ kept' = kept \cup {Len(log) + 1}
      /\ seen' = [c \in Clients |->
                    IF op[c].kind = "load" THEN seen[c] \cup {b} ELSE seen[c]]
  BY DEF Store
<1>2. log \in Seq(1..calls) /\ kept \subseteq 1..Len(log) /\ b \in Nat /\ calls \in Nat
  BY DEF BTypeOK
<1>3. /\ log' \in Seq(1..calls) /\ Len(log') = Len(log) + 1 /\ Len(log) \in Nat
      /\ DOMAIN log' = 1..(Len(log) + 1) /\ DOMAIN log = 1..Len(log)
      /\ \A i \in DOMAIN log : log'[i] = log[i]
      /\ log'[Len(log) + 1] = b
  BY <1>1, <1>2
<1>4. kept' \subseteq 1..Len(log')
  <2>1. 1..Len(log) \subseteq 1..Len(log') /\ Len(log) + 1 \in 1..Len(log')
    BY <1>3
  <2> QED
    BY <2>1, <1>1, <1>2
<1>5. seen' \in [Clients -> SUBSET Value]
  BY <1>1, <1>2 DEF BTypeOK, Value
<1>6. \A n : InLog(n) \/ n = b => InLog(n)'
  BY <1>3 DEF InLog
<1>7. StoredIn(log') = b
  BY <1>3 DEF StoredIn
<1>8. ASSUME NEW c \in Clients, pc[c] \in {"load", "reply", "poll"}
      PROVE  seen'[c] = seen[c] \cup {b}
  BY <1>1, <1>8 DEF LoadInv
<1>9. ASSUME NEW c \in Clients, pc[c] = "poll"
      PROVE  /\ op[c].high \in 1..Len(log')
             /\ \A i \in DOMAIN log' : i >= op[c].high => log'[i] \in seen'[c]
  <2>1. op[c].high \in 1..Len(log)
    BY <1>9 DEF LoadInv
  <2>2. ASSUME NEW i \in DOMAIN log', i >= op[c].high PROVE log'[i] \in seen'[c]
    <3>1. CASE i = Len(log) + 1
      BY <3>1, <1>3, <1>8, <1>9
    <3>2. CASE i \in DOMAIN log
      <4>1. log[i] \in seen[c]
        BY <3>2, <2>2, <1>9 DEF LoadInv
      <4> QED
        BY <4>1, <3>2, <1>3, <1>8, <1>9
    <3> QED
      BY <3>1, <3>2, <1>3
  <2> QED
    BY <2>1, <2>2, <1>3
<1>10. AckedStaysReplaced'
  <2> SUFFICES ASSUME NEW i \in DOMAIN log', NEW j \in DOMAIN log', i < j
               PROVE  log'[j] \notin before[log'[i]]
    BY DEF AckedStaysReplaced
  <2>1. i \in DOMAIN log /\ log'[i] = log[i]
    BY <1>3
  <2>2. CASE j \in DOMAIN log
    BY <2>1, <2>2, <1>3 DEF AckedStaysReplaced
  <2>3. CASE j = Len(log) + 1
    <3>1. log[i] \in DOMAIN before
      BY <2>1, <1>2 DEF BTypeOK
    <3> QED
      BY <3>1, <2>1, <2>3, <1>3 DEF WireInv
  <2> QED
    BY <2>2, <2>3, <1>3
<1>11. \A c \in Clients : op[c].kind # "load" => seen'[c] = seen[c]
  BY <1>1
<1> QED
  BY <1>3, <1>4, <1>5, <1>6, <1>7, <1>8, <1>9, <1>10, <1>11

-----------------------------------------------------------------------------
(* The invariant is inductive.                                             *)

\* A new call has a number of its own, and sees what is stored.
LEMMA CallBInv ==
  ASSUME BInv, NEW c \in Clients, Call(c)
  PROVE  BInv'
<1> USE DEF BInv
<1>1. PICK kind \in {"save", "load"} :
        /\ op' = [op EXCEPT ![c] = [NoOp EXCEPT !.kind = kind, !.call = calls + 1]]
        /\ pc' = [pc EXCEPT ![c] = kind]
  BY DEF Call, Goto
<1>2. /\ pc[c] = "idle" /\ calls' = calls + 1
      /\ seen' = [seen EXCEPT ![c] = {StoredIn(log)}]
      /\ before' = Append(before, acked)
      /\ UNCHANGED <<log, kept, wire, lost, answer, acked>>
  BY DEF Call, remote
<1>3. calls \in Nat /\ log \in Seq(1..calls) /\ 1..calls \subseteq Nat /\ acked \subseteq 1..calls
  BY DEF BTypeOK
<1>4. StoredIn(log) \in Value
  BY <1>3, StoredIsValue
<1>0. PICK o : o = [NoOp EXCEPT !.kind = kind, !.call = calls + 1]
  OBVIOUS
<1>5. o \in Ops /\ o.kind = kind /\ o.call = calls + 1
  <2>1. o = [kind |-> kind, call |-> calls + 1, got |-> Nothing, high |-> 0]
    BY <1>0 DEF NoOp
  <2>2. kind \in {"none", "save", "load"} /\ calls + 1 \in Nat /\ Nothing \in Value
    BY <1>3 DEF Value
  <2> QED
    BY <2>1, <2>2 DEF Ops
<1>6. pc'[c] = kind /\ op'[c] = o /\ seen'[c] = {StoredIn(log)}
  BY <1>0, <1>1, <1>2 DEF BTypeOK
<1>7. \A d \in Clients : d # c => pc'[d] = pc[d] /\ op'[d] = op[d] /\ seen'[d] = seen[d]
  BY <1>1, <1>2 DEF BTypeOK
<1>8. /\ before' \in Seq(SUBSET Nat) /\ Len(before') = calls + 1
      /\ DOMAIN before' = 1..(calls + 1) /\ DOMAIN before = 1..calls
      /\ \A n \in 1..calls : before'[n] = before[n]
      /\ before'[calls + 1] = acked
  BY <1>2, <1>3 DEF BTypeOK
<1>9. BTypeOK'
  <2>1. log \in Seq(1..calls') /\ 1..calls \subseteq 1..calls' /\ calls' \in Nat
    BY <1>2, <1>3
  <2>2. op' \in [Clients -> Ops] /\ pc' \in [Clients -> Places]
    BY <1>0, <1>1, <1>5 DEF BTypeOK, Places
  <2>3. seen' \in [Clients -> SUBSET Value]
    BY <1>2, <1>4 DEF BTypeOK
  <2> QED
    BY <2>1, <2>2, <2>3, <1>2, <1>8 DEF BTypeOK
<1>10. CallsApart'
  <2>1. ASSUME NEW d \in Clients, d # c, pc'[d] # "idle"
        PROVE  op'[d].call \in 1..calls /\ op'[d].call # calls + 1
    BY <2>1, <1>3, <1>7 DEF CallsApart
  <2>2. op'[c].call = calls + 1 /\ calls + 1 \in 1..calls' /\ 1..calls \subseteq 1..calls'
    BY <1>2, <1>3, <1>5, <1>6
  <2>3. \A d, e \in Clients : d # c /\ e # c /\ d # e /\ pc'[d] # "idle" /\ pc'[e] # "idle"
          => op'[d].call # op'[e].call
    BY <1>7 DEF CallsApart
  <2> QED
    BY <2>1, <2>2, <2>3 DEF CallsApart
<1>11. ASSUME NEW d \in Clients PROVE SaveInv(d)'
  <2>1. CASE d = c
    <3>1. calls + 1 \in 1..calls' /\ calls + 1 \notin acked /\ calls + 1 \notin wire
      BY <1>2, <1>3 DEF BTypeOK
    <3> QED
      BY <2>1, <3>1, <1>2, <1>5, <1>6 DEF SaveInv
  <2>2. CASE d # c
    <3>1. 1..calls \subseteq 1..calls'
      BY <1>2, <1>3
    <3> QED
      BY <2>2, <3>1, <1>2, <1>7 DEF SaveInv, InLog
  <2> QED
    BY <2>1, <2>2
<1>12. ASSUME NEW d \in Clients PROVE LoadInv(d)'
  <2>1. CASE d = c
    BY <2>1, <1>2, <1>5, <1>6 DEF LoadInv
  <2>2. CASE d # c
    BY <2>2, <1>2, <1>7 DEF LoadInv
  <2> QED
    BY <2>1, <2>2
<1>13. WireInv'
  BY <1>2, <1>3, <1>8 DEF WireInv
<1>14. AckedStaysReplaced'
  BY <1>2, <1>3, <1>8 DEF AckedStaysReplaced
<1>15. AckedTookEffect'
  BY <1>2 DEF AckedTookEffect
<1> QED
  BY <1>9, <1>10, <1>11, <1>12, <1>13, <1>14, <1>15

\* A save in memory takes effect and returns at once.
LEMMA MemorySaveBInv ==
  ASSUME BInv, NEW c \in Clients, MemorySave(c)
  PROVE  BInv'
<1> USE DEF BInv
<1> DEFINE b == op[c].call
<1>1. /\ pc[c] = "save" /\ Store(b) /\ Return(c, "Ok", Nothing)
      /\ UNCHANGED <<wire, lost, calls, before>>
  BY DEF MemorySave
<1>2. op[c].kind = "save" /\ b \in 1..calls /\ b \notin acked /\ b \notin wire
  BY <1>1 DEF SaveInv
<1> HIDE DEF b
<1>3. /\ pc' = [pc EXCEPT ![c] = "idle"]
      /\ op' = [op EXCEPT ![c] = NoOp]
      /\ answer' = [answer EXCEPT ![c] = Answer(op[c], "Ok", Nothing)]
      /\ acked' = acked \cup {b}
  BY <1>1, <1>2 DEF Return, Goto, b
<1>4. /\ log' \in Seq(1..calls) /\ kept' \subseteq 1..Len(log')
      /\ seen' \in [Clients -> SUBSET Value]
      /\ \A n : InLog(n) \/ n = b => InLog(n)'
  BY <1>1, <1>2, StoreEffect
<1>5. /\ \A d \in Clients : op[d].kind # "load" => seen'[d] = seen[d]
      /\ \A d \in Clients : pc[d] \in {"load", "reply", "poll"} =>
           StoredIn(log') \in seen'[d] /\ seen[d] \subseteq seen'[d]
      /\ \A d \in Clients : pc[d] = "poll" =>
           /\ op[d].high \in 1..Len(log')
           /\ \A i \in DOMAIN log' : i >= op[d].high => log'[i] \in seen'[d]
      /\ AckedStaysReplaced'
  BY <1>1, <1>2, StoreEffect
<1>6. op[c] \in Ops /\ NoOp \in Ops /\ Answer(op[c], "Ok", Nothing) \in Answers
  BY DEF BTypeOK, NoOp, Ops, Value, Answer, Answers
<1>7. BTypeOK'
  <2>1. answer' \in [Clients -> Answers] /\ op' \in [Clients -> Ops]
    BY <1>3, <1>6 DEF BTypeOK
  <2>2. pc' \in [Clients -> Places] /\ acked' \subseteq 1..calls
    BY <1>2, <1>3 DEF BTypeOK, Places
  <2> QED
    BY <2>1, <2>2, <1>1, <1>4 DEF BTypeOK
<1>8. pc'[c] = "idle" /\ op'[c] = NoOp /\ answer'[c] = Answer(op[c], "Ok", Nothing)
  BY <1>3 DEF BTypeOK
<1>9. \A d \in Clients : d # c => pc'[d] = pc[d] /\ op'[d] = op[d] /\ answer'[d] = answer[d]
  BY <1>3 DEF BTypeOK
<1>10. CallsApart'
  BY <1>1, <1>8, <1>9 DEF CallsApart
<1>11. ASSUME NEW d \in Clients PROVE SaveInv(d)'
  <2>1. CASE d = c
    BY <2>1, <1>8 DEF SaveInv
  <2>2. CASE d # c
    <3>1. pc[d] \in {"save", "wait"} => op[d].call # b
      BY <2>2, <1>1 DEF CallsApart, b
    <3> QED
      BY <2>2, <3>1, <1>1, <1>3, <1>4, <1>9 DEF SaveInv
  <2> QED
    BY <2>1, <2>2
<1>12. ASSUME NEW d \in Clients PROVE LoadInv(d)'
  <2>1. CASE d = c
    BY <2>1, <1>2, <1>8 DEF LoadInv, Answer
  <2>2. CASE d # c
    <3>1. pc[d] = "idle" => op[d].kind # "load"
      BY DEF LoadInv, NoOp
    <3> QED
      BY <2>2, <3>1, <1>5, <1>9 DEF LoadInv
  <2> QED
    BY <2>1, <2>2
<1>13. WireInv'
  BY <1>1, <1>2, <1>3 DEF WireInv
<1>14. AckedTookEffect'
  <2>1. \A n \in acked' : n \in lost \/ InLog(n)'
    BY <1>3, <1>4 DEF AckedTookEffect, InLog
  <2> QED
    BY <2>1, <1>1 DEF AckedTookEffect, InLog
<1> QED
  BY <1>5, <1>7, <1>10, <1>11, <1>12, <1>13, <1>14

\* A write on the wire takes effect, and stays there to take effect again or not.
LEMMA ApplyBInv ==
  ASSUME BInv, NEW b \in wire, Store(b), wire' = wire \/ wire' = wire \ {b},
         UNCHANGED <<lost, client, calls, before>>
  PROVE  BInv'
<1> USE DEF BInv, client
<1>1. b \in 1..calls /\ b \notin acked
  BY DEF BTypeOK, WireInv
<1>2. /\ log' \in Seq(1..calls) /\ kept' \subseteq 1..Len(log')
      /\ seen' \in [Clients -> SUBSET Value]
      /\ \A n : InLog(n) \/ n = b => InLog(n)'
  BY <1>1, StoreEffect
<1>3. /\ \A d \in Clients : op[d].kind # "load" => seen'[d] = seen[d]
      /\ \A d \in Clients : pc[d] \in {"load", "reply", "poll"} =>
           StoredIn(log') \in seen'[d] /\ seen[d] \subseteq seen'[d]
      /\ \A d \in Clients : pc[d] = "poll" =>
           /\ op[d].high \in 1..Len(log')
           /\ \A i \in DOMAIN log' : i >= op[d].high => log'[i] \in seen'[d]
      /\ AckedStaysReplaced'
  BY <1>1, StoreEffect
<1>4. BTypeOK'
  BY <1>2 DEF BTypeOK
<1>5. CallsApart'
  BY DEF CallsApart
<1>6. ASSUME NEW d \in Clients PROVE SaveInv(d)'
  BY <1>2 DEF SaveInv
<1>7. ASSUME NEW d \in Clients PROVE LoadInv(d)'
  <2>1. pc[d] = "idle" => op[d].kind # "load"
    BY DEF LoadInv, NoOp
  <2> QED
    BY <2>1, <1>3 DEF LoadInv
<1>8. WireInv'
  BY DEF WireInv
<1>9. AckedTookEffect'
  <2>1. \A n \in acked : n \in lost \/ InLog(n)'
    BY <1>2 DEF AckedTookEffect, InLog
  <2> QED
    BY <2>1 DEF AckedTookEffect, InLog
<1> QED
  BY <1>3, <1>4, <1>5, <1>6, <1>7, <1>8, <1>9

\* A record that is lost was never acknowledged.
LEMMA LoseBInv ==
  ASSUME BInv, NEW b \in wire, Lose(b)
  PROVE  BInv'
<1> USE DEF BInv, Lose, client, past
<1>1. BTypeOK' /\ CallsApart' /\ WireInv' /\ AckedTookEffect' /\ AckedStaysReplaced'
  BY DEF BTypeOK, CallsApart, WireInv, AckedTookEffect, AckedStaysReplaced
<1>2. \A d \in Clients : SaveInv(d)' /\ LoadInv(d)'
  BY DEF SaveInv, LoadInv, InLog
<1> QED
  BY <1>1, <1>2

\* Compaction takes records out of the reader's way and changes none.
LEMMA CompactBInv ==
  ASSUME BInv, Compact
  PROVE  BInv'
<1> USE DEF BInv, Compact, client, past
<1>1. BTypeOK' /\ CallsApart' /\ WireInv' /\ AckedTookEffect' /\ AckedStaysReplaced'
  BY DEF BTypeOK, CallsApart, WireInv, AckedTookEffect, AckedStaysReplaced
<1>2. \A d \in Clients : SaveInv(d)' /\ LoadInv(d)'
  BY DEF SaveInv, LoadInv, InLog
<1> QED
  BY <1>1, <1>2

\* The save is on the wire from here on.
LEMMA SendBInv ==
  ASSUME BInv, NEW c \in Clients, Send(c)
  PROVE  BInv'
<1>1. /\ pc[c] = "save" /\ wire' = wire \cup {op[c].call}
      /\ pc' = [pc EXCEPT ![c] = "wait"]
      /\ UNCHANGED <<log, kept, lost, op, answer, acked, calls, seen, before>>
  BY DEF Send, Goto, past
<1>2. op[c] \in Ops /\ op' = [op EXCEPT ![c] = op[c]] /\ pc'[c] = "wait"
  BY <1>1 DEF BInv, BTypeOK
<1>3. SaveInv(c)'
  BY <1>1, <1>2 DEF BInv, SaveInv
<1>4. LoadInv(c)'
  BY <1>2 DEF LoadInv
<1>5. "wait" \in Places \ {"idle"}
  BY DEF Places
<1> QED
  BY <1>1, <1>2, <1>3, <1>4, <1>5, ProceedBInv

\* The reply to GET carries what is stored when GET is executed.
LEMMA GetBInv ==
  ASSUME BInv, NEW c \in Clients, Get(c)
  PROVE  BInv'
<1>0. PICK o : o = [op[c] EXCEPT !.got = StoredIn(log)]
  OBVIOUS
<1>1. /\ pc[c] = "load" /\ op' = [op EXCEPT ![c] = o]
      /\ pc' = [pc EXCEPT ![c] = "reply"]
      /\ UNCHANGED <<log, kept, lost, wire, answer, acked, calls, seen, before>>
  BY <1>0 DEF Get, Goto, past, remote
<1>2. StoredIn(log) \in Value /\ StoredIn(log) \in seen[c] /\ op[c].kind = "load"
  BY <1>1, StoredIsValue DEF BInv, BTypeOK, LoadInv
<1>3. o \in Ops /\ o.kind = op[c].kind /\ o.call = op[c].call /\ o.got = StoredIn(log)
  BY <1>0, <1>2 DEF BInv, BTypeOK, Ops
<1>4. op'[c] = o /\ pc'[c] = "reply"
  BY <1>1 DEF BInv, BTypeOK
<1>5. SaveInv(c)' /\ LoadInv(c)'
  BY <1>1, <1>2, <1>3, <1>4 DEF SaveInv, LoadInv
<1>6. "reply" \in Places \ {"idle"}
  BY DEF Places
<1>7. pc[c] # "idle" /\ wire' = wire
      /\ UNCHANGED <<log, kept, lost, answer, acked, calls, seen, before>>
  BY <1>1
<1> QED
  BY <1>1, <1>3, <1>5, <1>6, <1>7, ProceedBInv

\* The record at the watermark is what is stored at that moment.
LEMMA WatermarksBInv ==
  ASSUME BInv, NEW c \in Clients, Watermarks(c)
  PROVE  BInv'
<1>1. pc[c] = "load" /\ UNCHANGED <<log, kept, lost, wire, calls, seen, before>>
  BY DEF Watermarks, remote, past
<1>2. op[c].kind = "load" /\ StoredIn(log) \in seen[c]
  BY <1>1 DEF BInv, LoadInv
<1>3. CASE log = <<>>
  <2>1. Return(c, "Ok", Nothing) /\ Nothing \in Value /\ Nothing \in seen[c]
    BY <1>2, <1>3 DEF Watermarks, StoredIn, Value
  <2> QED
    BY <2>1, <1>1, <1>2, ReturnBInv
<1>4. CASE log # <<>>
  <2>0. PICK o : o = [op[c] EXCEPT !.high = Len(log)]
    OBVIOUS
  <2>1. /\ op' = [op EXCEPT ![c] = o] /\ pc' = [pc EXCEPT ![c] = "poll"]
        /\ UNCHANGED <<answer, acked>>
    BY <1>4, <2>0 DEF Watermarks, Goto
  <2>2. log \in Seq(1..calls) /\ Len(log) \in 1..Len(log) /\ Len(log) \in Nat
    BY <1>4 DEF BInv, BTypeOK
  <2>3. o \in Ops /\ o.kind = op[c].kind /\ o.call = op[c].call /\ o.high = Len(log)
    BY <2>0, <2>2 DEF BInv, BTypeOK, Ops
  <2>4. op'[c] = o /\ pc'[c] = "poll"
    BY <2>1 DEF BInv, BTypeOK
  <2>5. \A i \in DOMAIN log : i >= Len(log) => log[i] \in seen[c]
    BY <1>2, <1>4, <2>2 DEF StoredIn
  <2>6. SaveInv(c)' /\ LoadInv(c)'
    BY <1>1, <1>2, <2>2, <2>3, <2>4, <2>5 DEF SaveInv, LoadInv
  <2>7. "poll" \in Places \ {"idle"}
    BY DEF Places
  <2>8. pc[c] # "idle" /\ wire' = wire
        /\ UNCHANGED <<log, kept, lost, answer, acked, calls, seen, before>>
    BY <1>1, <2>1
  <2> QED
    BY <2>1, <2>3, <2>6, <2>7, <2>8, ProceedBInv
<1> QED
  BY <1>3, <1>4

\* Every other step of a call returns from it.
LEMMA ReturnsBInv ==
  ASSUME BInv, NEW c \in Clients,
         \/ MemoryLoad(c) \/ Refused(c) \/ Answered(c) \/ GiveUp(c)
         \/ Reply(c) \/ Poll(c) \/ PollFails(c) \/ PollTimesOut(c)
  PROVE  BInv'
<1> USE DEF remote, past
<1>1. Nothing \in Value /\ SaveInv(c) /\ LoadInv(c)
  BY DEF BInv, Value
<1>2. CASE MemoryLoad(c)
  <2>1. StoredIn(log) \in Value /\ StoredIn(log) \in seen[c] /\ op[c].kind = "load"
    BY <1>1, <1>2, StoredIsValue DEF MemoryLoad, BInv, BTypeOK, LoadInv
  <2> QED
    BY <2>1, <1>2, ReturnBInv DEF MemoryLoad
<1>3. CASE Refused(c)
  BY <1>1, <1>3, ReturnBInv DEF Refused
<1>4. CASE Answered(c)
  <2>1. op[c].kind = "save" /\ (op[c].call \in lost \/ InLog(op[c].call))
    BY <1>1, <1>4 DEF Answered, SaveInv
  <2> QED
    BY <2>1, <1>1, <1>4, ReturnBInv DEF Answered
<1>5. CASE GiveUp(c)
  BY <1>1, <1>5, ReturnBInv DEF GiveUp
<1>6. CASE Reply(c)
  <2>1. op[c].kind = "load" /\ op[c].got \in seen[c] /\ op[c].got \in Value
    BY <1>1, <1>6 DEF Reply, LoadInv, BInv, BTypeOK, Ops
  <2> QED
    BY <2>1, <1>1, <1>6, ReturnBInv DEF Reply
<1>7. CASE Poll(c)
  <2>1. PICK i \in kept : i >= op[c].high /\ Return(c, "Ok", log[i])
    BY <1>7 DEF Poll, From
  <2>2. i \in DOMAIN log /\ log[i] \in Nat
    BY DEF BInv, BTypeOK
  <2>3. op[c].kind = "load" /\ log[i] \in seen[c] /\ log[i] \in Value
    BY <2>1, <2>2, <1>1, <1>7 DEF Poll, LoadInv, Value
  <2> QED
    BY <2>1, <2>3, <1>7, ReturnBInv DEF Poll
<1>8. CASE PollFails(c)
  BY <1>1, <1>8, ReturnBInv DEF PollFails
<1>9. CASE PollTimesOut(c)
  BY <1>1, <1>9, ReturnBInv DEF PollTimesOut
<1> QED
  BY <1>2, <1>3, <1>4, <1>5, <1>6, <1>7, <1>8, <1>9

\* Every step keeps the invariant.
LEMMA NextBInv == BInv /\ [Next]_vars => BInv'
<1> SUFFICES ASSUME BInv, [Next]_vars PROVE BInv'
  OBVIOUS
<1>1. ASSUME NEW c \in Clients, Call(c) PROVE BInv'
  BY <1>1, CallBInv
<1>2. ASSUME NEW c \in Clients, Step(c) PROVE BInv'
  BY <1>2, MemorySaveBInv, SendBInv, GetBInv, WatermarksBInv, ReturnsBInv DEF Step
<1>3. ASSUME NEW b \in wire, Apply(b) \/ ApplyUnacked(b) PROVE BInv'
  BY <1>3, ApplyBInv DEF Apply, ApplyUnacked
<1>4. ASSUME NEW b \in wire, Lose(b) PROVE BInv'
  BY <1>4, LoseBInv
<1>5. CASE Compact
  BY <1>5, CompactBInv
<1>6. CASE UNCHANGED vars
  <2> USE <1>6 DEF vars, remote, client, past, BInv
  <2>1. BTypeOK' /\ CallsApart' /\ WireInv' /\ AckedTookEffect' /\ AckedStaysReplaced'
    BY DEF BTypeOK, CallsApart, WireInv, AckedTookEffect, AckedStaysReplaced
  <2>2. \A d \in Clients : SaveInv(d)' /\ LoadInv(d)'
    BY DEF SaveInv, LoadInv, InLog
  <2> QED
    BY <2>1, <2>2
<1> QED
  BY <1>1, <1>2, <1>3, <1>4, <1>5, <1>6 DEF Next, Servers

-----------------------------------------------------------------------------
(* What the backends promise.                                              *)

\* Every reachable state has the invariant.
THEOREM BrokerInductive == Spec => []BInv
<1>1. Init => BInv
  BY InitBInv
<1>2. BInv /\ [Next]_vars => BInv'
  BY NextBInv
<1> QED
  BY <1>1, <1>2, PTL DEF Spec

\* A load answers with what was stored at some moment of it, though a Kafka
\* load takes two requests and compaction and other clients work in between.
THEOREM LoadsAnswerWhatWasStored == Spec => []LoadedWasStored
<1>1. BInv => LoadedWasStored
  BY DEF BInv, LoadInv, LoadedWasStored
<1> QED
  BY <1>1, BrokerInductive, PTL

\* A save that returned Ok took effect, but for the records that Kafka lost.
THEOREM AckedSavesTookEffect == Spec => []AckedTookEffect
<1>1. BInv => AckedTookEffect
  BY DEF BInv
<1> QED
  BY <1>1, BrokerInductive, PTL

\* No acknowledged blob comes back over that of a save begun afterwards.
THEOREM AckedSavesStayReplaced == Spec => []AckedStaysReplaced
<1>1. BInv => AckedStaysReplaced
  BY DEF BInv
<1> QED
  BY <1>1, BrokerInductive, PTL
=============================================================================
