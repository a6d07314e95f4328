---------------------- MODULE NotificationDeliveryProofs ----------------------
(***************************************************************************)
(* What the delivery of notifications guarantees, for any number of rules, *)
(* runs, channels, senders and attempts: its tables are well typed, and    *)
(* whoever overlaps and crashes, a delivery shown as DELIVERED was         *)
(* received.                                                               *)
(***************************************************************************)
EXTENDS NotificationDelivery, WellFoundedInduction, TLAPS

\* A bounded set of naturals has a greatest element.
LEMMA BoundedHasMaximum ==
  ASSUME NEW S \in SUBSET Nat, S # {}, NEW n \in Nat, \A x \in S : x <= n
  PROVE  Max(S) \in S /\ \A x \in S : x <= Max(S)
<1> DEFINE Bounds == {m \in Nat : \A x \in S : x <= m}
<1>1. PICK m \in Bounds : \A k \in Bounds : ~(<<k, m>> \in OpToRel(<, Nat))
  <2>1. Bounds # {} /\ Bounds \subseteq Nat
    OBVIOUS
  <2> HIDE DEF Bounds
  <2>2. QED
    BY <2>1, NatLessThanWellFounded, WFMin
<1>2. \A k \in Bounds : ~(k < m)
  BY <1>1 DEF OpToRel
<1>3. m \in S
  <2>1. SUFFICES ASSUME m \notin S
                 PROVE  FALSE
    OBVIOUS
  <2>2. PICK x \in S : TRUE
    OBVIOUS
  <2>3. m \in Nat /\ m # 0 /\ m - 1 \in Nat
    BY <2>1, <2>2
  <2>4. \A y \in S : y <= m - 1
    BY <2>1, <2>3
  <2>5. QED
    BY <1>2, <2>3, <2>4
<1>4. \E y \in S : \A x \in S : y >= x
  BY <1>3
<1>5. QED
  BY <1>4 DEF Max

\* The attempts of a delivery carry naturals with a bound: there are finitely many.
NumbersBounded ==
  \A d \in Deliveries : \E n \in Nat :
    \A c \in Channels : \A m \in AttemptNumbers(d, c) : m <= n

\* Attempts are counted from one.
Sending == {"send", "recordSuccess", "recordFailure", "finish"}
JobsNumbered ==
  \A s \in Senders :
    /\ \A job \in sender[s].batch : job.attempt > 0
    /\ sender[s].phase \in Sending => sender[s].job.attempt > 0

TypeInv == TypeOK /\ NumbersBounded /\ JobsNumbered

LEMMA NumberTypes ==
  ASSUME TypeOK, NEW d \in Deliveries, NEW c \in Channels
  PROVE  /\ attempts[d] \in [Channels -> Seq(Attempt)] /\ attempts[d][c] \in Seq(Attempt)
         /\ AttemptNumbers(d, c) \subseteq Nat \ {0}
<1>1. attempts[d] \in [Channels -> Seq(Attempt)] /\ attempts[d][c] \in Seq(Attempt)
  BY DEF TypeOK
<1>2. \A i \in 1..Len(attempts[d][c]) : attempts[d][c][i] \in Attempt
  BY <1>1
<1>3. QED
  BY <1>1, <1>2 DEF AttemptNumbers, Attempt

\* The number of a new attempt exceeds those of all recorded ones.
LEMMA NewNumberIsGreater ==
  ASSUME TypeInv, NEW d \in Deliveries
  PROVE  /\ AttemptNumber(d) \in Nat \ {0}
         /\ \A c \in Channels : \A m \in AttemptNumbers(d, c) : m < AttemptNumber(d)
<1> DEFINE S == {0} \cup UNION {AttemptNumbers(d, c) : c \in Channels}
<1>1. S \in SUBSET Nat /\ S # {}
  BY NumberTypes DEF TypeInv
<1>2. PICK n \in Nat : \A c \in Channels : \A m \in AttemptNumbers(d, c) : m <= n
  BY DEF TypeInv, NumbersBounded
<1>3. \A m \in S : m <= n
  BY <1>2
<1> HIDE DEF S
<1>4. Max(S) \in S /\ \A m \in S : m <= Max(S)
  BY <1>1, <1>2, <1>3, BoundedHasMaximum
<1>5. AttemptNumber(d) = 1 + Max(S)
  BY DEF AttemptNumber, S
<1>6. \A c \in Channels : \A m \in AttemptNumbers(d, c) : m \in S
  BY DEF S
<1>7. Max(S) \in Nat
  BY <1>1, <1>4
<1>8. AttemptNumber(d) \in Nat \ {0}
  BY <1>5, <1>7
<1>9. ASSUME NEW c \in Channels, NEW m \in AttemptNumbers(d, c)
      PROVE  m < AttemptNumber(d)
  <2>1. m \in Nat /\ m <= Max(S)
    BY <1>1, <1>4, <1>6
  <2>2. QED
    BY <1>5, <1>7, <2>1
<1>10. QED
  BY <1>8, <1>9

LEMMA SomeChannel == (CHOOSE c \in Channels : TRUE) \in Channels
BY ConstantsAssumption

LEMMA DeliveryParts ==
  /\ \A d \in Deliveries : RuleOf(d) \in Rules /\ RunOf(d) \in Runs
  /\ (CHOOSE d \in Deliveries : TRUE) \in Deliveries
<1>1. Deliveries # {}
  <2>1. PICK r \in Rules, run \in Runs : TRUE
    BY ConstantsAssumption
  <2>2. <<r, run>> \in Deliveries
    BY DEF Deliveries
  <2>3. QED
    BY <2>2
<1>2. QED
  BY <1>1 DEF Deliveries, RuleOf, RunOf

LEMMA NoJobTypes == NoJob \in Job /\ IdleSender \in Sender
<1>1. NoJob \in Job
  BY DeliveryParts DEF NoJob, Job
<1>2. QED
  BY <1>1, SomeChannel DEF IdleSender, Sender, Phase

LEMMA InitType == Init => TypeInv
<1> SUFFICES ASSUME Init
             PROVE  TypeInv
  OBVIOUS
<1>1. TypeOK
  <2>1. channel \in [Channels -> ChannelState] /\ links \in [Rules -> SUBSET Channels]
    BY DEF Init, ChannelState
  <2>2. delivery \in [Deliveries -> Delivery]
    BY DEF Init, Delivery
  <2>3. attempts \in [Deliveries -> [Channels -> Seq(Attempt)]]
    BY DEF Init
  <2>4. received \in [Deliveries -> [Channels -> 0..2]]
    BY DEF Init
  <2>5. sender \in [Senders -> Sender]
    BY NoJobTypes DEF Init
  <2>6. crashes \in 0..MaxCrashes
    BY ConstantsAssumption DEF Init
  <2>7. reconfigured \in BOOLEAN
    BY DEF Init
  <2>8. contended \subseteq Deliveries
    BY DEF Init
  <2>9. QED
    BY <2>1, <2>2, <2>3, <2>4, <2>5, <2>6, <2>7, <2>8 DEF TypeOK
<1>2. \A d \in Deliveries, c \in Channels : AttemptNumbers(d, c) = {}
  BY DEF Init, AttemptNumbers
<1>3. NumbersBounded
  BY <1>2 DEF NumbersBounded
<1>4. JobsNumbered
  BY DEF Init, IdleSender, JobsNumbered, Sending
<1>5. QED
  BY <1>1, <1>3, <1>4 DEF TypeInv

LEMMA ReadJobType ==
  ASSUME TypeInv, NEW d \in Deliveries
  PROVE  ReadJob(d) \in Job /\ ReadJob(d).attempt > 0 /\ ReadJob(d).delivery = d
<1>1. EnabledChannels(RuleOf(d)) \subseteq Channels
  BY DeliveryParts DEF EnabledChannels, TypeInv, TypeOK
<1>2. AttemptNumber(d) \in Nat \ {0}
  BY NewNumberIsGreater
<1>3. QED
  BY <1>1, <1>2 DEF ReadJob, Job

-----------------------------------------------------------------------------
(* What the steps of a sender do. *)

\* The parts of a job that do not change while it is delivered.
JobKept(s) ==
  /\ sender'[s].batch = sender[s].batch
  /\ sender'[s].job.delivery = sender[s].job.delivery
  /\ sender'[s].job.enabled = sender[s].job.enabled
  /\ sender'[s].job.done = sender[s].job.done
  /\ sender'[s].job.attempt = sender[s].job.attempt
OthersKept(s) == \A t \in Senders : t # s => sender'[t] = sender[t]

LEMMA SenderTypes ==
  ASSUME TypeOK, NEW s \in Senders
  PROVE  /\ sender \in [Senders -> Sender] /\ sender[s] \in Sender
         /\ sender[s].job \in Job /\ sender[s].channel \in Channels
         /\ sender[s].job.delivery \in Deliveries
         /\ sender[s].job.attempt \in Nat
         /\ \A job \in sender[s].batch :
              job \in Job /\ job.delivery \in Deliveries /\ job.attempt \in Nat
BY DEF TypeOK, Sender, Job

LEMMA SendSucceedsMoves ==
  ASSUME TypeOK, NEW s \in Senders, NEW c \in Channels, SendSucceeds(s, c)
  PROVE  /\ sender' \in [Senders -> Sender] /\ OthersKept(s) /\ JobKept(s)
         /\ sender[s].phase = "send" /\ c \in sender[s].todo
         /\ sender'[s].phase = "recordSuccess" /\ sender'[s].channel = c
         /\ sender'[s].todo = sender[s].todo \ {c}
         /\ sender'[s].job.failed = sender[s].job.failed \ {c}
<1> DEFINE new == [sender[s] EXCEPT !.phase = "recordSuccess", !.channel = c,
                                    !.todo = @ \ {c}, !.job.failed = @ \ {c}]
<1>0. sender' = [sender EXCEPT ![s] = new]
  <2>1. sender \in [Senders -> Sender] /\ sender[s] \in Sender
    BY SenderTypes
  <2>2. QED
    BY <2>1, ZenonT(30) DEF SendSucceeds
<1>1. sender[s].phase = "send" /\ c \in sender[s].todo
  BY DEF SendSucceeds, NextToSend
<1>2. new \in Sender
  <2>1. c \in Channels /\ sender[s].todo \ {c} \in SUBSET Channels
    BY <1>1, SenderTypes DEF Sender
  <2>2. [sender[s].job EXCEPT !.failed = @ \ {c}] \in Job
    BY <2>1, SenderTypes DEF Job
  <2>3. QED
    BY <2>1, <2>2, SenderTypes DEF Sender, Phase
<1>3. /\ new.phase = "recordSuccess" /\ new.channel = c /\ new.todo = sender[s].todo \ {c}
      /\ new.batch = sender[s].batch /\ new.job = [sender[s].job EXCEPT !.failed = @ \ {c}]
  BY SenderTypes DEF Sender
<1>4. /\ new.job.delivery = sender[s].job.delivery /\ new.job.enabled = sender[s].job.enabled
      /\ new.job.done = sender[s].job.done /\ new.job.attempt = sender[s].job.attempt
      /\ new.job.failed = sender[s].job.failed \ {c}
  BY <1>3, SenderTypes DEF Job
<1> HIDE DEF new
<1>5. QED
  BY <1>0, <1>1, <1>2, <1>3, <1>4, SenderTypes DEF OthersKept, JobKept

LEMMA SendThrowsMoves ==
  ASSUME TypeOK, NEW s \in Senders, NEW c \in Channels, SendThrows(s, c)
  PROVE  /\ sender' \in [Senders -> Sender] /\ OthersKept(s) /\ JobKept(s)
         /\ sender[s].phase = "send" /\ c \in sender[s].todo
         /\ sender'[s].phase = "recordFailure" /\ sender'[s].channel = c
         /\ sender'[s].todo = sender[s].todo \ {c}
         /\ sender'[s].job.failed = sender[s].job.failed \cup {c}
<1> DEFINE new == [sender[s] EXCEPT !.phase = "recordFailure", !.channel = c,
                                    !.todo = @ \ {c}, !.job.failed = @ \cup {c}]
<1>0. sender' = [sender EXCEPT ![s] = new]
  <2>1. sender \in [Senders -> Sender] /\ sender[s] \in Sender
    BY SenderTypes
  <2>2. QED
    BY <2>1, ZenonT(30) DEF SendThrows
<1>1. sender[s].phase = "send" /\ c \in sender[s].todo
  BY DEF SendThrows, NextToSend
<1>2. new \in Sender
  <2>1. c \in Channels /\ sender[s].todo \ {c} \in SUBSET Channels
    BY <1>1, SenderTypes DEF Sender
  <2>2. [sender[s].job EXCEPT !.failed = @ \cup {c}] \in Job
    BY <2>1, SenderTypes DEF Job
  <2>3. QED
    BY <2>1, <2>2, SenderTypes DEF Sender, Phase
<1>3. /\ new.phase = "recordFailure" /\ new.channel = c /\ new.todo = sender[s].todo \ {c}
      /\ new.batch = sender[s].batch /\ new.job = [sender[s].job EXCEPT !.failed = @ \cup {c}]
  BY SenderTypes DEF Sender
<1>4. /\ new.job.delivery = sender[s].job.delivery /\ new.job.enabled = sender[s].job.enabled
      /\ new.job.done = sender[s].job.done /\ new.job.attempt = sender[s].job.attempt
      /\ new.job.failed = sender[s].job.failed \cup {c}
  BY <1>3, SenderTypes DEF Job
<1> HIDE DEF new
<1>5. QED
  BY <1>0, <1>1, <1>2, <1>3, <1>4, SenderTypes DEF OthersKept, JobKept

LEMMA RecordSuccessThrowsMoves ==
  ASSUME TypeOK, NEW s \in Senders, RecordSuccessThrows(s)
  PROVE  /\ sender' \in [Senders -> Sender] /\ OthersKept(s) /\ JobKept(s)
         /\ sender[s].phase = "recordSuccess" /\ sender'[s].phase = "recordFailure"
         /\ sender'[s].channel = sender[s].channel /\ sender'[s].todo = sender[s].todo
         /\ sender'[s].job.failed = sender[s].job.failed \cup {sender[s].channel}
<1> DEFINE new == [sender[s] EXCEPT !.phase = "recordFailure",
                                    !.job.failed = @ \cup {sender[s].channel}]
<1>1. sender' = [sender EXCEPT ![s] = new] /\ sender[s].phase = "recordSuccess"
  BY SenderTypes DEF RecordSuccessThrows
<1>2. new \in Sender
  <2>1. sender[s].job.failed \cup {sender[s].channel} \in SUBSET Channels
    BY SenderTypes DEF Job
  <2>2. [sender[s].job EXCEPT !.failed = @ \cup {sender[s].channel}] \in Job
    BY <2>1, SenderTypes DEF Job
  <2>3. QED
    BY <2>2, SenderTypes DEF Sender, Phase
<1>3. QED
  BY <1>1, <1>2, SenderTypes DEF OthersKept, JobKept, Sender, Job

LEMMA NextChannelMoves ==
  ASSUME TypeOK, NEW s \in Senders, NextChannel(s)
  PROVE  /\ sender' \in [Senders -> Sender] /\ OthersKept(s) /\ JobKept(s)
         /\ sender'[s].phase = IF sender[s].todo = {} THEN "finish" ELSE "send"
         /\ sender'[s].channel = sender[s].channel /\ sender'[s].todo = sender[s].todo
         /\ sender'[s].job.failed = sender[s].job.failed
<1> DEFINE new == [sender[s] EXCEPT !.phase = IF sender[s].todo = {} THEN "finish" ELSE "send"]
<1>1. sender' = [sender EXCEPT ![s] = new]
  BY SenderTypes DEF NextChannel
<1>2. new \in Sender
  BY SenderTypes DEF Sender, Phase
<1>3. QED
  BY <1>1, <1>2, SenderTypes DEF OthersKept, JobKept, Sender, Job

LEMMA BeginDeliveryMoves ==
  ASSUME TypeOK, NEW s \in Senders, NEW job \in sender[s].batch, BeginDelivery(s, job)
  PROVE  /\ sender' \in [Senders -> Sender] /\ OthersKept(s)
         /\ sender'[s].phase = "send" /\ sender'[s].job = job
         /\ sender'[s].todo = job.enabled \ job.done
         /\ sender'[s].batch = sender[s].batch \ {job}
<1> DEFINE new == [sender[s] EXCEPT !.phase = "send", !.job = job, !.todo = ToSend(job),
                                    !.batch = @ \ {job}]
<1>1. sender' = [sender EXCEPT ![s] = new]
  BY SenderTypes DEF BeginDelivery
<1>2. new \in Sender
  BY SenderTypes DEF Sender, Phase, Job, ToSend
<1>3. QED
  BY <1>1, <1>2, SenderTypes DEF OthersKept, Sender, ToSend

LEMMA NextDeliveryMoves ==
  ASSUME TypeOK, NEW s \in Senders, NEW batch \in SUBSET Job, NextDelivery(s, batch)
  PROVE  /\ sender' \in [Senders -> Sender] /\ OthersKept(s)
         /\ sender'[s].phase \in {"idle", "delivering"} /\ sender'[s].batch = batch
<1> DEFINE new == IF batch = {} THEN IdleSender
                  ELSE [IdleSender EXCEPT !.phase = "delivering", !.batch = batch]
<1>1. sender' = [sender EXCEPT ![s] = new]
  BY DEF NextDelivery
<1>2. new \in Sender /\ new.batch = batch /\ new.phase \in {"idle", "delivering"}
  <2>1. IdleSender.batch = {} /\ IdleSender.phase = "idle"
    BY DEF IdleSender
  <2>2. QED
    BY <2>1, NoJobTypes DEF Sender, Phase
<1>3. QED
  BY <1>1, <1>2, SenderTypes DEF OthersKept

LEMMA ReadPendingMoves ==
  ASSUME TypeInv, NEW s \in Senders, ReadPending(s)
  PROVE  /\ sender' \in [Senders -> Sender] /\ OthersKept(s)
         /\ sender'[s].phase \in {"idle", "delivering"}
         /\ \A job \in sender'[s].batch :
              \E d \in Deliveries : Due(d) /\ job = ReadJob(d)
         /\ contended \subseteq contended' /\ contended' \subseteq Deliveries
         /\ \A job \in sender'[s].batch : InHand(s, job.delivery) => job.delivery \in contended'
<1>1. PICK batch : /\ NextDelivery(s, batch)
                   /\ \A job \in batch : \E d \in Deliveries : Due(d) /\ job = ReadJob(d)
                   /\ contended' = contended \cup
                        {job.delivery : job \in {j \in batch : InHand(s, j.delivery)}}
  <2> DEFINE batch == {ReadJob(d) : d \in {e \in (IF sender[s].phase = "idle" THEN Deliveries
                                                  ELSE sender[s].ids) : Due(e)}}
  <2>1. /\ NextDelivery(s, batch)
        /\ contended' = contended \cup
             {job.delivery : job \in {j \in batch : InHand(s, j.delivery)}}
    BY DEF ReadPending, NextDelivery
  <2>2. sender[s].ids \subseteq Deliveries
    BY SenderTypes DEF TypeInv, Sender
  <2>3. \A job \in batch : \E d \in Deliveries : Due(d) /\ job = ReadJob(d)
    BY <2>2
  <2>4. QED
    BY <2>1, <2>3
<1>2. batch \in SUBSET Job
  BY <1>1, ReadJobType
<1>3. /\ sender' \in [Senders -> Sender] /\ OthersKept(s)
      /\ sender'[s].phase \in {"idle", "delivering"} /\ sender'[s].batch = batch
  BY <1>1, <1>2, NextDeliveryMoves DEF TypeInv
<1>4. contended' \subseteq Deliveries
  BY <1>1, <1>2 DEF TypeInv, TypeOK, Job
<1>5. QED
  BY <1>1, <1>3, <1>4

LEMMA SenderResets ==
  ASSUME TypeOK, NEW s \in Senders, sender' = [sender EXCEPT ![s] = IdleSender]
  PROVE  /\ sender' \in [Senders -> Sender] /\ OthersKept(s)
         /\ sender'[s].phase = "idle" /\ sender'[s].batch = {}
BY SenderTypes, NoJobTypes DEF OthersKept, IdleSender

\* What is derived from the attempts of one delivery and channel.
LEMMA SameAttempts ==
  ASSUME NEW d, NEW c, attempts'[d][c] = attempts[d][c]
  PROVE  /\ AttemptNumbers(d, c)' = AttemptNumbers(d, c)
         /\ EverDelivered(d, c)' = EverDelivered(d, c)
         /\ LatestDelivered(d, c)' = LatestDelivered(d, c)
         /\ Attempted(d, c)' = Attempted(d, c)
BY DEF AttemptNumbers, EverDelivered, LatestDelivered, Attempted, Last

LEMMA NoAttempts ==
  ASSUME NEW d, NEW c, attempts[d][c] = <<>>
  PROVE  /\ AttemptNumbers(d, c) = {} /\ ~EverDelivered(d, c)
         /\ ~LatestDelivered(d, c) /\ ~Attempted(d, c)
BY DEF AttemptNumbers, EverDelivered, LatestDelivered, Attempted

LEMMA LatestIsRecorded ==
  ASSUME TypeOK, NEW d \in Deliveries, NEW c \in Channels, LatestDelivered(d, c)
  PROVE  EverDelivered(d, c)
<1>1. attempts[d][c] \in Seq(Attempt) /\ attempts[d][c] # <<>>
  BY NumberTypes DEF LatestDelivered, Attempted
<1>2. Len(attempts[d][c]) \in 1..Len(attempts[d][c])
  BY <1>1
<1>3. QED
  BY <1>1, <1>2 DEF LatestDelivered, EverDelivered, Last

LEMMA NumbersAfterAppend ==
  ASSUME NEW seq \in Seq(Attempt), NEW new \in Attempt
  PROVE  {Append(seq, new)[i].attempt : i \in 1..Len(Append(seq, new))}
           = {seq[i].attempt : i \in 1..Len(seq)} \cup {new.attempt}
<1> DEFINE after == Append(seq, new)
           Numbers == {seq[i].attempt : i \in 1..Len(seq)}
           NumbersAfter == {after[i].attempt : i \in 1..Len(after)}
<1>1. /\ Len(seq) \in Nat /\ Len(after) = Len(seq) + 1
      /\ \A i \in 1..Len(seq) : after[i] = seq[i]
      /\ after[Len(seq) + 1] = new
  OBVIOUS
<1>2. ASSUME NEW x \in NumbersAfter
      PROVE  x \in Numbers \cup {new.attempt}
  <2>1. PICK i \in 1..Len(after) : x = after[i].attempt
    OBVIOUS
  <2>2. i \in 1..Len(seq) \/ i = Len(seq) + 1
    BY <1>1, <2>1
  <2>3. QED
    BY <1>1, <2>1, <2>2
<1>3. ASSUME NEW x \in Numbers
      PROVE  x \in NumbersAfter
  <2>1. PICK i \in 1..Len(seq) : x = seq[i].attempt
    OBVIOUS
  <2>2. i \in 1..Len(after) /\ after[i] = seq[i]
    BY <1>1, <2>1
  <2>3. QED
    BY <2>1, <2>2
<1>4. new.attempt \in NumbersAfter
  <2>1. Len(seq) + 1 \in 1..Len(after)
    BY <1>1
  <2>2. QED
    BY <1>1, <2>1
<1>5. QED
  BY <1>2, <1>3, <1>4

\* The number of an attempt is added to those on record.
LEMMA RecordedNumbers ==
  ASSUME NEW d, NEW c, NEW new \in Attempt, attempts[d][c] \in Seq(Attempt),
         attempts'[d][c] = Append(attempts[d][c], new)
  PROVE  AttemptNumbers(d, c)' = AttemptNumbers(d, c) \cup {new.attempt}
<1> DEFINE old == attempts[d][c]
<1>1. {Append(old, new)[i].attempt : i \in 1..Len(Append(old, new))}
          = {old[i].attempt : i \in 1..Len(old)} \cup {new.attempt}
  BY NumbersAfterAppend
<1>2. AttemptNumbers(d, c)' = {Append(old, new)[i].attempt : i \in 1..Len(Append(old, new))}
  BY DEF AttemptNumbers
<1>3. AttemptNumbers(d, c) = {old[i].attempt : i \in 1..Len(old)}
  BY DEF AttemptNumbers
<1> HIDE DEF old
<1>4. QED
  BY <1>1, <1>2, <1>3

LEMMA RecordMoves ==
  ASSUME TypeOK, NEW d \in Deliveries, NEW c \in Channels, NEW new \in Attempt,
         attempts' = [attempts EXCEPT ![d][c] = Append(@, new)]
  PROVE  /\ attempts' \in [Deliveries -> [Channels -> Seq(Attempt)]]
         /\ \A e \in Deliveries, f \in Channels :
              e # d \/ f # c => attempts'[e][f] = attempts[e][f]
         /\ AttemptNumbers(d, c)' = AttemptNumbers(d, c) \cup {new.attempt}
         /\ EverDelivered(d, c)' <=> (EverDelivered(d, c) \/ new.delivered)
         /\ Attempted(d, c)' /\ (LatestDelivered(d, c)' <=> new.delivered)
<1> DEFINE old == attempts[d][c]
<1>2. old \in Seq(Attempt) /\ attempts \in [Deliveries -> [Channels -> Seq(Attempt)]]
      /\ attempts[d] \in [Channels -> Seq(Attempt)]
  BY NumberTypes DEF TypeOK
<1>3. attempts' = [attempts EXCEPT ![d][c] = Append(old, new)]
  OBVIOUS
<1>4. Append(old, new) \in Seq(Attempt)
  BY <1>2
<1>5. [attempts[d] EXCEPT ![c] = Append(old, new)] \in [Channels -> Seq(Attempt)]
  BY <1>2, <1>4
<1>6. /\ attempts' \in [Deliveries -> [Channels -> Seq(Attempt)]]
      /\ \A e \in Deliveries, f \in Channels :
           e # d \/ f # c => attempts'[e][f] = attempts[e][f]
      /\ attempts'[d][c] = Append(old, new)
  <2> HIDE DEF old
  <2>1. attempts' = [attempts EXCEPT ![d] = [attempts[d] EXCEPT ![c] = Append(old, new)]]
    BY <1>2, <1>3
  <2>2. QED
    BY <1>2, <1>5, <2>1
<1> DEFINE n == Len(old)
<1>7. /\ n \in Nat /\ Len(attempts'[d][c]) = n + 1
      /\ \A i \in 1..n : attempts'[d][c][i] = old[i]
      /\ attempts'[d][c][n + 1] = new
  <2> HIDE DEF old
  <2>1. attempts'[d][c] = Append(old, new) /\ old \in Seq(Attempt) /\ new \in Attempt
    BY <1>2, <1>6
  <2>2. QED
    BY <2>1
<1>8. n \in Nat /\ 1..(n + 1) = (1..n) \cup {n + 1}
  <2> HIDE DEF n
  <2>1. QED
    BY <1>7
<1>9. AttemptNumbers(d, c)' = AttemptNumbers(d, c) \cup {new.attempt}
  BY <1>2, <1>6, RecordedNumbers
<1>10. EverDelivered(d, c)' <=> (EverDelivered(d, c) \/ new.delivered)
  <2>1. EverDelivered(d, c)' = \E i \in 1..(n + 1) : attempts'[d][c][i].delivered
    BY <1>7 DEF EverDelivered
  <2>2. EverDelivered(d, c) = \E i \in 1..n : old[i].delivered
    BY DEF EverDelivered
  <2> HIDE DEF old, n
  <2>3. QED
    BY <1>7, <1>8, <2>1, <2>2
<1>11. Attempted(d, c)' /\ (LatestDelivered(d, c)' <=> new.delivered)
  <2>1. Len(attempts'[d][c]) # 0 /\ Len(<<>>) = 0
    BY <1>7
  <2>2. Attempted(d, c)'
    BY <2>1 DEF Attempted
  <2>3. Last(attempts[d][c])' = new
    BY <1>7 DEF Last
  <2>4. QED
    BY <2>2, <2>3 DEF LatestDelivered
<1>12. QED
  BY <1>6, <1>9, <1>10, <1>11

\* What the statement that records an attempt appends, and where.
LEMMA Records ==
  ASSUME TypeInv, NEW s \in Senders, RecordSuccess(s) \/ RecordFailure(s)
  PROVE  \E d \in Deliveries, c \in Channels, new \in Attempt :
           /\ d = sender[s].job.delivery /\ c = sender[s].channel
           /\ new.attempt = sender[s].job.attempt
           /\ new.delivered <=> sender[s].phase = "recordSuccess"
           /\ attempts' = [attempts EXCEPT ![d][c] = Append(@, new)]
           /\ sender[s].phase \in {"recordSuccess", "recordFailure"} /\ NextChannel(s)
           /\ UNCHANGED <<channel, links, delivery, received, crashes, reconfigured, contended>>
<1>1. /\ sender[s].job.delivery \in Deliveries /\ sender[s].channel \in Channels
      /\ sender[s].job.attempt \in Nat
      /\ sender[s].phase \in Sending => sender[s].job.attempt > 0
  BY SenderTypes DEF TypeInv, JobsNumbered
<1>2. \A delivered \in BOOLEAN :
        sender[s].phase \in Sending
          => [attempt |-> sender[s].job.attempt, delivered |-> delivered] \in Attempt
  BY <1>1 DEF Attempt
<1>3. CASE RecordSuccess(s)
  <2>1. [attempt |-> sender[s].job.attempt, delivered |-> TRUE] \in Attempt
    BY <1>2, <1>3 DEF RecordSuccess, Sending
  <2>2. QED
    BY <1>1, <1>3, <2>1 DEF RecordSuccess, Record
<1>4. CASE RecordFailure(s)
  <2>1. [attempt |-> sender[s].job.attempt, delivered |-> FALSE] \in Attempt
    BY <1>2, <1>4 DEF RecordFailure, Sending
  <2>2. QED
    BY <1>1, <1>4, <2>1 DEF RecordFailure, Record
<1>5. QED
  BY <1>3, <1>4

-----------------------------------------------------------------------------
(* Type correctness. *)

\* Steps that record nothing, and begin no delivery but of a job that was read.
LEMMA NumbersKept ==
  ASSUME TypeInv, TypeOK',
         \A d \in Deliveries, c \in Channels : attempts'[d][c] \in {attempts[d][c], <<>>},
         \A s \in Senders :
           /\ \A job \in sender'[s].batch : job.attempt > 0
           /\ sender'[s].phase \in Sending => sender'[s].job.attempt > 0
  PROVE  TypeInv'
<1>1. \A d \in Deliveries, c \in Channels : AttemptNumbers(d, c)' \subseteq AttemptNumbers(d, c)
  <2> SUFFICES ASSUME NEW d \in Deliveries, NEW c \in Channels
               PROVE  AttemptNumbers(d, c)' \subseteq AttemptNumbers(d, c)
    OBVIOUS
  <2>1. CASE attempts'[d][c] = attempts[d][c]
    BY <2>1, SameAttempts
  <2>2. CASE attempts'[d][c] = <<>>
    BY <2>2 DEF AttemptNumbers
  <2>3. QED
    BY <2>1, <2>2
<1>2. NumbersBounded'
  BY <1>1 DEF TypeInv, NumbersBounded
<1>3. JobsNumbered'
  BY DEF JobsNumbered
<1>4. QED
  BY <1>2, <1>3 DEF TypeInv

LEMMA RecordType ==
  ASSUME TypeInv, NEW s \in Senders, RecordSuccess(s) \/ RecordFailure(s)
  PROVE  TypeInv'
<1> USE DEF TypeInv
<1>1. PICK d \in Deliveries, c \in Channels, new \in Attempt :
        /\ d = sender[s].job.delivery /\ c = sender[s].channel
        /\ new.attempt = sender[s].job.attempt
        /\ attempts' = [attempts EXCEPT ![d][c] = Append(@, new)]
        /\ sender[s].phase \in {"recordSuccess", "recordFailure"} /\ NextChannel(s)
        /\ UNCHANGED <<channel, links, delivery, received, crashes, reconfigured, contended>>
  BY Records
<1>2. sender[s].phase \in Sending
  BY <1>1 DEF Sending
<1>3. PICK n \in Nat : n = new.attempt /\ n = sender[s].job.attempt
  BY <1>1, SenderTypes
<1>4. /\ attempts' \in [Deliveries -> [Channels -> Seq(Attempt)]]
      /\ \A e \in Deliveries, f \in Channels :
           e # d \/ f # c => attempts'[e][f] = attempts[e][f]
      /\ AttemptNumbers(d, c)' = AttemptNumbers(d, c) \cup {n}
  <2>1. attempts' = [attempts EXCEPT ![d][c] = Append(@, new)] /\ TypeOK
    BY <1>1
  <2>2. attempts' \in [Deliveries -> [Channels -> Seq(Attempt)]]
    BY <2>1, RecordMoves
  <2>3. \A e \in Deliveries, f \in Channels :
             e # d \/ f # c => attempts'[e][f] = attempts[e][f]
    BY <2>1, RecordMoves
  <2>4. AttemptNumbers(d, c)' = AttemptNumbers(d, c) \cup {new.attempt}
    <3>1. attempts[d][c] \in Seq(Attempt) /\ attempts \in [Deliveries -> [Channels -> Seq(Attempt)]]
      BY NumberTypes DEF TypeOK
    <3>2. attempts'[d][c] = Append(attempts[d][c], new)
      BY <2>1, <3>1
    <3>3. QED
      BY <3>1, <3>2, RecordedNumbers
  <2>5. QED
    BY <1>3, <2>2, <2>3, <2>4
<1>5. sender' \in [Senders -> Sender] /\ OthersKept(s) /\ JobKept(s)
  BY <1>1, NextChannelMoves
<1>6. TypeOK'
  BY <1>1, <1>4, <1>5 DEF TypeOK
<1>7. NumbersBounded'
  <2> SUFFICES ASSUME NEW e \in Deliveries
               PROVE  \E k \in Nat : \A f \in Channels : \A m \in AttemptNumbers(e, f)' : m <= k
    BY DEF NumbersBounded
  <2>1. PICK k \in Nat : \A f \in Channels : \A m \in AttemptNumbers(e, f) : m <= k
    BY DEF NumbersBounded
  <2>2. \A f \in Channels : AttemptNumbers(e, f)' \subseteq AttemptNumbers(e, f) \cup {n}
    BY <1>4, SameAttempts
  <2>3. \A f \in Channels : \A m \in AttemptNumbers(e, f)' : m <= k + n
    BY <2>1, <2>2, NumberTypes
  <2>4. QED
    BY <2>3
<1>8. JobsNumbered'
  <2>1. sender[s].job.attempt > 0
    BY <1>2 DEF JobsNumbered
  <2>2. QED
    BY <1>5, <2>1 DEF JobsNumbered, OthersKept, JobKept
<1>9. QED
  BY <1>6, <1>7, <1>8

LEMMA SettleType ==
  ASSUME TypeOK, NEW d \in Deliveries, NEW status \in Status, Settle(d, status)
  PROVE  /\ delivery' \in [Deliveries -> Delivery] /\ delivery'[d].status = status
         /\ \A e \in Deliveries : e # d => delivery'[e] = delivery[e]
BY DEF TypeOK, Settle, Delivery

LEMMA SenderStepType ==
  ASSUME TypeInv, NEW s \in Senders, SenderStep(s) \/ Crash(s)
  PROVE  TypeInv'
<1> USE DEF TypeInv
<1>1. CASE ReadPending(s)
  <2>1. \A job \in sender'[s].batch : job.attempt > 0
    BY <1>1, ReadPendingMoves, ReadJobType
  <2>2. QED
    BY <1>1, <2>1, ReadPendingMoves, NumbersKept
       DEF ReadPending, TypeOK, OthersKept, JobsNumbered, Sending
<1>2. ASSUME NEW job \in sender[s].batch, SettleAtOnce(s, job)
      PROVE  TypeInv'
  <2>1. PICK status \in Status : Settle(job.delivery, status)
    BY <1>2 DEF SettleAtOnce, Status
  <2>2. delivery' \in [Deliveries -> Delivery]
    BY <2>1, SettleType, SenderTypes
  <2>3. /\ sender' \in [Senders -> Sender] /\ OthersKept(s)
        /\ sender'[s].phase \in {"idle", "delivering"}
        /\ sender'[s].batch = sender[s].batch \ {job}
    BY <1>2, NextDeliveryMoves, SenderTypes DEF SettleAtOnce, Sender
  <2>4. QED
    BY <1>2, <2>2, <2>3, NumbersKept DEF SettleAtOnce, TypeOK, OthersKept, JobsNumbered, Sending
<1>3. ASSUME NEW job \in sender[s].batch, BeginDelivery(s, job)
      PROVE  TypeInv'
  <2>1. \A t \in Senders : /\ \A j \in sender'[t].batch : j.attempt > 0
                           /\ sender'[t].phase \in Sending => sender'[t].job.attempt > 0
    BY <1>3, BeginDeliveryMoves DEF OthersKept, JobsNumbered
  <2>2. QED
    BY <1>3, <2>1, BeginDeliveryMoves, NumbersKept DEF BeginDelivery, TypeOK
<1>4. ASSUME NEW c \in Channels, SendSucceeds(s, c) \/ SendThrows(s, c)
      PROVE  TypeInv'
  <2>1. /\ sender' \in [Senders -> Sender] /\ OthersKept(s) /\ JobKept(s)
        /\ sender[s].phase = "send"
    BY <1>4, SendSucceedsMoves, SendThrowsMoves
  <2>2. received' \in [Deliveries -> [Channels -> 0..2]]
    <3>1. \A n \in 0..2 : (IF n = 2 THEN 2 ELSE n + 1) \in 0..2
      OBVIOUS
    <3>2. received \in [Deliveries -> [Channels -> 0..2]] /\ sender[s].job.delivery \in Deliveries
      BY SenderTypes DEF TypeOK
    <3>3. Arrives(sender[s].job.delivery, c) \/ received' = received
      BY <1>4 DEF SendSucceeds, SendThrows
    <3>4. QED
      BY <3>1, <3>2, <3>3 DEF Arrives
  <2>3. TypeOK'
    BY <1>4, <2>1, <2>2 DEF SendSucceeds, SendThrows, TypeOK
  <2>4. sender[s].job.attempt > 0
    BY <2>1 DEF JobsNumbered, Sending
  <2>5. QED
    BY <1>4, <2>1, <2>3, <2>4, NumbersKept
       DEF SendSucceeds, SendThrows, OthersKept, JobKept, JobsNumbered
<1>5. CASE RecordSuccess(s) \/ RecordFailure(s)
  BY <1>5, RecordType
<1>6. CASE RecordSuccessThrows(s)
  <2>1. sender[s].job.attempt > 0
    BY <1>6 DEF RecordSuccessThrows, JobsNumbered, Sending
  <2>2. QED
    BY <1>6, <2>1, RecordSuccessThrowsMoves, NumbersKept
       DEF RecordSuccessThrows, TypeOK, OthersKept, JobKept, JobsNumbered
<1>7. CASE Finish(s)
  <2>1. FinalStatus(sender[s].job) \in Status
    BY DEF FinalStatus, Status
  <2>2. delivery' \in [Deliveries -> Delivery]
    BY <1>7, <2>1, SettleType, SenderTypes DEF Finish
  <2>3. /\ sender' \in [Senders -> Sender] /\ OthersKept(s)
        /\ sender'[s].phase \in {"idle", "delivering"} /\ sender'[s].batch = sender[s].batch
    BY <1>7, NextDeliveryMoves, SenderTypes DEF Finish, Sender
  <2>4. QED
    BY <1>7, <2>2, <2>3, NumbersKept DEF Finish, TypeOK, OthersKept, JobsNumbered, Sending
<1>8. CASE Throws(s) \/ Crash(s)
  <2>1. crashes' \in 0..MaxCrashes
    BY <1>8, ConstantsAssumption DEF Throws, Crash, TypeOK
  <2>2. /\ sender' = [sender EXCEPT ![s] = IdleSender]
        /\ UNCHANGED <<channel, links, delivery, attempts, received, reconfigured, contended>>
    BY <1>8 DEF Throws, Crash
  <2>3. QED
    BY <2>1, <2>2, SenderResets, NumbersKept DEF TypeOK, OthersKept, JobsNumbered, Sending
<1>9. QED
  BY <1>1, <1>2, <1>3, <1>4, <1>5, <1>6, <1>7, <1>8 DEF SenderStep

LEMMA EnvironmentType ==
  ASSUME TypeInv, Evaluate \/ Administer \/ \E d \in Deliveries : DelayElapses(d)
  PROVE  TypeInv'
<1> USE DEF TypeInv
<1>0. \A t \in Senders : /\ \A j \in sender[t].batch : j.attempt > 0
                         /\ sender[t].phase \in Sending => sender[t].job.attempt > 0
  BY DEF JobsNumbered
<1>1. CASE Evaluate
  <2>1. PICK s \in Senders, run \in Runs, matching \in SUBSET Rules :
          CreateDeliveries(s, run, matching)
    BY <1>1 DEF Evaluate
  <2>2. delivery' \in [Deliveries -> Delivery]
    BY <2>1 DEF CreateDeliveries, TypeOK, Delivery, Status
  <2> DEFINE new == [sender[s] EXCEPT !.phase = "requested", !.ids = matching \X {run}]
  <2>3. sender' = [sender EXCEPT ![s] = new]
    BY <2>1, SenderTypes DEF CreateDeliveries
  <2>4. new \in Sender
    BY SenderTypes DEF Sender, Phase, Deliveries
  <2>5. TypeOK'
    BY <2>1, <2>2, <2>3, <2>4 DEF CreateDeliveries, TypeOK
  <2>6. new.batch = sender[s].batch /\ new.phase = "requested"
    BY SenderTypes DEF Sender
  <2>7. \A t \in Senders : /\ \A j \in sender'[t].batch : j.attempt > 0
                           /\ sender'[t].phase \in Sending => sender'[t].job.attempt > 0
    BY <1>0, <2>3, <2>6, SenderTypes DEF Sending
  <2>8. QED
    BY <2>1, <2>5, <2>7, NumbersKept DEF CreateDeliveries
<1>2. CASE \E d \in Deliveries : DelayElapses(d)
  <2>1. TypeOK'
    <3>1. PICK d \in Deliveries : DelayElapses(d)
      BY <1>2
    <3>2. delivery' \in [Deliveries -> Delivery]
      <4>1. delivery' = [delivery EXCEPT ![d].waiting = FALSE]
        BY <3>1 DEF DelayElapses
      <4>2. delivery \in [Deliveries -> Delivery] /\ delivery[d] \in Delivery
        BY DEF TypeOK
      <4>3. [delivery[d] EXCEPT !.waiting = FALSE] \in Delivery
        BY <4>2 DEF Delivery
      <4>4. QED
        BY <4>1, <4>2, <4>3
    <3>3. QED
      BY <3>1, <3>2 DEF DelayElapses, TypeOK
  <2>2. QED
    BY <1>0, <1>2, <2>1, NumbersKept DEF DelayElapses
<1>3. CASE \/ \E c \in Channels, state \in {"enabled", "disabled"} : SetChannelEnabled(c, state)
           \/ \E r \in Rules, channels \in SUBSET Channels : UpdateRule(r, channels)
  <2>1. TypeOK'
    <3>1. channel' \in [Channels -> ChannelState] /\ links' \in [Rules -> SUBSET Channels]
      <4>1. CASE \E c \in Channels, state \in {"enabled", "disabled"} : SetChannelEnabled(c, state)
        BY <4>1 DEF SetChannelEnabled, TypeOK, ChannelState
      <4>2. CASE \E r \in Rules, channels \in SUBSET Channels : UpdateRule(r, channels)
        BY <4>2 DEF UpdateRule, TypeOK
      <4>3. QED
        BY <1>3, <4>1, <4>2
    <3>2. UNCHANGED <<delivery, attempts, sender, received, crashes, contended>> /\ reconfigured' = TRUE
      BY <1>3 DEF SetChannelEnabled, UpdateRule
    <3>3. QED
      BY <3>1, <3>2 DEF TypeOK
  <2>2. QED
    BY <1>0, <1>3, <2>1, NumbersKept DEF SetChannelEnabled, UpdateRule
<1>4. ASSUME NEW c \in Channels, DeleteChannel(c)
      PROVE  TypeInv'
  <2>1. /\ channel' \in [Channels -> ChannelState] /\ links' \in [Rules -> SUBSET Channels]
    BY <1>4 DEF DeleteChannel, TypeOK, ChannelState
  <2>2. attempts' \in [Deliveries -> [Channels -> Seq(Attempt)]]
    BY <1>4 DEF DeleteChannel, TypeOK
  <2>3. TypeOK'
    BY <1>4, <2>1, <2>2 DEF DeleteChannel, TypeOK
  <2>4. \A d \in Deliveries, f \in Channels : attempts'[d][f] \in {attempts[d][f], <<>>}
    BY <1>4 DEF DeleteChannel, TypeOK
  <2>5. QED
    BY <1>0, <1>4, <2>3, <2>4, NumbersKept DEF DeleteChannel
<1>5. ASSUME NEW gone, RemoveDeliveries(gone)
      PROVE  TypeInv'
  <2>1. delivery' \in [Deliveries -> Delivery]
    BY <1>5 DEF RemoveDeliveries, TypeOK, Delivery
  <2>2. attempts' \in [Deliveries -> [Channels -> Seq(Attempt)]]
    BY <1>5 DEF RemoveDeliveries, TypeOK
  <2>3. TypeOK'
    BY <1>5, <2>1, <2>2 DEF RemoveDeliveries, TypeOK
  <2>4. \A d \in Deliveries, f \in Channels : attempts'[d][f] \in {attempts[d][f], <<>>}
    BY <1>5 DEF RemoveDeliveries, TypeOK
  <2>5. QED
    BY <1>0, <1>5, <2>3, <2>4, NumbersKept DEF RemoveDeliveries
<1>6. QED
  BY <1>1, <1>2, <1>3, <1>4, <1>5 DEF Administer, DeleteRule, ExpireRun

LEMMA NextType == TypeInv /\ [Next]_vars => TypeInv'
<1> SUFFICES ASSUME TypeInv, [Next]_vars
             PROVE  TypeInv'
  OBVIOUS
<1>1. CASE UNCHANGED vars
  <2>1. TypeOK'
    BY <1>1 DEF vars, TypeInv, TypeOK
  <2>2. NumbersBounded'
    <3>1. \A d \in Deliveries, c \in Channels : AttemptNumbers(d, c)' = AttemptNumbers(d, c)
      BY <1>1 DEF vars, AttemptNumbers
    <3>2. QED
      BY <3>1 DEF TypeInv, NumbersBounded
  <2>3. JobsNumbered'
    BY <1>1 DEF vars, TypeInv, JobsNumbered
  <2>4. QED
    BY <2>1, <2>2, <2>3 DEF TypeInv
<1>2. QED
  BY <1>1, SenderStepType, EnvironmentType DEF Next, Deliver

\* Every reachable state of the notification tables and of the senders is well typed,
\* and every attempt that is recorded has a number from one upwards.
THEOREM TypeCorrect == Spec => []TypeOK
<1>1. TypeInv => TypeOK
  BY DEF TypeInv
<1>2. QED
  BY <1>1, InitType, NextType, PTL DEF Spec

-----------------------------------------------------------------------------
(* DELIVERED means received. *)

\* A job names at least the channels that are still enabled, and those it takes for
\* done have received the notification.
JobHonest(job) ==
  /\ \A c \in Channels :
       c \in links[RuleOf(job.delivery)] /\ channel[c] = "enabled" => c \in job.enabled
  /\ \A c \in job.done : received[job.delivery][c] > 0

\* While a job is worked on, each of its channels is still to be sent to, has failed, or
\* has received the notification.
SenderHonest(s) ==
  /\ \A job \in sender[s].batch : JobHonest(job)
  /\ sender[s].phase \in Sending =>
       /\ JobHonest(sender[s].job)
       /\ \A c \in sender[s].job.enabled :
            \/ c \in sender[s].todo \cup sender[s].job.failed
            \/ received[sender[s].job.delivery][c] > 0
  /\ sender[s].phase = "recordSuccess" => received[sender[s].job.delivery][sender[s].channel] > 0
  /\ sender[s].phase = "finish" => sender[s].todo = {}

SuccessReceived ==
  \A d \in Deliveries, c \in Channels : EverDelivered(d, c) => received[d][c] > 0

ReceivedInv ==
  /\ SuccessReceived
  /\ \A s \in Senders : SenderHonest(s)
  /\ DeliveredMeansReceived

\* No message is taken back, and channels are only taken away.
Receives ==
  \A d \in Deliveries, c \in Channels : received[d][c] > 0 => received'[d][c] > 0
TakesAway ==
  \A r \in Rules, c \in Channels :
    c \in links'[r] /\ channel'[c] = "enabled" => c \in links[r] /\ channel[c] = "enabled"

LEMMA JobStaysHonest ==
  ASSUME Receives, TakesAway, NEW job \in Job, JobHonest(job)
  PROVE  JobHonest(job)'
<1>1. job.delivery \in Deliveries /\ RuleOf(job.delivery) \in Rules /\ job.done \subseteq Channels
  BY DeliveryParts DEF Job
<1>2. QED
  BY <1>1 DEF JobHonest, Receives, TakesAway

\* A sender that does not move stays honest.
LEMMA StaysHonest ==
  ASSUME TypeOK, Receives, TakesAway, NEW s \in Senders, SenderHonest(s),
         sender'[s].batch = sender[s].batch,
         sender'[s].phase = sender[s].phase \/ sender'[s].phase = "requested",
         sender'[s].job = sender[s].job, sender'[s].todo = sender[s].todo,
         sender'[s].channel = sender[s].channel
  PROVE  SenderHonest(s)'
<1>1. /\ sender[s].job \in Job /\ sender[s].job.delivery \in Deliveries
      /\ sender[s].channel \in Channels /\ sender[s].job.enabled \subseteq Channels
      /\ \A job \in sender[s].batch : job \in Job
  BY SenderTypes DEF Job
<1>2. PICK work \in Job : work = sender[s].job
  BY <1>1
<1>3. JobHonest(work) => JobHonest(work)'
  BY JobStaysHonest
<1>4. \A job \in sender[s].batch : JobHonest(job)'
  <2> SUFFICES ASSUME NEW job \in sender[s].batch
               PROVE  JobHonest(job)'
    OBVIOUS
  <2>1. job \in Job /\ JobHonest(job)
    BY <1>1 DEF SenderHonest
  <2>2. QED
    BY <2>1, JobStaysHonest
<1>5. \A job \in sender'[s].batch : JobHonest(job)'
  BY <1>4
<1>6. sender'[s].phase \in Sending =>
       /\ JobHonest(work)'
       /\ \A c \in work.enabled :
            \/ c \in sender'[s].todo \cup work.failed
            \/ received'[work.delivery][c] > 0
  BY <1>1, <1>2, <1>3 DEF SenderHonest, Receives, Sending
<1>7. sender'[s].phase = "recordSuccess" => received'[work.delivery][sender'[s].channel] > 0
  BY <1>1, <1>2 DEF SenderHonest, Receives
<1>8. sender'[s].phase = "finish" => sender'[s].todo = {}
  BY DEF SenderHonest
<1>9. QED
  BY <1>2, <1>5, <1>6, <1>7, <1>8 DEF SenderHonest

\* Rows that were not settled as DELIVERED by this step stay as good as they were.
LEMMA RowsStayReceived ==
  ASSUME TypeOK, TypeOK', Receives, TakesAway, DeliveredMeansReceived,
         NEW d \in Deliveries, delivery'[d].status = "DELIVERED",
         delivery[d].status = "DELIVERED"
  PROVE  \A c \in EnabledChannels(RuleOf(d))' : received'[d][c] > 0
<1>1. RuleOf(d) \in Rules /\ links[RuleOf(d)] \subseteq Channels
  BY DeliveryParts DEF TypeOK
<1>2. \A c \in EnabledChannels(RuleOf(d)) : received[d][c] > 0
  BY DEF DeliveredMeansReceived
<1>3. ASSUME NEW c \in Channels, c \in links'[RuleOf(d)], channel'[c] = "enabled"
      PROVE  received'[d][c] > 0
  <2>1. c \in EnabledChannels(RuleOf(d))
    BY <1>1, <1>3 DEF TakesAway, EnabledChannels
  <2>2. QED
    BY <1>2, <2>1 DEF Receives
<1>4. links'[RuleOf(d)] \subseteq Channels
  BY <1>1 DEF TypeOK
<1>5. QED
  BY <1>3, <1>4 DEF EnabledChannels

LEMMA ReadJobHonest ==
  ASSUME TypeOK, SuccessReceived, NEW d \in Deliveries
  PROVE  JobHonest(ReadJob(d))
<1>1. /\ ReadJob(d).delivery = d
      /\ ReadJob(d).enabled = EnabledChannels(RuleOf(d))
      /\ \A c \in ReadJob(d).done : c \in Channels /\ LatestDelivered(d, c)
  BY DEF ReadJob
<1>2. \A c \in ReadJob(d).done : received[d][c] > 0
  BY <1>1, LatestIsRecorded DEF SuccessReceived
<1>3. QED
  BY <1>1, <1>2 DEF JobHonest, EnabledChannels

\* Steps that change neither attempts nor channels, receive at most more, and settle
\* nothing as DELIVERED, keep the invariant if the sender that moves stays honest.
LEMMA SenderMoveReceives ==
  ASSUME TypeInv, ReceivedInv, Receives, NEW s \in Senders,
         UNCHANGED <<channel, links>>, OthersKept(s), SuccessReceived',
         \A d \in Deliveries :
           \/ delivery'[d].status = "DELIVERED" => delivery[d].status = "DELIVERED"
           \/ \A c \in EnabledChannels(RuleOf(d)) : received[d][c] > 0,
         SenderHonest(s)'
  PROVE  ReceivedInv'
<1>1. TakesAway
  BY DEF TakesAway
<1>2. \A t \in Senders : SenderHonest(t)'
  <2> SUFFICES ASSUME NEW t \in Senders, t # s
               PROVE  SenderHonest(t)'
    OBVIOUS
  <2>1. SenderHonest(t) /\ sender'[t] = sender[t]
    BY DEF ReceivedInv, OthersKept
  <2>2. QED
    BY <1>1, <2>1, StaysHonest DEF TypeInv
<1>3. ASSUME NEW d \in Deliveries, delivery'[d].status = "DELIVERED"
      PROVE  \A c \in EnabledChannels(RuleOf(d))' : received'[d][c] > 0
  <2>1. EnabledChannels(RuleOf(d))' = EnabledChannels(RuleOf(d))
    BY DEF EnabledChannels
  <2>2. EnabledChannels(RuleOf(d)) \subseteq Channels
    BY DeliveryParts DEF EnabledChannels, TypeInv, TypeOK
  <2>3. \A c \in EnabledChannels(RuleOf(d)) : received[d][c] > 0
    BY <1>3 DEF ReceivedInv, DeliveredMeansReceived
  <2>4. QED
    BY <2>1, <2>2, <2>3 DEF Receives
<1>4. DeliveredMeansReceived'
  BY <1>3 DEF DeliveredMeansReceived
<1>5. QED
  BY <1>2, <1>4 DEF ReceivedInv

\* A sender that is between deliveries has nothing to answer for but its batch.
LEMMA BetweenDeliveries ==
  ASSUME TypeOK, NEW s \in Senders, UNCHANGED <<channel, links, received>>,
         sender'[s].phase \in {"idle", "delivering"},
         \A job \in sender'[s].batch : JobHonest(job)
  PROVE  SenderHonest(s)'
<1>1. \A job \in sender'[s].batch : JobHonest(job)'
  <2> SUFFICES ASSUME NEW job \in sender'[s].batch
               PROVE  JobHonest(job)'
    OBVIOUS
  <2>1. JobHonest(job)
    OBVIOUS
  <2>2. QED
    BY <2>1 DEF JobHonest
<1>2. QED
  BY <1>1 DEF SenderHonest, Sending

LEMMA SendsReceive ==
  ASSUME TypeInv, ReceivedInv, NEW s \in Senders, NEW c \in Channels,
         SendSucceeds(s, c) \/ SendThrows(s, c)
  PROVE  ReceivedInv'
<1> USE DEF TypeInv
<1>1. /\ OthersKept(s) /\ JobKept(s) /\ sender[s].phase = "send" /\ c \in sender[s].todo
      /\ sender'[s].channel = c /\ sender'[s].todo = sender[s].todo \ {c}
  BY SendSucceedsMoves, SendThrowsMoves
<1>2. PICK d \in Deliveries : d = sender[s].job.delivery
  BY SenderTypes
<1>3. \/ received' = [received EXCEPT ![d][c] = IF @ = 2 THEN 2 ELSE @ + 1]
      \/ received' = received /\ SendThrows(s, c)
  BY <1>2 DEF SendSucceeds, SendThrows, Arrives
<1>4. Receives /\ (SendSucceeds(s, c) => received'[d][c] > 0)
  <2>1. received \in [Deliveries -> [Channels -> 0..2]]
    BY DEF TypeOK
  <2>2. CASE received' = [received EXCEPT ![d][c] = IF @ = 2 THEN 2 ELSE @ + 1]
    <3>1. /\ received'[d][c] = IF received[d][c] = 2 THEN 2 ELSE received[d][c] + 1
          /\ \A e \in Deliveries, f \in Channels :
               e # d \/ f # c => received'[e][f] = received[e][f]
      BY <2>1, <2>2
    <3>2. received[d][c] \in 0..2
      BY <2>1
    <3>3. received'[d][c] > 0
      BY <3>1, <3>2
    <3>4. QED
      BY <3>1, <3>3 DEF Receives
  <2>3. CASE received' = received /\ SendThrows(s, c)
    <3>1. ~SendSucceeds(s, c)
      <4>1. SendSucceeds(s, c) => sender'[s].phase = "recordSuccess"
        BY SendSucceedsMoves
      <4>2. sender'[s].phase = "recordFailure"
        BY <2>3, SendThrowsMoves
      <4>3. QED
        BY <4>1, <4>2
    <3>2. QED
      BY <2>3, <3>1 DEF Receives
  <2>4. QED
    BY <1>3, <2>2, <2>3
<1>5. UNCHANGED <<channel, links, delivery, attempts>>
  BY DEF SendSucceeds, SendThrows
<1>6. SuccessReceived'
  BY <1>4, <1>5, SameAttempts DEF ReceivedInv, SuccessReceived, Receives
<1>7. SenderHonest(s)'
  <2>1. SenderHonest(s) /\ sender[s].phase \in Sending /\ TakesAway
    BY <1>1, <1>5 DEF ReceivedInv, Sending, TakesAway
  <2>2. \A job \in sender'[s].batch : JobHonest(job)'
    <3> SUFFICES ASSUME NEW job \in sender[s].batch
                 PROVE  JobHonest(job)'
      BY <1>1 DEF JobKept
    <3>1. job \in Job /\ JobHonest(job)
      BY <2>1, SenderTypes DEF SenderHonest
    <3>2. QED
      BY <1>4, <2>1, <3>1, JobStaysHonest
  <2>3. JobHonest(sender[s].job) /\ sender[s].job \in Job /\ sender[s].job.enabled \subseteq Channels
        /\ sender[s].job.done \subseteq Channels
    BY <2>1, SenderTypes DEF SenderHonest, Job
  <2>4. /\ \A f \in Channels : f \in links'[RuleOf(d)] /\ channel'[f] = "enabled"
                                 => f \in sender'[s].job.enabled
        /\ \A f \in sender'[s].job.done : received'[d][f] > 0
    BY <1>1, <1>2, <1>4, <1>5, <2>3 DEF JobHonest, JobKept, Receives
  <2>5. \A f \in sender[s].job.enabled : \/ f \in sender'[s].todo \cup sender'[s].job.failed
                                         \/ received'[d][f] > 0
    <3> SUFFICES ASSUME NEW f \in sender[s].job.enabled
                 PROVE  \/ f \in sender'[s].todo \cup sender'[s].job.failed
                        \/ received'[d][f] > 0
      OBVIOUS
    <3>1. f \in sender[s].todo \cup sender[s].job.failed \/ received[d][f] > 0
      BY <1>2, <2>1 DEF SenderHonest
    <3>2. CASE SendSucceeds(s, c)
      BY <1>1, <1>4, <2>3, <3>1, <3>2, SendSucceedsMoves DEF Receives
    <3>3. CASE SendThrows(s, c)
      BY <1>1, <1>4, <2>3, <3>1, <3>3, SendThrowsMoves DEF Receives
    <3>4. QED
      BY <3>2, <3>3
  <2>6. /\ sender'[s].phase = "recordSuccess" => received'[d][c] > 0
        /\ sender'[s].phase # "finish"
    BY <1>4, SendSucceedsMoves, SendThrowsMoves
  <2>7. QED
    BY <1>1, <1>2, <2>2, <2>4, <2>5, <2>6 DEF SenderHonest, JobHonest, JobKept
<1>8. QED
  BY <1>1, <1>4, <1>5, <1>6, <1>7, SenderMoveReceives

LEMMA RecordsReceive ==
  ASSUME TypeInv, ReceivedInv, NEW s \in Senders, RecordSuccess(s) \/ RecordFailure(s)
  PROVE  ReceivedInv'
<1> USE DEF TypeInv
<1>1. PICK d \in Deliveries, c \in Channels, new \in Attempt :
        /\ d = sender[s].job.delivery /\ c = sender[s].channel
        /\ new.delivered <=> sender[s].phase = "recordSuccess"
        /\ attempts' = [attempts EXCEPT ![d][c] = Append(@, new)]
        /\ sender[s].phase \in {"recordSuccess", "recordFailure"} /\ NextChannel(s)
        /\ UNCHANGED <<channel, links, delivery, received, crashes, reconfigured>>
  BY Records
<1>2. Receives /\ TakesAway /\ SenderHonest(s) /\ sender[s].phase \in Sending
  BY <1>1 DEF Receives, TakesAway, ReceivedInv, Sending
<1>3. /\ OthersKept(s) /\ JobKept(s)
      /\ sender'[s].phase = IF sender[s].todo = {} THEN "finish" ELSE "send"
      /\ sender'[s].channel = sender[s].channel /\ sender'[s].todo = sender[s].todo
      /\ sender'[s].job.failed = sender[s].job.failed
  BY <1>1, NextChannelMoves
<1>4. SuccessReceived'
  <2>1. attempts' = [attempts EXCEPT ![d][c] = Append(@, new)] /\ TypeOK
    BY <1>1
  <2>2. /\ \A e \in Deliveries, f \in Channels :
             e # d \/ f # c => attempts'[e][f] = attempts[e][f]
        /\ EverDelivered(d, c)' => (EverDelivered(d, c) \/ new.delivered)
    BY <2>1, RecordMoves
  <2>3. new.delivered => received[d][c] > 0
    BY <1>1, <1>2 DEF SenderHonest
  <2>4. EverDelivered(d, c)' => received[d][c] > 0
    BY <2>2, <2>3 DEF ReceivedInv, SuccessReceived
  <2>5. ASSUME NEW e \in Deliveries, NEW f \in Channels, EverDelivered(e, f)'
        PROVE  received[e][f] > 0
    <3>1. CASE e = d /\ f = c
      BY <2>4, <2>5, <3>1
    <3>2. CASE e # d \/ f # c
      <4>1. attempts'[e][f] = attempts[e][f]
        BY <2>2, <3>2
      <4>2. EverDelivered(e, f)
        BY <2>5, <4>1, SameAttempts
      <4>3. QED
        BY <4>2 DEF ReceivedInv, SuccessReceived
    <3>3. QED
      BY <3>1, <3>2
  <2>6. QED
    BY <1>1, <2>5 DEF SuccessReceived
<1>5. SenderHonest(s)'
  <2>1. \A job \in sender'[s].batch : JobHonest(job)'
    <3> SUFFICES ASSUME NEW job \in sender[s].batch
                 PROVE  JobHonest(job)'
      BY <1>3 DEF JobKept
    <3>1. job \in Job /\ JobHonest(job)
      BY <1>2, SenderTypes DEF SenderHonest
    <3>2. QED
      BY <1>2, <3>1, JobStaysHonest
  <2>2. JobHonest(sender[s].job)
    BY <1>2 DEF SenderHonest
  <2>3. \A f \in sender'[s].job.enabled : \/ f \in sender'[s].todo \cup sender'[s].job.failed
                                          \/ received'[sender'[s].job.delivery][f] > 0
    BY <1>1, <1>2, <1>3 DEF SenderHonest, JobKept
  <2>4. QED
    BY <1>1, <1>3, <2>1, <2>2, <2>3 DEF SenderHonest, JobHonest, JobKept
<1>6. QED
  BY <1>1, <1>2, <1>3, <1>4, <1>5, SenderMoveReceives

\* Nothing that was sent, and nothing that was recorded, changes.
LEMMA SameSuccess ==
  ASSUME SuccessReceived, UNCHANGED <<attempts, received>>
  PROVE  SuccessReceived' /\ Receives
BY DEF SuccessReceived, EverDelivered, Receives

LEMMA SettlesReceive ==
  ASSUME TypeInv, ReceivedInv, NEW s \in Senders, NEW d \in Deliveries,
         NEW status \in Status, Settle(d, status), NEW batch \in SUBSET sender[s].batch,
         status = "DELIVERED" => \A c \in EnabledChannels(RuleOf(d)) : received[d][c] > 0,
         NextDelivery(s, batch), UNCHANGED <<channel, links, attempts, received>>
  PROVE  ReceivedInv'
<1> USE DEF TypeInv
<1>1. /\ OthersKept(s) /\ sender'[s].phase \in {"idle", "delivering"}
      /\ sender'[s].batch = batch
  <2>1. batch \in SUBSET Job
    BY SenderTypes
  <2>2. QED
    BY <2>1, NextDeliveryMoves
<1>2. SuccessReceived' /\ Receives
  BY SameSuccess DEF ReceivedInv
<1>3. \A e \in Deliveries :
        \/ delivery'[e].status = "DELIVERED" => delivery[e].status = "DELIVERED"
        \/ \A c \in EnabledChannels(RuleOf(e)) : received[e][c] > 0
  BY SettleType
<1>4. SenderHonest(s)'
  BY <1>1, BetweenDeliveries DEF ReceivedInv, SenderHonest
<1>5. QED
  BY <1>1, <1>2, <1>3, <1>4, SenderMoveReceives

LEMMA SenderStepReceives ==
  ASSUME TypeInv, ReceivedInv, NEW s \in Senders, SenderStep(s) \/ Crash(s)
  PROVE  ReceivedInv'
<1> USE DEF TypeInv
<1>0. SenderHonest(s) /\ SuccessReceived
  BY DEF ReceivedInv
<1>1. CASE ReadPending(s)
  <2>1. /\ OthersKept(s) /\ sender'[s].phase \in {"idle", "delivering"}
        /\ \A job \in sender'[s].batch : JobHonest(job)
    BY <1>0, <1>1, ReadPendingMoves, ReadJobHonest
  <2>2. UNCHANGED <<channel, links, delivery, attempts, received>>
    BY <1>1 DEF ReadPending
  <2>3. SenderHonest(s)'
    BY <2>1, <2>2, BetweenDeliveries
  <2>4. QED
    BY <1>0, <2>1, <2>2, <2>3, SameSuccess, SenderMoveReceives
<1>2. ASSUME NEW job \in sender[s].batch, SettleAtOnce(s, job)
      PROVE  ReceivedInv'
  <2>1. PICK d \in Deliveries : d = job.delivery
    BY SenderTypes
  <2>2. JobHonest(job) /\ job.enabled \subseteq job.done
    BY <1>0, <1>2 DEF SenderHonest, SettleAtOnce, ToSend
  <2>3. \A c \in EnabledChannels(RuleOf(d)) : received[d][c] > 0
    BY <2>1, <2>2, DeliveryParts DEF JobHonest, EnabledChannels, TypeOK
  <2>4. PICK status \in Status : Settle(d, status)
    BY <1>2, <2>1 DEF SettleAtOnce, Status
  <2>5. /\ NextDelivery(s, sender[s].batch \ {job})
        /\ UNCHANGED <<channel, links, attempts, received>>
    BY <1>2 DEF SettleAtOnce
  <2>6. QED
    BY <2>3, <2>4, <2>5, SettlesReceive
<1>3. ASSUME NEW job \in sender[s].batch, BeginDelivery(s, job)
      PROVE  ReceivedInv'
  <2>1. UNCHANGED <<channel, links, delivery, attempts, received>>
    BY <1>3 DEF BeginDelivery
  <2>2. /\ OthersKept(s) /\ sender'[s].phase = "send" /\ sender'[s].job = job
        /\ sender'[s].todo = job.enabled \ job.done
        /\ sender'[s].batch = sender[s].batch \ {job}
    BY <1>3, BeginDeliveryMoves
  <2>3. \A j \in sender[s].batch : JobHonest(j)
    BY <1>0 DEF SenderHonest
  <2>4. SenderHonest(s)'
    BY <2>1, <2>2, <2>3 DEF SenderHonest, JobHonest, Sending
  <2>5. QED
    BY <1>0, <2>1, <2>2, <2>4, SameSuccess, SenderMoveReceives
<1>4. ASSUME NEW c \in Channels, SendSucceeds(s, c) \/ SendThrows(s, c)
      PROVE  ReceivedInv'
  BY <1>4, SendsReceive
<1>5. CASE RecordSuccess(s) \/ RecordFailure(s)
  BY <1>5, RecordsReceive
<1>6. CASE RecordSuccessThrows(s)
  <2>1. UNCHANGED <<channel, links, delivery, attempts, received>>
    BY <1>6 DEF RecordSuccessThrows
  <2>2. SenderHonest(s)'
    BY <1>0, <1>6, <2>1, RecordSuccessThrowsMoves DEF SenderHonest, JobHonest, JobKept, Sending
  <2>3. QED
    BY <1>0, <1>6, <2>1, <2>2, RecordSuccessThrowsMoves, SameSuccess, SenderMoveReceives
<1>7. CASE Finish(s)
  <2>1. PICK d \in Deliveries : d = sender[s].job.delivery
    BY SenderTypes
  <2>2. PICK status \in Status : status = FinalStatus(sender[s].job) /\ Settle(d, status)
    BY <1>7, <2>1 DEF Finish, FinalStatus, Status
  <2>3. JobHonest(sender[s].job) /\ sender[s].todo = {}
        /\ \A c \in sender[s].job.enabled : c \in sender[s].job.failed \/ received[d][c] > 0
    BY <1>0, <1>7, <2>1 DEF Finish, SenderHonest, Sending
  <2>4. status = "DELIVERED" => sender[s].job.failed = {}
    BY <2>2 DEF FinalStatus
  <2>5. status = "DELIVERED" => \A c \in EnabledChannels(RuleOf(d)) : received[d][c] > 0
    BY <2>1, <2>3, <2>4, DeliveryParts DEF JobHonest, EnabledChannels, TypeOK
  <2>6. NextDelivery(s, sender[s].batch) /\ UNCHANGED <<channel, links, attempts, received>>
    BY <1>7 DEF Finish
  <2>7. QED
    BY <2>2, <2>5, <2>6, SettlesReceive
<1>8. CASE Throws(s) \/ Crash(s)
  <2>1. /\ sender' = [sender EXCEPT ![s] = IdleSender]
        /\ UNCHANGED <<channel, links, delivery, attempts, received>>
    BY <1>8 DEF Throws, Crash
  <2>2. OthersKept(s) /\ sender'[s].phase = "idle" /\ sender'[s].batch = {}
    BY <2>1, SenderResets
  <2>3. SenderHonest(s)'
    BY <2>1, <2>2, BetweenDeliveries
  <2>4. QED
    BY <1>0, <2>1, <2>2, <2>3, SameSuccess, SenderMoveReceives
<1>9. QED
  BY <1>1, <1>2, <1>3, <1>4, <1>5, <1>6, <1>7, <1>8 DEF SenderStep

\* Steps that are not a sender's: they keep or empty the attempts, settle nothing as
\* DELIVERED and leave the senders alone, or give one its delivery ids.
LEMMA OutsideReceives ==
  ASSUME TypeInv, TypeInv', ReceivedInv, received' = received, TakesAway,
         \A d \in Deliveries :
           delivery'[d].status = "DELIVERED" => delivery[d].status = "DELIVERED",
         \A d \in Deliveries, c \in Channels : attempts'[d][c] \in {attempts[d][c], <<>>},
         \A s \in Senders :
           /\ sender'[s].phase = sender[s].phase \/ sender'[s].phase = "requested"
           /\ sender'[s].batch = sender[s].batch /\ sender'[s].job = sender[s].job
           /\ sender'[s].todo = sender[s].todo /\ sender'[s].channel = sender[s].channel
  PROVE  ReceivedInv'
<1> USE DEF TypeInv
<1>1. Receives
  BY DEF Receives
<1>2. SuccessReceived'
  <2> SUFFICES ASSUME NEW d \in Deliveries, NEW c \in Channels, EverDelivered(d, c)'
               PROVE  received'[d][c] > 0
    BY DEF SuccessReceived
  <2>1. attempts'[d][c] # <<>>
    BY DEF EverDelivered
  <2>2. attempts'[d][c] = attempts[d][c]
    BY <2>1
  <2>3. EverDelivered(d, c)
    BY <2>2, SameAttempts
  <2>4. QED
    BY <2>3 DEF ReceivedInv, SuccessReceived
<1>3. \A s \in Senders : SenderHonest(s)'
  BY <1>1, StaysHonest DEF ReceivedInv
<1>4. DeliveredMeansReceived'
  BY <1>1, RowsStayReceived DEF ReceivedInv, DeliveredMeansReceived
<1>5. QED
  BY <1>2, <1>3, <1>4 DEF ReceivedInv

LEMMA DeletingReceives ==
  TypeInv /\ TypeInv' /\ ReceivedInv /\ [Deliver \/ Delete]_vars => ReceivedInv'
<1> SUFFICES ASSUME TypeInv, TypeInv', ReceivedInv, [Deliver \/ Delete]_vars
             PROVE  ReceivedInv'
  OBVIOUS
<1> USE DEF TypeInv
<1>1. CASE Evaluate
  <2>1. PICK s \in Senders, run \in Runs, matching \in SUBSET Rules :
          CreateDeliveries(s, run, matching)
    BY <1>1 DEF Evaluate
  <2>2. /\ \A t \in Senders :
             /\ sender'[t].phase = sender[t].phase \/ sender'[t].phase = "requested"
             /\ sender'[t].batch = sender[t].batch /\ sender'[t].job = sender[t].job
             /\ sender'[t].todo = sender[t].todo /\ sender'[t].channel = sender[t].channel
    BY <2>1, SenderTypes DEF CreateDeliveries, Sender
  <2>3. TakesAway
    BY <2>1 DEF CreateDeliveries, TakesAway
  <2>4. QED
    BY <2>1, <2>2, <2>3, OutsideReceives DEF CreateDeliveries
<1>2. CASE \E d \in Deliveries : DelayElapses(d)
  <2>1. TakesAway
    BY <1>2 DEF DelayElapses, TakesAway
  <2>2. QED
    BY <1>2, <2>1, OutsideReceives DEF DelayElapses, TypeOK, Delivery
<1>3. ASSUME NEW c \in Channels, DeleteChannel(c)
      PROVE  ReceivedInv'
  <2>1. TakesAway
    BY <1>3 DEF DeleteChannel, TakesAway, TypeOK
  <2>2. \A d \in Deliveries, f \in Channels : attempts'[d][f] \in {attempts[d][f], <<>>}
    BY <1>3 DEF DeleteChannel, TypeOK
  <2>3. UNCHANGED <<delivery, sender, received>>
    BY <1>3 DEF DeleteChannel
  <2>4. QED
    BY <2>1, <2>2, <2>3, OutsideReceives
<1>4. ASSUME NEW gone, RemoveDeliveries(gone)
      PROVE  ReceivedInv'
  <2>1. TakesAway
    BY <1>4 DEF RemoveDeliveries, TakesAway
  <2>2. \A d \in Deliveries, f \in Channels : attempts'[d][f] \in {attempts[d][f], <<>>}
    BY <1>4 DEF RemoveDeliveries, TypeOK
  <2>3. \A d \in Deliveries :
          delivery'[d].status = "DELIVERED" => delivery[d].status = "DELIVERED"
    BY <1>4 DEF RemoveDeliveries
  <2>4. UNCHANGED <<sender, received>>
    BY <1>4 DEF RemoveDeliveries
  <2>5. QED
    BY <2>1, <2>2, <2>3, <2>4, OutsideReceives
<1>5. CASE UNCHANGED vars
  <2>1. TakesAway
    BY <1>5 DEF vars, TakesAway
  <2>2. QED
    BY <1>5, <2>1, OutsideReceives DEF vars
<1>6. QED
  BY <1>1, <1>2, <1>3, <1>4, <1>5, SenderStepReceives
     DEF Deliver, Delete, DeleteRule, ExpireRun

\* While channels, rules and runs are only taken away: whichever calls of deliverPending
\* overlap, crash, or fail to record what they sent, a delivery that is DELIVERED has
\* reached every enabled channel of its rule.
THEOREM DeliveredIsReceived == DeletingSpec => []DeliveredMeansReceived
<1>1. Init => ReceivedInv
  <2> SUFFICES ASSUME Init
               PROVE  ReceivedInv
    OBVIOUS
  <2>1. SuccessReceived
    BY DEF Init, SuccessReceived, EverDelivered
  <2>2. \A s \in Senders : SenderHonest(s)
    BY DEF Init, IdleSender, SenderHonest, Sending
  <2>3. DeliveredMeansReceived
    BY DEF Init, DeliveredMeansReceived
  <2>4. QED
    BY <2>1, <2>2, <2>3 DEF ReceivedInv
<1>2. TypeInv /\ [Deliver \/ Delete]_vars => TypeInv'
  BY NextType DEF Next, Delete, Administer
<1>3. ReceivedInv => DeliveredMeansReceived
  BY DEF ReceivedInv
<1>4. QED
  BY <1>1, <1>2, <1>3, InitType, DeletingReceives, PTL DEF DeletingSpec
=============================================================================
