--------------------- MODULE NotificationContentionProofs ---------------------
(***************************************************************************)
(* What overlapping calls of deliverPending cannot break, whatever         *)
(* managers and the retention of runs do meanwhile.  Senders may overlap   *)
(* at will; harm is done only to a delivery that one of them read while    *)
(* another had it in hand.  Every other delivery is counted, sent, settled *)
(* and given up as if its sender were alone.                               *)
(***************************************************************************)
EXTENDS NotificationDeliveryProofs

Recording == {"recordSuccess", "recordFailure"}

\* The channels of the current delivery whose attempt is still to be recorded.
Unrecorded(s) ==
  sender[s].todo \cup {c \in {sender[s].channel} : sender[s].phase \in Recording}

Unsettled(d) == delivery[d].status \in {"PENDING", "REMOVED"}

\* Attempt n is newer than all recorded ones, and none of those succeeded.
Fresh(d, c, n) == (\A m \in AttemptNumbers(d, c) : m < n) /\ ~EverDelivered(d, c)

\* A call has one job for each of some deliveries; those that are not contended are not
\* settled, and what the job says of them is up to date.
BatchCareful(s) ==
  \A job \in sender[s].batch :
    /\ \A other \in sender[s].batch : other.delivery = job.delivery => other = job
    /\ job.delivery \notin contended =>
         /\ Unsettled(job.delivery)
         /\ \A c \in job.enabled \ job.done : Fresh(job.delivery, c, job.attempt)

WorkCareful(s) ==
  sender[s].phase \in Sending =>
    \A d \in Deliveries : d = sender[s].job.delivery =>
      /\ sender[s].phase \in Recording => sender[s].channel \notin sender[s].todo
      /\ \A other \in sender[s].batch : other.delivery # d
      /\ d \notin contended =>
           Unsettled(d) /\ \A c \in Unrecorded(s) : Fresh(d, c, sender[s].job.attempt)

\* Two calls have the same delivery in hand only if one read it from under the other.
OneHolder ==
  \A s, t \in Senders : s # t =>
    \A d \in Deliveries : Holds(s, d) /\ Holds(t, d) => d \in contended

\* A success is the last attempt there is.
SuccessIsLatest ==
  \A d \in Deliveries \ contended, c \in Channels : EverDelivered(d, c) => LatestDelivered(d, c)

CarefulInv ==
  /\ SuccessIsLatest
  /\ OneHolder
  /\ \A s \in Senders : BatchCareful(s) /\ WorkCareful(s)

-----------------------------------------------------------------------------
(* Until something is reconfigured: attempts are numbered without gaps,    *)
(* and every failed channel was attempted in this round, or will be.       *)

AllBelow(d, n) == \A m \in 1..(n - 1) : \E c \in Channels : m \in AttemptNumbers(d, c)

NoGaps ==
  \A d \in Deliveries, c \in Channels : \A n \in AttemptNumbers(d, c) : AllBelow(d, n)

EnabledAttempted ==
  \A d \in Deliveries, c \in Channels : Attempted(d, c) => c \in EnabledChannels(RuleOf(d))

BatchEarned(s) ==
  \A job \in sender[s].batch :
    /\ job.enabled = EnabledChannels(RuleOf(job.delivery))
    /\ job.failed \subseteq job.enabled \ job.done
    /\ AllBelow(job.delivery, job.attempt)

\* The channel failed in attempt n, and nobody else has made up for it.
StillFailed(d, c, n) ==
  FailedInAttempt(d, c, n) /\ (d \in contended \/ ~LatestDelivered(d, c))

WorkEarned(s) ==
  sender[s].phase \in Sending =>
    \A d \in Deliveries : d = sender[s].job.delivery =>
      /\ sender[s].job.enabled = EnabledChannels(RuleOf(d))
      /\ Unrecorded(s) \cup sender[s].job.failed \subseteq sender[s].job.enabled
      /\ AllBelow(d, sender[s].job.attempt)
      /\ \A c \in sender[s].job.failed :
           \/ c \in Unrecorded(s)
           \/ StillFailed(d, c, sender[s].job.attempt)
      /\ sender[s].phase = "recordSuccess" => sender[s].channel \notin sender[s].job.failed
      /\ sender[s].phase = "finish" => sender[s].todo = {}

EarnedInv ==
  ~reconfigured =>
    /\ NoGaps
    /\ EnabledAttempted
    /\ FailureIsEarned
    /\ \A s \in Senders : BatchEarned(s) /\ WorkEarned(s)

-----------------------------------------------------------------------------
(* The careful sender. *)

\* Attempts that stay, or go with their channel or delivery, spoil nothing.
LEMMA StaysFresh ==
  ASSUME NEW d, NEW c, NEW n, attempts'[d][c] \in {attempts[d][c], <<>>}
  PROVE  /\ Fresh(d, c, n) => Fresh(d, c, n)'
         /\ (EverDelivered(d, c) => LatestDelivered(d, c))
              => (EverDelivered(d, c)' => LatestDelivered(d, c)')
<1>1. CASE attempts'[d][c] = attempts[d][c]
  BY <1>1, SameAttempts DEF Fresh
<1>2. CASE attempts'[d][c] = <<>>
  BY <1>2 DEF Fresh, AttemptNumbers, EverDelivered
<1>3. QED
  BY <1>1, <1>2

\* What CarefulInv says of the current delivery.
LEMMA WorkIsCareful ==
  ASSUME TypeInv, CarefulInv, NEW s \in Senders, sender[s].phase \in Sending
  PROVE  \E d \in Deliveries :
           /\ d = sender[s].job.delivery
           /\ sender[s].phase \in Recording => sender[s].channel \notin sender[s].todo
           /\ \A other \in sender[s].batch : other.delivery # d
           /\ d \notin contended =>
                Unsettled(d) /\ \A c \in Unrecorded(s) : Fresh(d, c, sender[s].job.attempt)
BY SenderTypes DEF CarefulInv, WorkCareful, TypeInv

\* What a sender has in hand is in its batch, or is its current delivery.
LEMMA InHandIs ==
  ASSUME TypeOK, NEW s \in Senders, NEW d
  PROVE  Holds(s, d) <=> \/ \E job \in sender[s].batch : job.delivery = d
                         \/ sender[s].phase \in Sending /\ sender[s].job.delivery = d
BY SenderTypes DEF Holds, Sender, Phase, Sending

LEMMA HeldIsUnsettled ==
  ASSUME TypeInv, CarefulInv, NEW s \in Senders, NEW d \in Deliveries, Holds(s, d),
         d \notin contended
  PROVE  Unsettled(d)
BY InHandIs DEF TypeInv, CarefulInv, BatchCareful, WorkCareful

LEMMA OthersDoNotHold ==
  ASSUME TypeInv, CarefulInv, NEW s \in Senders, NEW t \in Senders \ {s},
         NEW d \in Deliveries, Holds(t, d), d \notin contended
  PROVE  ~Holds(s, d)
BY DEF CarefulInv, OneHolder

\* A step of one sender keeps the invariant if it keeps its own part of it, disturbs only
\* what it has in hand, and contends for what it takes from another's.
LEMMA CarefulMove ==
  ASSUME TypeInv, CarefulInv, NEW s \in Senders, OthersKept(s), contended \subseteq contended',
         \A d \in Deliveries : Holds(s, d) \/ (Unsettled(d) => Unsettled(d)'),
         \A d \in Deliveries : Holds(s, d) \/ attempts'[d] = attempts[d],
         \A d \in Deliveries : Holds(s, d)' => Holds(s, d) \/ ~InHand(s, d) \/ d \in contended',
         SuccessIsLatest', BatchCareful(s)', WorkCareful(s)'
  PROVE  CarefulInv'
<1> USE DEF TypeInv
<1>1. \A t \in Senders \ {s} : sender'[t] = sender[t] /\ \A d : Holds(t, d)' = Holds(t, d)
  BY DEF OthersKept, Holds
<1>2. ASSUME NEW t \in Senders \ {s}, NEW d \in Deliveries, Holds(t, d), d \notin contended'
      PROVE  /\ Unsettled(d) => Unsettled(d)'
             /\ \A c, n : Fresh(d, c, n) => Fresh(d, c, n)'
  <2>1. ~Holds(s, d)
    BY <1>2, OthersDoNotHold
  <2>2. attempts'[d] = attempts[d]
    BY <2>1
  <2>3. QED
    BY <2>1, <2>2, StaysFresh
<1>3. ASSUME NEW t \in Senders \ {s}
      PROVE  BatchCareful(t)'
  <2>1. BatchCareful(t) /\ sender'[t] = sender[t]
    BY <1>1 DEF CarefulInv
  <2>2. ASSUME NEW job \in sender[t].batch, job.delivery \notin contended'
        PROVE  /\ Unsettled(job.delivery)'
               /\ \A c \in job.enabled \ job.done : Fresh(job.delivery, c, job.attempt)'
    <3>1. job.delivery \in Deliveries /\ Holds(t, job.delivery)
      BY SenderTypes DEF Holds
    <3>2. /\ Unsettled(job.delivery)
          /\ \A c \in job.enabled \ job.done : Fresh(job.delivery, c, job.attempt)
      BY <2>1, <2>2 DEF BatchCareful
    <3>3. QED
      BY <1>2, <2>2, <3>1, <3>2
  <2>3. QED
    BY <2>1, <2>2 DEF BatchCareful
<1>4. ASSUME NEW t \in Senders \ {s}
      PROVE  WorkCareful(t)'
  <2> SUFFICES ASSUME sender[t].phase \in Sending
               PROVE  WorkCareful(t)'
    BY <1>1 DEF WorkCareful
  <2>1. PICK d \in Deliveries :
          /\ d = sender[t].job.delivery
          /\ sender[t].phase \in Recording => sender[t].channel \notin sender[t].todo
          /\ \A other \in sender[t].batch : other.delivery # d
          /\ d \notin contended =>
               Unsettled(d) /\ \A c \in Unrecorded(t) : Fresh(d, c, sender[t].job.attempt)
    BY WorkIsCareful
  <2>2. Holds(t, d)
    BY <2>1, InHandIs
  <2>3. PICK n \in Nat : n = sender[t].job.attempt
    BY SenderTypes
  <2>4. Unrecorded(t)' = Unrecorded(t)
    BY <1>1 DEF Unrecorded
  <2>5. d \notin contended' => Unsettled(d)' /\ \A c \in Unrecorded(t)' : Fresh(d, c, n)'
    BY <1>2, <2>1, <2>2, <2>3, <2>4
  <2>6. QED
    BY <1>1, <2>1, <2>3, <2>5 DEF WorkCareful
<1>5. OneHolder'
  <2> SUFFICES ASSUME NEW t \in Senders, NEW u \in Senders, t # u,
                      NEW d \in Deliveries, Holds(t, d)', Holds(u, d)'
               PROVE  d \in contended'
    BY DEF OneHolder
  <2>1. CASE t # s /\ u # s
    BY <1>1, <2>1 DEF CarefulInv, OneHolder
  <2>2. ASSUME NEW other \in Senders \ {s}, Holds(other, d), Holds(s, d)'
        PROVE  d \in contended'
    BY <2>2 DEF CarefulInv, OneHolder, InHand
  <2>3. QED
    BY <1>1, <2>1, <2>2
<1>6. QED
  BY <1>3, <1>4, <1>5 DEF CarefulInv

\* Steps that touch no attempt.
LEMMA CarefulQuietMove ==
  ASSUME TypeInv, CarefulInv, NEW s \in Senders, OthersKept(s), contended \subseteq contended',
         attempts' = attempts,
         \A d \in Deliveries : Holds(s, d) \/ (Unsettled(d) => Unsettled(d)'),
         \A d \in Deliveries : Holds(s, d)' => Holds(s, d) \/ ~InHand(s, d) \/ d \in contended',
         BatchCareful(s)', WorkCareful(s)'
  PROVE  CarefulInv'
<1>1. SuccessIsLatest'
  <2> SUFFICES ASSUME NEW d \in Deliveries \ contended', NEW c \in Channels,
                      EverDelivered(d, c)'
               PROVE  LatestDelivered(d, c)'
    BY DEF SuccessIsLatest
  <2>1. EverDelivered(d, c) /\ LatestDelivered(d, c)' = LatestDelivered(d, c)
    BY SameAttempts
  <2>2. QED
    BY <2>1 DEF CarefulInv, SuccessIsLatest
<1>2. QED
  BY <1>1, CarefulMove

\* A sender between deliveries that keeps some of its jobs.
LEMMA CarefulBetween ==
  ASSUME TypeInv, CarefulInv, NEW s \in Senders, OthersKept(s), UNCHANGED <<attempts, contended>>,
         sender'[s].phase \in {"idle", "delivering"},
         sender'[s].batch \subseteq sender[s].batch,
         \A d \in Deliveries : Holds(s, d) \/ delivery'[d] = delivery[d],
         \A job \in sender'[s].batch : delivery'[job.delivery] = delivery[job.delivery]
  PROVE  CarefulInv'
<1>1. BatchCareful(s)
  BY DEF CarefulInv
<1>2. ASSUME NEW job \in sender'[s].batch, job.delivery \notin contended'
      PROVE  /\ Unsettled(job.delivery)'
             /\ \A c \in job.enabled \ job.done : Fresh(job.delivery, c, job.attempt)'
  <2>1. /\ Unsettled(job.delivery)
        /\ \A c \in job.enabled \ job.done : Fresh(job.delivery, c, job.attempt)
    BY <1>1, <1>2 DEF BatchCareful
  <2>2. QED
    BY <2>1, StaysFresh DEF Unsettled
<1>3. BatchCareful(s)'
  BY <1>1, <1>2 DEF BatchCareful
<1>4. WorkCareful(s)'
  BY DEF WorkCareful, Sending
<1>5. \A d : Holds(s, d)' => Holds(s, d)
  BY DEF Holds
<1>6. \A d \in Deliveries : Holds(s, d) \/ (Unsettled(d) => Unsettled(d)')
  BY DEF Unsettled
<1>7. QED
  BY <1>3, <1>4, <1>5, <1>6, CarefulQuietMove

\* What a job that was just read says is up to date.
LEMMA ReadJobCareful ==
  ASSUME TypeInv, CarefulInv, NEW d \in Deliveries, Due(d)
  PROVE  /\ Unsettled(d) /\ ReadJob(d).delivery = d
         /\ d \notin contended =>
              \A c \in ReadJob(d).enabled \ ReadJob(d).done : Fresh(d, c, ReadJob(d).attempt)
<1>1. /\ ReadJob(d).delivery = d /\ ReadJob(d).attempt = AttemptNumber(d)
      /\ ReadJob(d).enabled \subseteq Channels
      /\ \A c \in Channels : c \notin ReadJob(d).done => ~LatestDelivered(d, c)
  <2>1. ReadJob(d) \in Job
    BY ReadJobType
  <2>2. QED
    BY <2>1 DEF ReadJob, Job
<1>2. \A c \in Channels : \A m \in AttemptNumbers(d, c) : m < AttemptNumber(d)
  BY NewNumberIsGreater
<1>3. d \notin contended =>
        \A c \in ReadJob(d).enabled \ ReadJob(d).done : Fresh(d, c, ReadJob(d).attempt)
  BY <1>1, <1>2 DEF Fresh, CarefulInv, SuccessIsLatest
<1>4. Unsettled(d)
  BY DEF Due, Unsettled
<1>5. QED
  BY <1>1, <1>3, <1>4

LEMMA CarefulBatches ==
  ASSUME TypeInv, CarefulInv, NEW s \in Senders,
         \/ ReadPending(s)
         \/ \E job \in sender[s].batch : SettleAtOnce(s, job)
         \/ Finish(s) \/ Throws(s) \/ Crash(s)
  PROVE  CarefulInv'
<1> USE DEF TypeInv
<1>1. CASE ReadPending(s)
  <2>1. /\ sender'[s].phase \in {"idle", "delivering"} /\ OthersKept(s)
        /\ contended \subseteq contended'
        /\ \A job \in sender'[s].batch : \E d \in Deliveries : Due(d) /\ job = ReadJob(d)
        /\ \A job \in sender'[s].batch : InHand(s, job.delivery) => job.delivery \in contended'
    BY <1>1, ReadPendingMoves
  <2>2. UNCHANGED <<attempts, delivery>>
    BY <1>1 DEF ReadPending
  <2>3. \A job \in sender'[s].batch :
          /\ \A other \in sender'[s].batch : other.delivery = job.delivery => other = job
          /\ job.delivery \in Deliveries
          /\ job.delivery \notin contended =>
               /\ Unsettled(job.delivery)
               /\ \A c \in job.enabled \ job.done : Fresh(job.delivery, c, job.attempt)
    BY <2>1, ReadJobCareful
  <2>4. \A job \in sender'[s].batch : job.delivery \notin contended' =>
          /\ Unsettled(job.delivery)'
          /\ \A c \in job.enabled \ job.done : Fresh(job.delivery, c, job.attempt)'
    BY <2>1, <2>2, <2>3, StaysFresh DEF Unsettled
  <2>5. BatchCareful(s)' /\ WorkCareful(s)'
    BY <2>1, <2>3, <2>4 DEF BatchCareful, WorkCareful, Sending
  <2>6. \A d \in Deliveries : Holds(s, d)' => ~InHand(s, d) \/ d \in contended'
    BY <2>1 DEF Holds
  <2>7. \A d \in Deliveries : Unsettled(d) => Unsettled(d)'
    BY <2>2 DEF Unsettled
  <2>8. QED
    BY <2>1, <2>2, <2>5, <2>6, <2>7, CarefulQuietMove
<1>2. ASSUME NEW job \in sender[s].batch, SettleAtOnce(s, job)
      PROVE  CarefulInv'
  <2>1. PICK status \in Status : Settle(job.delivery, status)
    BY <1>2 DEF SettleAtOnce, Status
  <2>2. /\ sender'[s].phase \in {"idle", "delivering"} /\ OthersKept(s)
        /\ sender'[s].batch = sender[s].batch \ {job} /\ UNCHANGED <<attempts, contended>>
    BY <1>2, NextDeliveryMoves, SenderTypes DEF SettleAtOnce, Sender
  <2>3. \A other \in sender[s].batch \ {job} : other.delivery # job.delivery
    BY DEF CarefulInv, BatchCareful
  <2>4. \A d \in Deliveries : d # job.delivery => delivery'[d] = delivery[d]
    BY <2>1, SettleType, SenderTypes
  <2>5. Holds(s, job.delivery)
    BY DEF Holds
  <2>6. QED
    BY <2>2, <2>3, <2>4, <2>5, SenderTypes, CarefulBetween
<1>3. CASE Finish(s)
  <2>1. PICK d \in Deliveries : d = sender[s].job.delivery
    BY SenderTypes
  <2>2. PICK status \in Status : Settle(d, status)
    BY <1>3, <2>1 DEF Finish, FinalStatus, Status
  <2>3. /\ sender'[s].phase \in {"idle", "delivering"} /\ OthersKept(s)
        /\ sender'[s].batch = sender[s].batch /\ UNCHANGED <<attempts, contended>>
    BY <1>3, NextDeliveryMoves, SenderTypes DEF Finish, Sender
  <2>4. \A other \in sender[s].batch : other.delivery # d
    BY <1>3, <2>1 DEF CarefulInv, WorkCareful, Finish, Sending
  <2>5. \A e \in Deliveries : e # d => delivery'[e] = delivery[e]
    BY <2>2, SettleType
  <2>6. Holds(s, d)
    BY <1>3, <2>1 DEF Holds, Finish
  <2>7. QED
    BY <2>3, <2>4, <2>5, <2>6, SenderTypes, CarefulBetween
<1>4. CASE Throws(s) \/ Crash(s)
  <2>1. sender' = [sender EXCEPT ![s] = IdleSender] /\ UNCHANGED <<attempts, delivery, contended>>
    BY <1>4 DEF Throws, Crash
  <2>2. QED
    BY <2>1, SenderResets, CarefulBetween
<1>5. QED
  BY <1>1, <1>2, <1>3, <1>4

\* The current delivery goes on, and no attempt is recorded.
LEMMA CarefulWork ==
  ASSUME TypeInv, CarefulInv, NEW s \in Senders, sender[s].phase \in Sending, OthersKept(s),
         UNCHANGED <<attempts, delivery, contended>>, JobKept(s),
         Unrecorded(s)' \subseteq Unrecorded(s),
         sender'[s].phase \in Recording => sender'[s].channel \notin sender'[s].todo
  PROVE  CarefulInv'
<1>1. PICK d \in Deliveries :
        /\ d = sender[s].job.delivery /\ \A other \in sender[s].batch : other.delivery # d
        /\ d \notin contended =>
             Unsettled(d) /\ \A c \in Unrecorded(s) : Fresh(d, c, sender[s].job.attempt)
  BY WorkIsCareful
<1>2. PICK n \in Nat : n = sender[s].job.attempt
  BY SenderTypes DEF TypeInv
<1>3. d \notin contended' => Unsettled(d)' /\ \A c \in Unrecorded(s)' : Fresh(d, c, n)'
  BY <1>1, <1>2, StaysFresh DEF Unsettled
<1>4. WorkCareful(s)'
  BY <1>1, <1>2, <1>3 DEF WorkCareful, JobKept
<1>5. BatchCareful(s)
  BY DEF CarefulInv
<1>6. ASSUME NEW job \in sender[s].batch, job.delivery \notin contended'
      PROVE  /\ Unsettled(job.delivery)'
             /\ \A c \in job.enabled \ job.done : Fresh(job.delivery, c, job.attempt)'
  BY <1>5, <1>6, StaysFresh DEF BatchCareful, Unsettled
<1>7. BatchCareful(s)'
  BY <1>5, <1>6 DEF BatchCareful, JobKept
<1>8. \A e : Holds(s, e)' => Holds(s, e)
  BY InHandIs DEF Holds, JobKept, TypeInv
<1>9. \A e \in Deliveries : Unsettled(e) => Unsettled(e)'
  BY DEF Unsettled
<1>10. QED
  BY <1>4, <1>7, <1>8, <1>9, CarefulQuietMove

LEMMA CarefulSends ==
  ASSUME TypeInv, CarefulInv, NEW s \in Senders,
         \/ \E job \in sender[s].batch : BeginDelivery(s, job)
         \/ \E c \in Channels : SendSucceeds(s, c) \/ SendThrows(s, c)
         \/ RecordSuccessThrows(s)
  PROVE  CarefulInv'
<1> USE DEF TypeInv
<1>1. ASSUME NEW job \in sender[s].batch, BeginDelivery(s, job)
      PROVE  CarefulInv'
  <2>1. /\ sender'[s].phase = "send" /\ sender'[s].job = job
        /\ sender'[s].todo = job.enabled \ job.done
        /\ sender'[s].batch = sender[s].batch \ {job} /\ OthersKept(s)
        /\ UNCHANGED <<attempts, delivery, contended>>
    BY <1>1, BeginDeliveryMoves DEF BeginDelivery
  <2>2. BatchCareful(s)
    BY DEF CarefulInv
  <2>3. ASSUME NEW j \in sender[s].batch, j.delivery \notin contended'
        PROVE  /\ Unsettled(j.delivery)'
               /\ \A c \in j.enabled \ j.done : Fresh(j.delivery, c, j.attempt)'
    BY <2>1, <2>2, <2>3, StaysFresh DEF BatchCareful, Unsettled
  <2>4. BatchCareful(s)'
    BY <2>1, <2>2, <2>3 DEF BatchCareful
  <2>5. Unrecorded(s)' = job.enabled \ job.done
    BY <2>1 DEF Unrecorded, Recording
  <2>6. WorkCareful(s)'
    BY <2>1, <2>2, <2>3, <2>5 DEF WorkCareful, Recording, BatchCareful
  <2>7. \A d : Holds(s, d)' => Holds(s, d)
    BY <2>1 DEF Holds
  <2>8. \A d \in Deliveries : Unsettled(d) => Unsettled(d)'
    BY <2>1 DEF Unsettled
  <2>9. QED
    BY <2>1, <2>4, <2>6, <2>7, <2>8, CarefulQuietMove
<1>2. ASSUME NEW c \in Channels, SendSucceeds(s, c) \/ SendThrows(s, c)
      PROVE  CarefulInv'
  <2>1. /\ JobKept(s) /\ OthersKept(s) /\ sender[s].phase = "send" /\ c \in sender[s].todo
        /\ sender'[s].channel = c /\ sender'[s].todo = sender[s].todo \ {c}
    BY <1>2, SendSucceedsMoves, SendThrowsMoves
  <2>2. Unrecorded(s)' \subseteq Unrecorded(s)
    BY <2>1 DEF Unrecorded
  <2>3. UNCHANGED <<attempts, delivery, contended>>
    BY <1>2 DEF SendSucceeds, SendThrows
  <2>4. QED
    BY <2>1, <2>2, <2>3, CarefulWork DEF Sending
<1>3. CASE RecordSuccessThrows(s)
  <2>1. /\ JobKept(s) /\ OthersKept(s) /\ sender[s].phase = "recordSuccess"
        /\ sender'[s].phase = "recordFailure"
        /\ sender'[s].channel = sender[s].channel /\ sender'[s].todo = sender[s].todo
    BY <1>3, RecordSuccessThrowsMoves
  <2>2. Unrecorded(s)' \subseteq Unrecorded(s)
    BY <2>1 DEF Unrecorded, Recording
  <2>3. sender[s].channel \notin sender[s].todo
    BY <2>1, WorkIsCareful DEF Sending, Recording
  <2>4. UNCHANGED <<attempts, delivery, contended>>
    BY <1>3 DEF RecordSuccessThrows
  <2>5. QED
    BY <2>1, <2>2, <2>3, <2>4, CarefulWork DEF Sending
<1>4. QED
  BY <1>1, <1>2, <1>3

LEMMA CarefulRecords ==
  ASSUME TypeInv, CarefulInv, NEW s \in Senders, RecordSuccess(s) \/ RecordFailure(s)
  PROVE  CarefulInv'
<1> USE DEF TypeInv
<1>1. PICK d \in Deliveries, c \in Channels, new \in Attempt :
        /\ d = sender[s].job.delivery /\ c = sender[s].channel
        /\ attempts' = [attempts EXCEPT ![d][c] = Append(@, new)]
        /\ sender[s].phase \in Recording /\ NextChannel(s)
        /\ UNCHANGED <<delivery, contended>>
  BY Records DEF Recording
<1>2. /\ c \notin sender[s].todo /\ \A other \in sender[s].batch : other.delivery # d
      /\ d \notin contended =>
           Unsettled(d) /\ \A f \in Unrecorded(s) : Fresh(d, f, sender[s].job.attempt)
  BY <1>1, WorkIsCareful DEF Sending, Recording
<1>3. /\ \A e \in Deliveries, f \in Channels :
           e # d \/ f # c => attempts'[e][f] = attempts[e][f]
      /\ EverDelivered(d, c)' => (EverDelivered(d, c) \/ new.delivered)
      /\ new.delivered => LatestDelivered(d, c)'
      /\ attempts' \in [Deliveries -> [Channels -> Seq(Attempt)]]
  <2>1. attempts' = [attempts EXCEPT ![d][c] = Append(@, new)] /\ TypeOK
    BY <1>1
  <2>2. QED
    BY <2>1, RecordMoves
<1>4. \A e \in Deliveries : e # d => attempts'[e] = attempts[e]
  BY <1>1
<1>5. d \notin contended => ~EverDelivered(d, c)
  BY <1>1, <1>2 DEF Unrecorded, Fresh
<1>6. SuccessIsLatest'
  <2> SUFFICES ASSUME NEW e \in Deliveries \ contended, NEW f \in Channels
               PROVE  EverDelivered(e, f)' => LatestDelivered(e, f)'
    BY <1>1 DEF SuccessIsLatest
  <2>1. CASE e = d /\ f = c
    BY <1>3, <1>5, <2>1
  <2>2. CASE e # d \/ f # c
    BY <1>3, <2>2, StaysFresh DEF CarefulInv, SuccessIsLatest
  <2>3. QED
    BY <2>1, <2>2
<1>7. /\ JobKept(s) /\ OthersKept(s) /\ sender'[s].phase \in {"finish", "send"}
      /\ sender'[s].todo = sender[s].todo
  BY <1>1, NextChannelMoves
<1>8. PICK n \in Nat : n = sender[s].job.attempt
  BY SenderTypes
<1>9. sender[s].todo \subseteq Channels
  BY SenderTypes DEF Sender
<1>10. WorkCareful(s)'
  <2>1. ASSUME d \notin contended, NEW f \in sender[s].todo
        PROVE  Fresh(d, f, n)'
    <3>1. Fresh(d, f, n) /\ attempts'[d][f] = attempts[d][f]
      BY <1>2, <1>3, <1>8, <1>9, <2>1 DEF Unrecorded
    <3>2. QED
      BY <3>1, StaysFresh
  <2>2. Unrecorded(s)' = sender[s].todo
    BY <1>7 DEF Unrecorded, Recording
  <2>3. d \notin contended => Unsettled(d)'
    BY <1>1, <1>2 DEF Unsettled
  <2>4. QED
    BY <1>1, <1>2, <1>7, <1>8, <2>1, <2>2, <2>3 DEF WorkCareful, JobKept, Recording
<1>11. BatchCareful(s)'
  <2>1. BatchCareful(s)
    BY DEF CarefulInv
  <2>2. ASSUME NEW job \in sender[s].batch, job.delivery \notin contended
        PROVE  /\ Unsettled(job.delivery)'
               /\ \A f \in job.enabled \ job.done : Fresh(job.delivery, f, job.attempt)'
    <3>1. attempts'[job.delivery] = attempts[job.delivery]
      BY <1>2, <1>4, SenderTypes
    <3>2. /\ Unsettled(job.delivery)
          /\ \A f \in job.enabled \ job.done : Fresh(job.delivery, f, job.attempt)
      BY <2>1, <2>2 DEF BatchCareful
    <3>3. Unsettled(job.delivery)'
      BY <1>1, <3>2 DEF Unsettled
    <3>4. ASSUME NEW f \in job.enabled \ job.done
          PROVE  Fresh(job.delivery, f, job.attempt)'
      BY <3>1, <3>2, <3>4, StaysFresh
    <3>5. QED
      BY <3>3, <3>4
  <2>3. QED
    BY <1>1, <1>7, <2>1, <2>2 DEF BatchCareful, JobKept
<1>12. Holds(s, d) /\ \A e : Holds(s, e)' => Holds(s, e)
  BY <1>1, <1>7, InHandIs DEF Holds, JobKept, Sending, Recording
<1>13. \A e \in Deliveries : Unsettled(e) => Unsettled(e)'
  BY <1>1 DEF Unsettled
<1>14. contended \subseteq contended'
  BY <1>1
<1>15. QED
  BY <1>4, <1>6, <1>7, <1>10, <1>11, <1>12, <1>13, <1>14, CarefulMove

\* Steps that are not a sender's.
LEMMA CarefulOutside ==
  ASSUME TypeInv, CarefulInv, contended' = contended,
         \A d \in Deliveries : Unsettled(d) => Unsettled(d)',
         \A d \in Deliveries, c \in Channels : attempts'[d][c] \in {attempts[d][c], <<>>},
         \A s \in Senders :
           /\ sender'[s].phase = sender[s].phase \/ sender'[s].phase = "requested"
           /\ sender'[s].batch = sender[s].batch /\ sender'[s].job = sender[s].job
           /\ sender'[s].todo = sender[s].todo /\ sender'[s].channel = sender[s].channel
  PROVE  CarefulInv'
<1> USE DEF TypeInv
<1>1. SuccessIsLatest'
  BY StaysFresh DEF CarefulInv, SuccessIsLatest
<1>2. ASSUME NEW s \in Senders
      PROVE  BatchCareful(s)'
  <2>1. BatchCareful(s)
    BY DEF CarefulInv
  <2>2. ASSUME NEW job \in sender[s].batch, job.delivery \notin contended
        PROVE  /\ Unsettled(job.delivery)'
               /\ \A c \in job.enabled \ job.done : Fresh(job.delivery, c, job.attempt)'
    <3>1. job.delivery \in Deliveries /\ job.enabled \subseteq Channels
      BY SenderTypes DEF Job
    <3>2. QED
      BY <2>1, <2>2, <3>1, StaysFresh DEF BatchCareful
  <2>3. QED
    BY <2>1, <2>2 DEF BatchCareful
<1>3. ASSUME NEW s \in Senders
      PROVE  WorkCareful(s)'
  <2> SUFFICES ASSUME sender'[s].phase \in Sending
               PROVE  WorkCareful(s)'
    BY DEF WorkCareful
  <2>1. sender[s].phase \in Sending /\ sender'[s].phase = sender[s].phase
    BY DEF Sending
  <2>2. PICK d \in Deliveries :
          /\ d = sender[s].job.delivery
          /\ sender[s].phase \in Recording => sender[s].channel \notin sender[s].todo
          /\ \A other \in sender[s].batch : other.delivery # d
          /\ d \notin contended =>
               Unsettled(d) /\ \A c \in Unrecorded(s) : Fresh(d, c, sender[s].job.attempt)
    BY <2>1, WorkIsCareful
  <2>3. PICK n \in Nat : n = sender[s].job.attempt
    BY SenderTypes
  <2>4. Unrecorded(s) \subseteq Channels /\ Unrecorded(s)' = Unrecorded(s)
    BY <2>1, SenderTypes DEF Unrecorded, Sender
  <2>5. d \notin contended => Unsettled(d)' /\ \A c \in Unrecorded(s)' : Fresh(d, c, n)'
    BY <2>2, <2>3, <2>4, StaysFresh
  <2>6. QED
    BY <2>1, <2>2, <2>3, <2>5 DEF WorkCareful
<1>4. OneHolder'
  <2>1. \A s \in Senders : \A d : Holds(s, d)' => Holds(s, d)
    BY DEF Holds
  <2>2. QED
    BY <2>1 DEF CarefulInv, OneHolder
<1>5. QED
  BY <1>1, <1>2, <1>3, <1>4 DEF CarefulInv

LEMMA CarefulNext == TypeInv /\ CarefulInv /\ [Next]_vars => CarefulInv'
<1> SUFFICES ASSUME TypeInv, CarefulInv, [Next]_vars
             PROVE  CarefulInv'
  OBVIOUS
<1> USE DEF TypeInv
<1>1. CASE \E s \in Senders : SenderStep(s) \/ Crash(s)
  BY <1>1, CarefulBatches, CarefulSends, CarefulRecords DEF SenderStep
<1>2. CASE Evaluate
  <2>1. PICK s \in Senders, run \in Runs, matching \in SUBSET Rules :
          CreateDeliveries(s, run, matching)
    BY <1>2 DEF Evaluate
  <2>2. \A t \in Senders :
          /\ sender'[t].phase = sender[t].phase \/ sender'[t].phase = "requested"
          /\ sender'[t].batch = sender[t].batch /\ sender'[t].job = sender[t].job
          /\ sender'[t].todo = sender[t].todo /\ sender'[t].channel = sender[t].channel
    BY <2>1, SenderTypes DEF CreateDeliveries, Sender
  <2>3. \A d \in Deliveries : Unsettled(d) => Unsettled(d)'
    BY <2>1 DEF CreateDeliveries, Unsettled
  <2>4. UNCHANGED <<attempts, contended>>
    BY <2>1 DEF CreateDeliveries
  <2>5. QED
    BY <2>2, <2>3, <2>4, CarefulOutside
<1>3. CASE \E d \in Deliveries : DelayElapses(d)
  <2>1. \A d \in Deliveries : Unsettled(d) => Unsettled(d)'
    BY <1>3 DEF DelayElapses, Unsettled, TypeOK, Delivery
  <2>2. UNCHANGED <<attempts, sender, contended>>
    BY <1>3 DEF DelayElapses
  <2>3. QED
    BY <2>1, <2>2, CarefulOutside
<1>4. CASE \/ \E c \in Channels, state \in {"enabled", "disabled"} : SetChannelEnabled(c, state)
           \/ \E r \in Rules, channels \in SUBSET Channels : UpdateRule(r, channels)
           \/ UNCHANGED vars
  <2>1. UNCHANGED <<delivery, attempts, sender, contended>>
    BY <1>4 DEF SetChannelEnabled, UpdateRule, vars
  <2>2. QED
    BY <2>1, CarefulOutside DEF Unsettled
<1>5. ASSUME NEW c \in Channels, DeleteChannel(c)
      PROVE  CarefulInv'
  <2>1. \A d \in Deliveries, f \in Channels : attempts'[d][f] \in {attempts[d][f], <<>>}
    BY <1>5 DEF DeleteChannel, TypeOK
  <2>2. UNCHANGED <<delivery, sender, contended>>
    BY <1>5 DEF DeleteChannel
  <2>3. QED
    BY <2>1, <2>2, CarefulOutside DEF Unsettled
<1>6. ASSUME NEW gone, RemoveDeliveries(gone)
      PROVE  CarefulInv'
  <2>1. \A d \in Deliveries, f \in Channels : attempts'[d][f] \in {attempts[d][f], <<>>}
    BY <1>6 DEF RemoveDeliveries, TypeOK
  <2>2. /\ UNCHANGED <<sender, contended>>
        /\ \A d \in Deliveries : Unsettled(d) => Unsettled(d)'
    BY <1>6 DEF RemoveDeliveries, Unsettled
  <2>3. QED
    BY <2>1, <2>2, CarefulOutside
<1>7. QED
  BY <1>1, <1>2, <1>3, <1>4, <1>5, <1>6
     DEF Next, Deliver, Administer, DeleteRule, ExpireRun

LEMMA CarefulAlways == Spec => [](TypeInv /\ CarefulInv)
<1>1. Init => CarefulInv
  <2> SUFFICES ASSUME Init
               PROVE  CarefulInv
    OBVIOUS
  <2>1. SuccessIsLatest
    BY DEF Init, SuccessIsLatest, EverDelivered
  <2>2. \A s \in Senders : BatchCareful(s) /\ WorkCareful(s)
    BY DEF Init, IdleSender, BatchCareful, WorkCareful, Sending
  <2>3. OneHolder
    BY DEF Init, IdleSender, OneHolder, Holds
  <2>4. QED
    BY <2>1, <2>2, <2>3 DEF CarefulInv
<1>2. TypeInv /\ CarefulInv /\ [Next]_vars => (TypeInv /\ CarefulInv)'
  BY NextType, CarefulNext
<1>3. QED
  BY <1>1, <1>2, InitType, PTL DEF Spec

\* However calls of deliverPending overlap: the attempt that is about to be recorded has a
\* number that its delivery and channel do not have yet, unless another call had the same
\* delivery in hand; then the insert may fail on the unique key and take the rest of the
\* batch with it.
THEOREM AttemptsAreFresh == Spec => []AttemptIsFresh
<1>1. ASSUME TypeInv, CarefulInv
      PROVE  AttemptIsFresh
  <2> SUFFICES ASSUME NEW s \in Senders,
                      sender[s].phase \in {"send", "recordSuccess", "recordFailure"},
                      sender[s].job.delivery \notin contended,
                      NEW c \in sender[s].todo \cup
                                (IF sender[s].phase = "send" THEN {} ELSE {sender[s].channel})
               PROVE  sender[s].job.attempt \notin AttemptNumbers(sender[s].job.delivery, c)
    BY DEF AttemptIsFresh
  <2>1. sender[s].phase \in Sending /\ c \in Unrecorded(s)
    BY DEF Sending, Unrecorded, Recording
  <2>2. PICK d \in Deliveries :
          /\ d = sender[s].job.delivery
          /\ d \notin contended => \A f \in Unrecorded(s) : Fresh(d, f, sender[s].job.attempt)
    BY <1>1, <2>1, WorkIsCareful
  <2>3. sender[s].job.attempt \in Nat
    BY <1>1, SenderTypes DEF TypeInv
  <2>4. QED
    BY <2>1, <2>2, <2>3 DEF Fresh
<1>2. QED
  BY <1>1, CarefulAlways, PTL

\* However calls of deliverPending overlap: a delivery that is DELIVERED or FAILED keeps
\* that status until it is removed with its rule or its run, unless two calls had it in
\* hand at once; then the late one overwrites it.
THEOREM SettledStaysSettled == Spec => SettledIsFinal
<1>1. ASSUME TypeInv, CarefulInv, [Next]_vars, NEW d \in Deliveries \ contended,
             delivery[d].status \in {"DELIVERED", "FAILED"}
      PROVE  delivery'[d].status \in {delivery[d].status, "REMOVED"}
  <2> USE DEF TypeInv
  <2>1. ASSUME NEW s \in Senders, SenderStep(s) \/ Crash(s)
        PROVE  delivery'[d].status = delivery[d].status
    <3>1. ASSUME NEW job \in sender[s].batch, SettleAtOnce(s, job)
          PROVE  delivery'[d].status = delivery[d].status
      <4>1. d # job.delivery
        BY <1>1 DEF CarefulInv, BatchCareful, Unsettled
      <4>2. PICK status \in Status : Settle(job.delivery, status)
        BY <3>1 DEF SettleAtOnce, Status
      <4>3. QED
        BY <1>1, <4>1, <4>2, SettleType, SenderTypes
    <3>2. CASE Finish(s)
      <4>1. PICK e \in Deliveries : e = sender[s].job.delivery /\ (e \notin contended => Unsettled(e))
        BY <1>1, <3>2, WorkIsCareful DEF Finish, Sending
      <4>2. PICK status \in Status : Settle(e, status)
        BY <3>2, <4>1 DEF Finish, FinalStatus, Status
      <4>3. QED
        BY <1>1, <4>1, <4>2, SettleType DEF Unsettled
    <3>3. CASE delivery' = delivery
      BY <3>3
    <3>4. QED
      BY <2>1, <3>1, <3>2, <3>3
         DEF SenderStep, ReadPending, BeginDelivery, SendSucceeds, SendThrows, RecordSuccess,
             RecordSuccessThrows, RecordFailure, Throws, Crash
  <2>2. CASE Evaluate
    BY <1>1, <2>2 DEF Evaluate, CreateDeliveries
  <2>3. CASE \E e \in Deliveries : DelayElapses(e)
    BY <1>1, <2>3 DEF DelayElapses, TypeOK, Delivery
  <2>4. CASE Administer
    BY <1>1, <2>4
       DEF Administer, SetChannelEnabled, DeleteChannel, UpdateRule, DeleteRule, ExpireRun,
           RemoveDeliveries
  <2>5. CASE UNCHANGED vars
    BY <2>5 DEF vars
  <2>6. QED
    BY <1>1, <2>1, <2>2, <2>3, <2>4, <2>5 DEF Next, Deliver
<1>2. TypeInv /\ CarefulInv /\ [Next]_vars
        => [\A d \in Deliveries :
              delivery[d].status \in {"DELIVERED", "FAILED"}
                => delivery'[d].status \in {delivery[d].status, "REMOVED"} \/ d \in contended]_vars
  BY <1>1
<1>3. QED
  BY <1>2, CarefulAlways, PTL DEF Spec, SettledIsFinal

\* However calls of deliverPending overlap: no message goes out to a channel whose success
\* is on record, unless two calls had its delivery in hand at once: a retry sends to the
\* channels that are not completed.
THEOREM CompletedStaysCompleted == Spec => CompletedNotResent
<1>1. ASSUME TypeInv, CarefulInv, [Next]_vars,
             NEW d \in Deliveries, NEW c \in Channels, received'[d][c] > received[d][c]
      PROVE  ~EverDelivered(d, c) \/ d \in contended
  <2> USE DEF TypeInv
  <2>1. received \in [Deliveries -> [Channels -> 0..2]]
    BY <1>1 DEF TypeOK
  <2>2. received' # received
    <3>1. received[d][c] \in 0..2
      BY <2>1
    <3>2. QED
      BY <1>1, <3>1
  <2>3. PICK s \in Senders, f \in Channels : SendSucceeds(s, f) \/ SendThrows(s, f)
    BY <1>1, <2>2
       DEF Next, Deliver, Administer, SenderStep, ReadPending, SettleAtOnce, BeginDelivery,
           RecordSuccess, RecordSuccessThrows, RecordFailure, Finish, Throws, Crash, Evaluate,
           CreateDeliveries, DelayElapses, SetChannelEnabled, DeleteChannel, UpdateRule,
           DeleteRule, ExpireRun, RemoveDeliveries, vars
  <2>4. sender[s].phase = "send" /\ f \in sender[s].todo
    BY <2>3 DEF SendSucceeds, SendThrows, NextToSend
  <2>5. PICK e \in Deliveries :
          e = sender[s].job.delivery /\ (e \in contended \/ Fresh(e, f, sender[s].job.attempt))
    BY <1>1, <2>4, WorkIsCareful DEF Sending, Unrecorded
  <2>6. received' = [received EXCEPT ![e][f] = IF @ = 2 THEN 2 ELSE @ + 1]
    BY <2>2, <2>3, <2>5 DEF SendSucceeds, SendThrows, Arrives
  <2>7. d = e /\ c = f
    <3>1. e # d \/ f # c => received'[d][c] = received[d][c]
      BY <2>1, <2>6
    <3>2. received[d][c] \in 0..2
      BY <2>1
    <3>3. QED
      BY <1>1, <3>1, <3>2
  <2>8. QED
    BY <2>5, <2>7 DEF Fresh
<1>2. TypeInv /\ CarefulInv /\ [Next]_vars
        => [\A d \in Deliveries, c \in Channels :
              received'[d][c] > received[d][c] => ~EverDelivered(d, c) \/ d \in contended]_vars
  BY <1>1
<1>3. QED
  BY <1>2, CarefulAlways, PTL DEF Spec, CompletedNotResent

-----------------------------------------------------------------------------
(* The earned failure. *)

\* What FailureIsEarned asks of a delivery that has failed.
Earned(d) ==
  \/ EnabledChannels(RuleOf(d)) = {}
  \/ /\ \A n \in 1..MaxAttempts : \E c \in Channels : n \in AttemptNumbers(d, c)
     /\ \E c \in EnabledChannels(RuleOf(d)) :
          /\ \E n \in AttemptNumbers(d, c) : n >= MaxAttempts /\ FailedInAttempt(d, c, n)
          /\ d \in contended \/ ~LatestDelivered(d, c)

\* A step of one sender only adds attempts, and only to what it has in hand.
Grows(s) ==
  /\ \A d \in Deliveries, c \in Channels :
       /\ AttemptNumbers(d, c) \subseteq AttemptNumbers(d, c)'
       /\ \A n : FailedInAttempt(d, c, n) => FailedInAttempt(d, c, n)'
  /\ \A d \in Deliveries : Holds(s, d) \/ attempts'[d] = attempts[d]

LEMMA SameGrows ==
  ASSUME attempts' = attempts, NEW s
  PROVE  Grows(s)
BY DEF Grows, AttemptNumbers, FailedInAttempt

LEMMA EnabledAreChannels ==
  ASSUME TypeOK, NEW d \in Deliveries
  PROVE  EnabledChannels(RuleOf(d)) \subseteq Channels
<1>1. RuleOf(d) \in Rules
  BY DeliveryParts
<1>2. QED
  BY <1>1 DEF EnabledChannels, TypeOK

\* What EarnedInv says of the batch and of the current delivery.
LEMMA JobsAreEarned ==
  ASSUME TypeInv, EarnedInv, ~reconfigured, NEW s \in Senders
  PROVE  /\ \A job \in sender[s].batch :
              /\ job.enabled = EnabledChannels(RuleOf(job.delivery))
              /\ job.failed \subseteq job.enabled \ job.done
              /\ AllBelow(job.delivery, job.attempt)
         /\ sender[s].phase \in Sending => \E d \in Deliveries :
              /\ d = sender[s].job.delivery
              /\ sender[s].job.enabled = EnabledChannels(RuleOf(d))
              /\ Unrecorded(s) \cup sender[s].job.failed \subseteq sender[s].job.enabled
              /\ AllBelow(d, sender[s].job.attempt)
              /\ \A c \in sender[s].job.failed :
                   \/ c \in Unrecorded(s)
                   \/ StillFailed(d, c, sender[s].job.attempt)
              /\ sender[s].phase = "recordSuccess"
                   => sender[s].channel \notin sender[s].job.failed
              /\ sender[s].phase = "finish" => sender[s].todo = {}
<1>1. BatchEarned(s) /\ WorkEarned(s) /\ sender[s].job.delivery \in Deliveries
  BY SenderTypes DEF EarnedInv, TypeInv
<1>2. QED
  BY <1>1 DEF BatchEarned, WorkEarned

\* Facts about a delivery that others have in hand, or that nobody has, survive.
LEMMA EarnedSurvives ==
  ASSUME TypeInv, NEW s \in Senders, NEW d \in Deliveries,
         Grows(s), UNCHANGED <<channel, links>>, contended \subseteq contended'
  PROVE  /\ EnabledChannels(RuleOf(d))' = EnabledChannels(RuleOf(d))
         /\ \A n : AllBelow(d, n) => AllBelow(d, n)'
         /\ ~Holds(s, d) \/ d \in contended =>
              /\ \A c \in Channels : \A n : StillFailed(d, c, n) => StillFailed(d, c, n)'
              /\ Earned(d) => Earned(d)'
<1>1. EnabledChannels(RuleOf(d))' = EnabledChannels(RuleOf(d))
  BY DEF EnabledChannels
<1>2. ASSUME NEW n, AllBelow(d, n)
      PROVE  AllBelow(d, n)'
  BY <1>2 DEF AllBelow, Grows
<1>3. ASSUME ~Holds(s, d) \/ d \in contended, NEW c \in Channels
      PROVE  (d \in contended \/ ~LatestDelivered(d, c)) => (d \in contended \/ ~LatestDelivered(d, c))'
  <2>1. d \in contended \/ attempts'[d] = attempts[d]
    BY <1>3 DEF Grows
  <2>2. QED
    BY <2>1, SameAttempts
<1>4. ASSUME ~Holds(s, d) \/ d \in contended, NEW c \in Channels, NEW n, StillFailed(d, c, n)
      PROVE  StillFailed(d, c, n)'
  BY <1>3, <1>4 DEF StillFailed, Grows
<1>5. ASSUME ~Holds(s, d) \/ d \in contended, Earned(d)
      PROVE  Earned(d)'
  <2>1. CASE EnabledChannels(RuleOf(d)) = {}
    BY <1>1, <2>1 DEF Earned
  <2>2. CASE EnabledChannels(RuleOf(d)) # {}
    <3>0. PICK c \in EnabledChannels(RuleOf(d)) :
            /\ \E n \in AttemptNumbers(d, c) : n >= MaxAttempts /\ FailedInAttempt(d, c, n)
            /\ d \in contended \/ ~LatestDelivered(d, c)
      BY <1>5, <2>2 DEF Earned
    <3>1. PICK n \in AttemptNumbers(d, c) : n >= MaxAttempts /\ FailedInAttempt(d, c, n)
      BY <3>0
    <3>2. c \in Channels
      BY EnabledAreChannels DEF TypeInv
    <3>3. \A m \in 1..MaxAttempts : \E e \in Channels : m \in AttemptNumbers(d, e)'
      BY <1>5, <2>2 DEF Earned, Grows
    <3>4. /\ n \in AttemptNumbers(d, c)' /\ FailedInAttempt(d, c, n)'
          /\ (d \in contended \/ ~LatestDelivered(d, c))'
      BY <1>3, <1>5, <3>0, <3>1, <3>2 DEF Grows
    <3>5. QED
      BY <1>1, <3>1, <3>3, <3>4 DEF Earned
  <2>3. QED
    BY <2>1, <2>2
<1>6. QED
  BY <1>1, <1>2, <1>4, <1>5

\* A step of one sender keeps the invariant if it keeps its own part of it.
LEMMA EarnedMove ==
  ASSUME TypeInv, CarefulInv, EarnedInv, ~reconfigured, NEW s \in Senders, OthersKept(s),
         UNCHANGED <<channel, links, reconfigured>>, contended \subseteq contended', Grows(s),
         NoGaps', EnabledAttempted',
         \A d \in Deliveries :
           delivery'[d].status = "FAILED" => delivery[d].status = "FAILED" \/ Earned(d)',
         BatchEarned(s)', WorkEarned(s)'
  PROVE  EarnedInv'
<1> USE DEF TypeInv
<1>1. ASSUME NEW d \in Deliveries, delivery'[d].status = "FAILED"
      PROVE  Earned(d)'
  <2>1. CASE delivery[d].status = "FAILED"
    <3>1. Earned(d)
      BY <2>1 DEF EarnedInv, FailureIsEarned, Earned
    <3>2. ~Holds(s, d) \/ d \in contended
      BY <2>1, HeldIsUnsettled DEF Unsettled
    <3>3. QED
      BY <3>1, <3>2, EarnedSurvives
  <2>2. QED
    BY <1>1, <2>1
<1>2. FailureIsEarned'
  BY <1>1 DEF FailureIsEarned, Earned
<1>3. ASSUME NEW t \in Senders \ {s}
      PROVE  BatchEarned(t)'
  <2>1. \A job \in sender[t].batch :
          /\ job.delivery \in Deliveries
          /\ job.enabled = EnabledChannels(RuleOf(job.delivery))
          /\ job.failed \subseteq job.enabled \ job.done
          /\ AllBelow(job.delivery, job.attempt)
    BY JobsAreEarned, SenderTypes
  <2>2. \A job \in sender[t].batch :
          /\ job.enabled = EnabledChannels(RuleOf(job.delivery))'
          /\ AllBelow(job.delivery, job.attempt)'
    BY <2>1, EarnedSurvives
  <2>3. QED
    BY <2>1, <2>2 DEF BatchEarned, OthersKept
<1>4. ASSUME NEW t \in Senders \ {s}
      PROVE  WorkEarned(t)'
  <2> SUFFICES ASSUME sender[t].phase \in Sending
               PROVE  WorkEarned(t)'
    BY DEF WorkEarned, OthersKept
  <2>1. PICK d \in Deliveries :
          /\ d = sender[t].job.delivery
          /\ sender[t].job.enabled = EnabledChannels(RuleOf(d))
          /\ Unrecorded(t) \cup sender[t].job.failed \subseteq sender[t].job.enabled
          /\ AllBelow(d, sender[t].job.attempt)
          /\ \A c \in sender[t].job.failed :
               c \in Unrecorded(t) \/ StillFailed(d, c, sender[t].job.attempt)
          /\ sender[t].phase = "recordSuccess" => sender[t].channel \notin sender[t].job.failed
          /\ sender[t].phase = "finish" => sender[t].todo = {}
    BY JobsAreEarned
  <2>2. PICK n \in Nat : n = sender[t].job.attempt
    BY SenderTypes
  <2>3. ~Holds(s, d) \/ d \in contended
    <3>1. Holds(t, d)
      BY <2>1, InHandIs
    <3>2. QED
      BY <3>1, OthersDoNotHold
  <2>4. sender[t].job.failed \subseteq Channels
    BY <2>1, EnabledAreChannels
  <2>5. /\ EnabledChannels(RuleOf(d))' = EnabledChannels(RuleOf(d)) /\ AllBelow(d, n)'
        /\ \A c \in sender[t].job.failed : c \in Unrecorded(t) \/ StillFailed(d, c, n)'
    BY <2>1, <2>2, <2>3, <2>4, EarnedSurvives
  <2>6. sender'[t] = sender[t] /\ Unrecorded(t)' = Unrecorded(t)
    BY DEF OthersKept, Unrecorded
  <2>7. QED
    BY <2>1, <2>2, <2>5, <2>6 DEF WorkEarned
<1>5. QED
  BY <1>2, <1>3, <1>4 DEF EarnedInv

\* Steps that record no attempt.
LEMMA EarnedQuietMove ==
  ASSUME TypeInv, CarefulInv, EarnedInv, ~reconfigured, NEW s \in Senders, OthersKept(s),
         UNCHANGED <<channel, links, attempts, reconfigured>>, contended \subseteq contended',
         \A d \in Deliveries :
           delivery'[d].status = "FAILED" => delivery[d].status = "FAILED" \/ Earned(d)',
         BatchEarned(s)', WorkEarned(s)'
  PROVE  EarnedInv'
<1>1. Grows(s)
  BY SameGrows
<1>2. NoGaps'
  <2> SUFFICES ASSUME NEW d \in Deliveries, NEW c \in Channels, NEW n \in AttemptNumbers(d, c)'
               PROVE  AllBelow(d, n)'
    BY DEF NoGaps
  <2>1. n \in AttemptNumbers(d, c)
    BY DEF AttemptNumbers
  <2>2. AllBelow(d, n)
    BY <2>1 DEF EarnedInv, NoGaps
  <2>3. QED
    BY <1>1, <2>2, EarnedSurvives
<1>3. EnabledAttempted'
  <2> SUFFICES ASSUME NEW d \in Deliveries, NEW c \in Channels, Attempted(d, c)'
               PROVE  c \in EnabledChannels(RuleOf(d))'
    BY DEF EnabledAttempted
  <2>1. Attempted(d, c)
    BY DEF Attempted
  <2>2. QED
    BY <2>1 DEF EarnedInv, EnabledAttempted, EnabledChannels
<1>4. QED
  BY <1>1, <1>2, <1>3, EarnedMove

LEMMA EarnedBetween ==
  ASSUME TypeInv, CarefulInv, EarnedInv, ~reconfigured, NEW s \in Senders, OthersKept(s),
         UNCHANGED <<channel, links, attempts, reconfigured, contended>>,
         \A d \in Deliveries :
           delivery'[d].status = "FAILED" => delivery[d].status = "FAILED" \/ Earned(d),
         sender'[s].phase \in {"idle", "requested", "delivering"},
         sender'[s].batch \subseteq sender[s].batch
  PROVE  EarnedInv'
<1>1. \A d : Earned(d)' = Earned(d)
  BY DEF Earned, EnabledChannels, AttemptNumbers, FailedInAttempt, LatestDelivered, Attempted
<1>2. \A job \in sender[s].batch :
        /\ job.enabled = EnabledChannels(RuleOf(job.delivery))'
        /\ job.failed \subseteq job.enabled \ job.done
        /\ AllBelow(job.delivery, job.attempt)'
  BY JobsAreEarned DEF EnabledChannels, AllBelow, AttemptNumbers
<1>3. BatchEarned(s)' /\ WorkEarned(s)'
  BY <1>2 DEF BatchEarned, WorkEarned, Sending
<1>4. QED
  BY <1>1, <1>3, EarnedQuietMove

LEMMA ReadJobEarned ==
  ASSUME TypeInv, NoGaps, EnabledAttempted, NEW d \in Deliveries
  PROVE  /\ ReadJob(d).enabled = EnabledChannels(RuleOf(d)) /\ ReadJob(d).delivery = d
         /\ ReadJob(d).failed \subseteq ReadJob(d).enabled \ ReadJob(d).done
         /\ AllBelow(d, ReadJob(d).attempt)
<1>1. /\ ReadJob(d).enabled = EnabledChannels(RuleOf(d)) /\ ReadJob(d).delivery = d
      /\ ReadJob(d).failed = {c \in Channels : Attempted(d, c) /\ ~LatestDelivered(d, c)}
      /\ ReadJob(d).done = {c \in Channels : LatestDelivered(d, c)}
      /\ ReadJob(d).attempt = AttemptNumber(d)
  BY DEF ReadJob
<1> DEFINE S == {0} \cup UNION {AttemptNumbers(d, c) : c \in Channels}
<1>2. S \in SUBSET Nat /\ S # {}
  BY NumberTypes DEF TypeInv
<1>3. PICK n \in Nat : \A c \in Channels : \A m \in AttemptNumbers(d, c) : m <= n
  BY DEF TypeInv, NumbersBounded
<1>4. \A m \in S : m <= n
  BY <1>3
<1>5. Max(S) \in S
  <2> HIDE DEF S
  <2>1. QED
    BY <1>2, <1>3, <1>4, BoundedHasMaximum
<1>6. PICK m \in S : AttemptNumber(d) = 1 + m
  BY <1>5 DEF AttemptNumber
<1>7. AllBelow(d, AttemptNumber(d))
  <2>1. m \in Nat /\ AttemptNumber(d) - 1 = m
    BY <1>2, <1>6
  <2>2. CASE m = 0
    BY <2>1, <2>2 DEF AllBelow
  <2>3. CASE m # 0
    <3>1. PICK c \in Channels : m \in AttemptNumbers(d, c)
      BY <1>6, <2>3
    <3>2. AllBelow(d, m)
      BY <3>1 DEF NoGaps
    <3>3. \A k \in 1..m : k = m \/ k \in 1..(m - 1)
      BY <2>1
    <3>4. QED
      BY <2>1, <3>1, <3>2, <3>3 DEF AllBelow
  <2>4. QED
    BY <2>2, <2>3
<1>8. QED
  BY <1>1, <1>7 DEF EnabledAttempted

\* A failure of the given number is an attempt of that number.
LEMMA FailedIsRecorded ==
  ASSUME TypeOK, NEW d \in Deliveries, NEW c \in Channels, NEW n, FailedInAttempt(d, c, n)
  PROVE  n \in AttemptNumbers(d, c)
<1>1. DOMAIN attempts[d][c] = 1..Len(attempts[d][c])
  BY NumberTypes
<1>2. QED
  BY <1>1 DEF FailedInAttempt, AttemptNumbers

LEMMA EarnedBatches ==
  ASSUME TypeInv, CarefulInv, EarnedInv, ~reconfigured, NEW s \in Senders,
         \/ ReadPending(s)
         \/ \E job \in sender[s].batch : SettleAtOnce(s, job)
         \/ Finish(s) \/ Throws(s) \/ Crash(s)
  PROVE  EarnedInv'
<1> USE DEF TypeInv
<1>1. CASE ReadPending(s)
  <2>1. /\ sender'[s].phase \in {"idle", "delivering"} /\ OthersKept(s)
        /\ contended \subseteq contended'
        /\ \A job \in sender'[s].batch : \E d \in Deliveries : Due(d) /\ job = ReadJob(d)
    BY <1>1, ReadPendingMoves
  <2>2. UNCHANGED <<channel, links, attempts, delivery, reconfigured>>
    BY <1>1 DEF ReadPending
  <2>3. \A job \in sender'[s].batch :
          /\ job.enabled = EnabledChannels(RuleOf(job.delivery))
          /\ job.failed \subseteq job.enabled \ job.done
          /\ AllBelow(job.delivery, job.attempt)
    BY <2>1, ReadJobEarned DEF EarnedInv
  <2>4. \A job \in sender'[s].batch :
          /\ job.enabled = EnabledChannels(RuleOf(job.delivery))'
          /\ AllBelow(job.delivery, job.attempt)'
    BY <2>2, <2>3 DEF EnabledChannels, AllBelow, AttemptNumbers
  <2>5. BatchEarned(s)' /\ WorkEarned(s)'
    BY <2>1, <2>3, <2>4 DEF BatchEarned, WorkEarned, Sending
  <2>6. \A d \in Deliveries : delivery'[d].status = "FAILED" => delivery[d].status = "FAILED"
    BY <2>2
  <2>7. QED
    BY <2>1, <2>2, <2>5, <2>6, EarnedQuietMove
<1>2. ASSUME NEW job \in sender[s].batch, SettleAtOnce(s, job)
      PROVE  EarnedInv'
  <2>1. PICK status \in Status :
          /\ Settle(job.delivery, status)
          /\ status = "FAILED" => job.enabled = {}
    BY <1>2 DEF SettleAtOnce, Status
  <2>2. /\ sender'[s].phase \in {"idle", "delivering"} /\ OthersKept(s)
        /\ sender'[s].batch = sender[s].batch \ {job}
    BY <1>2, NextDeliveryMoves, SenderTypes DEF SettleAtOnce, Sender
  <2>3. job.enabled = EnabledChannels(RuleOf(job.delivery))
    BY JobsAreEarned
  <2>4. \A d \in Deliveries :
          delivery'[d].status = "FAILED" => delivery[d].status = "FAILED" \/ Earned(d)
    <3>1. PICK e \in Deliveries : e = job.delivery
      BY SenderTypes
    <3>2. status = "FAILED" => Earned(e)
      BY <2>1, <2>3, <3>1 DEF Earned
    <3>3. delivery'[e].status = status /\ \A d \in Deliveries : d # e => delivery'[d] = delivery[d]
      BY <2>1, <3>1, SettleType
    <3>4. QED
      BY <3>2, <3>3
  <2>5. UNCHANGED <<channel, links, attempts, reconfigured, contended>>
    BY <1>2 DEF SettleAtOnce
  <2>6. QED
    BY <2>2, <2>4, <2>5, EarnedBetween
<1>3. CASE Finish(s)
  <2>1. PICK d \in Deliveries :
          /\ d = sender[s].job.delivery
          /\ sender[s].job.enabled = EnabledChannels(RuleOf(d))
          /\ sender[s].job.failed \subseteq sender[s].job.enabled
          /\ AllBelow(d, sender[s].job.attempt)
          /\ \A c \in sender[s].job.failed :
               c \in Unrecorded(s) \/ StillFailed(d, c, sender[s].job.attempt)
          /\ sender[s].todo = {}
    BY <1>3, JobsAreEarned DEF Finish, Sending
  <2>2. PICK status \in Status : status = FinalStatus(sender[s].job) /\ Settle(d, status)
    BY <1>3, <2>1 DEF Finish, FinalStatus, Status
  <2>3. ASSUME status = "FAILED"
        PROVE  Earned(d)
    <3>1. PICK c \in sender[s].job.failed : sender[s].job.attempt >= MaxAttempts
      BY <2>2, <2>3 DEF FinalStatus
    <3>2. PICK n \in Nat : n = sender[s].job.attempt /\ n >= MaxAttempts
      BY <3>1, SenderTypes
    <3>3. Unrecorded(s) = {}
      BY <1>3, <2>1 DEF Unrecorded, Recording, Finish
    <3>4. StillFailed(d, c, n) /\ c \in EnabledChannels(RuleOf(d)) /\ c \in Channels
      BY <2>1, <3>2, <3>3, EnabledAreChannels
    <3>5. n \in AttemptNumbers(d, c)
      BY <3>4, FailedIsRecorded DEF StillFailed
    <3>6. \A m \in 1..MaxAttempts : m = n \/ m \in 1..(n - 1)
      BY <3>2, ConstantsAssumption
    <3>7. \A m \in 1..MaxAttempts : \E e \in Channels : m \in AttemptNumbers(d, e)
      BY <2>1, <3>2, <3>4, <3>5, <3>6 DEF AllBelow
    <3>8. QED
      BY <3>2, <3>4, <3>5, <3>7 DEF Earned, StillFailed
  <2>4. \A e \in Deliveries :
          delivery'[e].status = "FAILED" => delivery[e].status = "FAILED" \/ Earned(e)
    BY <2>2, <2>3, SettleType
  <2>5. /\ sender'[s].phase \in {"idle", "delivering"} /\ OthersKept(s)
        /\ sender'[s].batch = sender[s].batch
    BY <1>3, NextDeliveryMoves, SenderTypes DEF Finish, Sender
  <2>6. UNCHANGED <<channel, links, attempts, reconfigured, contended>>
    BY <1>3 DEF Finish
  <2>7. QED
    BY <2>4, <2>5, <2>6, EarnedBetween
<1>4. CASE Throws(s) \/ Crash(s)
  <2>1. /\ sender' = [sender EXCEPT ![s] = IdleSender]
        /\ UNCHANGED <<channel, links, delivery, attempts, reconfigured, contended>>
    BY <1>4 DEF Throws, Crash
  <2>2. QED
    BY <2>1, SenderResets, EarnedBetween
<1>5. QED
  BY <1>1, <1>2, <1>3, <1>4

\* The current delivery goes on, and no attempt is recorded.
LEMMA EarnedWork ==
  ASSUME TypeInv, CarefulInv, EarnedInv, ~reconfigured, NEW s \in Senders, OthersKept(s),
         sender[s].phase \in Sending, JobKept(s), sender'[s].phase # "finish",
         UNCHANGED <<channel, links, attempts, delivery, reconfigured, contended>>,
         Unrecorded(s)' = Unrecorded(s),
         sender'[s].job.failed \subseteq sender[s].job.failed \cup Unrecorded(s),
         sender'[s].phase = "recordSuccess" => sender'[s].channel \notin sender'[s].job.failed
  PROVE  EarnedInv'
<1>1. PICK d \in Deliveries :
        /\ d = sender[s].job.delivery
        /\ sender[s].job.enabled = EnabledChannels(RuleOf(d))
        /\ Unrecorded(s) \cup sender[s].job.failed \subseteq sender[s].job.enabled
        /\ AllBelow(d, sender[s].job.attempt)
        /\ \A c \in sender[s].job.failed :
             c \in Unrecorded(s) \/ StillFailed(d, c, sender[s].job.attempt)
  BY JobsAreEarned
<1>2. PICK n \in Nat : n = sender[s].job.attempt
  BY SenderTypes DEF TypeInv
<1>3. /\ \A e : EnabledChannels(RuleOf(e))' = EnabledChannels(RuleOf(e))
      /\ \A e, m : AllBelow(e, m)' = AllBelow(e, m)
      /\ \A c : StillFailed(d, c, n)' = StillFailed(d, c, n)
  BY DEF EnabledChannels, AllBelow, AttemptNumbers, StillFailed, FailedInAttempt,
         LatestDelivered, Attempted
<1>4. \A c \in sender'[s].job.failed : c \in Unrecorded(s)' \/ StillFailed(d, c, n)'
  BY <1>1, <1>2, <1>3
<1>5. WorkEarned(s)'
  BY <1>1, <1>2, <1>3, <1>4 DEF WorkEarned, JobKept
<1>6. BatchEarned(s)'
  BY <1>3, JobsAreEarned DEF BatchEarned, JobKept
<1>7. QED
  BY <1>5, <1>6, EarnedQuietMove

LEMMA EarnedSends ==
  ASSUME TypeInv, CarefulInv, EarnedInv, ~reconfigured, NEW s \in Senders,
         \/ \E job \in sender[s].batch : BeginDelivery(s, job)
         \/ \E c \in Channels : SendSucceeds(s, c) \/ SendThrows(s, c)
         \/ RecordSuccessThrows(s)
  PROVE  EarnedInv'
<1> USE DEF TypeInv
<1>1. ASSUME NEW job \in sender[s].batch, BeginDelivery(s, job)
      PROVE  EarnedInv'
  <2>1. /\ sender'[s].phase = "send" /\ sender'[s].job = job /\ OthersKept(s)
        /\ sender'[s].todo = job.enabled \ job.done
        /\ sender'[s].batch = sender[s].batch \ {job}
        /\ UNCHANGED <<channel, links, attempts, delivery, reconfigured, contended>>
    BY <1>1, BeginDeliveryMoves DEF BeginDelivery
  <2>2. \A j \in sender[s].batch :
          /\ j.enabled = EnabledChannels(RuleOf(j.delivery))'
          /\ j.failed \subseteq j.enabled \ j.done
          /\ AllBelow(j.delivery, j.attempt)'
    BY <2>1, JobsAreEarned DEF EnabledChannels, AllBelow, AttemptNumbers
  <2>3. BatchEarned(s)'
    BY <2>1, <2>2 DEF BatchEarned
  <2>4. Unrecorded(s)' = job.enabled \ job.done
    BY <2>1 DEF Unrecorded, Recording
  <2>5. WorkEarned(s)'
    BY <2>1, <2>2, <2>4 DEF WorkEarned
  <2>6. \A d \in Deliveries : delivery'[d].status = "FAILED" => delivery[d].status = "FAILED"
    BY <2>1
  <2>7. QED
    BY <2>1, <2>3, <2>5, <2>6, EarnedQuietMove
<1>2. ASSUME NEW c \in Channels, SendSucceeds(s, c) \/ SendThrows(s, c)
      PROVE  EarnedInv'
  <2>1. /\ JobKept(s) /\ OthersKept(s) /\ sender[s].phase = "send" /\ c \in sender[s].todo
        /\ sender'[s].channel = c /\ sender'[s].todo = sender[s].todo \ {c}
        /\ \/ /\ sender'[s].phase = "recordSuccess"
              /\ sender'[s].job.failed = sender[s].job.failed \ {c}
           \/ /\ sender'[s].phase = "recordFailure"
              /\ sender'[s].job.failed = sender[s].job.failed \cup {c}
    BY <1>2, SendSucceedsMoves, SendThrowsMoves
  <2>2. Unrecorded(s)' = Unrecorded(s)
    BY <2>1 DEF Unrecorded, Recording
  <2>3. UNCHANGED <<channel, links, attempts, delivery, reconfigured, contended>>
    BY <1>2 DEF SendSucceeds, SendThrows
  <2>4. sender'[s].job.failed \subseteq sender[s].job.failed \cup Unrecorded(s)
    BY <2>1 DEF Unrecorded
  <2>5. QED
    BY <2>1, <2>2, <2>3, <2>4, EarnedWork DEF Sending
<1>3. CASE RecordSuccessThrows(s)
  <2>1. /\ JobKept(s) /\ OthersKept(s) /\ sender[s].phase = "recordSuccess"
        /\ sender'[s].phase = "recordFailure"
        /\ sender'[s].channel = sender[s].channel /\ sender'[s].todo = sender[s].todo
        /\ sender'[s].job.failed = sender[s].job.failed \cup {sender[s].channel}
    BY <1>3, RecordSuccessThrowsMoves
  <2>2. Unrecorded(s)' = Unrecorded(s) /\ sender[s].channel \in Unrecorded(s)
    BY <2>1 DEF Unrecorded, Recording
  <2>3. UNCHANGED <<channel, links, attempts, delivery, reconfigured, contended>>
    BY <1>3 DEF RecordSuccessThrows
  <2>4. QED
    BY <2>1, <2>2, <2>3, EarnedWork DEF Sending
<1>4. QED
  BY <1>1, <1>2, <1>3

\* A record that is appended leaves those before it.
LEMMA AppendKeeps ==
  ASSUME NEW seq \in Seq(Attempt), NEW new \in Attempt, NEW x
  PROVE  (\E i \in DOMAIN Append(seq, new) : Append(seq, new)[i] = x)
           <=> ((\E i \in DOMAIN seq : seq[i] = x) \/ new = x)
<1>1. /\ Len(seq) \in Nat /\ DOMAIN seq = 1..Len(seq)
      /\ DOMAIN Append(seq, new) = 1..(Len(seq) + 1)
      /\ \A i \in 1..Len(seq) : Append(seq, new)[i] = seq[i]
      /\ Append(seq, new)[Len(seq) + 1] = new
  OBVIOUS
<1>2. \A i \in 1..(Len(seq) + 1) : i \in 1..Len(seq) \/ i = Len(seq) + 1
  BY <1>1
<1>3. 1..Len(seq) \subseteq 1..(Len(seq) + 1) /\ Len(seq) + 1 \in 1..(Len(seq) + 1)
  BY <1>1
<1>4. QED
  BY <1>1, <1>2, <1>3

LEMMA EarnedRecords ==
  ASSUME TypeInv, CarefulInv, EarnedInv, ~reconfigured, NEW s \in Senders,
         RecordSuccess(s) \/ RecordFailure(s)
  PROVE  EarnedInv'
<1> USE DEF TypeInv
<1>1. PICK d \in Deliveries, c \in Channels, new \in Attempt :
        /\ d = sender[s].job.delivery /\ c = sender[s].channel
        /\ new.attempt = sender[s].job.attempt
        /\ new.delivered <=> sender[s].phase = "recordSuccess"
        /\ attempts' = [attempts EXCEPT ![d][c] = Append(@, new)]
        /\ sender[s].phase \in Recording /\ NextChannel(s)
        /\ UNCHANGED <<channel, links, delivery, reconfigured, contended>>
  BY Records DEF Recording
<1>2. PICK n \in Nat : n = sender[s].job.attempt /\ n = new.attempt
  BY <1>1, SenderTypes
<1>3. /\ sender[s].job.enabled = EnabledChannels(RuleOf(d))
      /\ Unrecorded(s) \cup sender[s].job.failed \subseteq sender[s].job.enabled
      /\ AllBelow(d, n)
      /\ \A f \in sender[s].job.failed : f \in Unrecorded(s) \/ StillFailed(d, f, n)
      /\ sender[s].phase = "recordSuccess" => c \notin sender[s].job.failed
  BY <1>1, <1>2, JobsAreEarned DEF Sending, Recording
<1>4. attempts' = [attempts EXCEPT ![d][c] = Append(@, new)] /\ TypeOK
  BY <1>1
<1>5. attempts'[d][c] = Append(attempts[d][c], new) /\ attempts[d][c] \in Seq(Attempt)
  BY <1>4, NumberTypes DEF TypeOK
<1>6. /\ \A e \in Deliveries, f \in Channels :
           e # d \/ f # c => attempts'[e][f] = attempts[e][f]
      /\ attempts' \in [Deliveries -> [Channels -> Seq(Attempt)]]
      /\ LatestDelivered(d, c)' => new.delivered
      /\ AttemptNumbers(d, c)' = AttemptNumbers(d, c) \cup {n}
  <2>1. /\ \A e \in Deliveries, f \in Channels :
             e # d \/ f # c => attempts'[e][f] = attempts[e][f]
        /\ attempts' \in [Deliveries -> [Channels -> Seq(Attempt)]]
        /\ LatestDelivered(d, c)' => new.delivered
    BY <1>4, RecordMoves
  <2>2. AttemptNumbers(d, c)' = AttemptNumbers(d, c) \cup {new.attempt}
    BY <1>5, RecordedNumbers
  <2>3. QED
    BY <1>2, <2>1, <2>2
<1>7. \A m : FailedInAttempt(d, c, m)'
               <=> FailedInAttempt(d, c, m) \/ new = [attempt |-> m, delivered |-> FALSE]
  <2> DEFINE old == attempts[d][c]
  <2>1. old \in Seq(Attempt) /\ attempts'[d][c] = Append(old, new)
    BY <1>5
  <2>2. \A x : (\E i \in DOMAIN attempts'[d][c] : attempts'[d][c][i] = x)
                 <=> ((\E i \in DOMAIN old : old[i] = x) \/ new = x)
    <3> HIDE DEF old
    <3>1. QED
      BY <2>1, AppendKeeps
  <2>3. QED
    BY <2>2 DEF FailedInAttempt
<1>8. \A e \in Deliveries : e # d => attempts'[e] = attempts[e]
  BY <1>4
<1>9. Holds(s, d)
  BY <1>1, InHandIs DEF Sending, Recording
<1>10. Grows(s)
  <2>1. ASSUME NEW e \in Deliveries, NEW f \in Channels
        PROVE  /\ AttemptNumbers(e, f) \subseteq AttemptNumbers(e, f)'
               /\ \A m : FailedInAttempt(e, f, m) => FailedInAttempt(e, f, m)'
    <3>1. CASE e = d /\ f = c
      BY <1>6, <1>7, <3>1
    <3>2. CASE e # d \/ f # c
      <4>1. attempts'[e][f] = attempts[e][f]
        BY <1>6, <3>2
      <4>2. QED
        BY <4>1 DEF AttemptNumbers, FailedInAttempt
    <3>3. QED
      BY <3>1, <3>2
  <2>2. QED
    BY <1>8, <1>9, <2>1 DEF Grows
<1>11. /\ JobKept(s) /\ OthersKept(s)
       /\ sender'[s].phase = IF sender[s].todo = {} THEN "finish" ELSE "send"
       /\ sender'[s].todo = sender[s].todo /\ sender'[s].job.failed = sender[s].job.failed
  BY <1>1, NextChannelMoves
<1>12. Unrecorded(s)' = sender[s].todo /\ Unrecorded(s) = sender[s].todo \cup {c}
  BY <1>1, <1>11 DEF Unrecorded, Recording
<1>13. \A e \in Deliveries :
         /\ EnabledChannels(RuleOf(e))' = EnabledChannels(RuleOf(e))
         /\ \A m : AllBelow(e, m) => AllBelow(e, m)'
  BY <1>1, <1>10, EarnedSurvives
<1>14. \A f \in Channels \ {c} : StillFailed(d, f, n) => StillFailed(d, f, n)'
  <2>1. \A f \in Channels \ {c} : attempts'[d][f] = attempts[d][f]
    BY <1>6
  <2>2. QED
    BY <1>1, <2>1, SameAttempts DEF StillFailed, FailedInAttempt
<1>15. WorkEarned(s)'
  <2>1. ASSUME NEW f \in sender[s].job.failed
        PROVE  f \in sender[s].todo \/ StillFailed(d, f, n)'
    <3>1. CASE f = c
      <4>1. ~new.delivered
        BY <1>1, <1>3, <3>1
      <4>2. new = [attempt |-> n, delivered |-> FALSE]
        BY <1>2, <4>1 DEF Attempt
      <4>3. QED
        BY <1>6, <1>7, <3>1, <4>1, <4>2 DEF StillFailed
    <3>2. CASE f # c
      <4>1. f \in Channels
        BY SenderTypes DEF Job
      <4>2. QED
        BY <1>3, <1>12, <1>14, <3>2, <4>1
    <3>3. QED
      BY <3>1, <3>2
  <2>2. QED
    BY <1>1, <1>2, <1>3, <1>11, <1>12, <1>13, <2>1 DEF WorkEarned, JobKept
<1>16. BatchEarned(s)'
  <2>1. \A job \in sender[s].batch : job.delivery \in Deliveries
    BY SenderTypes
  <2>2. QED
    BY <1>11, <1>13, <2>1, JobsAreEarned DEF BatchEarned, JobKept
<1>17. EnabledAttempted'
  <2> SUFFICES ASSUME NEW e \in Deliveries, NEW f \in Channels, Attempted(e, f)'
               PROVE  f \in EnabledChannels(RuleOf(e))'
    BY DEF EnabledAttempted
  <2>1. CASE e = d /\ f = c
    BY <1>3, <1>12, <1>13, <2>1
  <2>2. CASE e # d \/ f # c
    <3>1. Attempted(e, f)
      BY <1>6, <2>2 DEF Attempted
    <3>2. QED
      BY <1>13, <3>1 DEF EarnedInv, EnabledAttempted
  <2>3. QED
    BY <2>1, <2>2
<1>18. NoGaps'
  <2> SUFFICES ASSUME NEW e \in Deliveries, NEW f \in Channels, NEW m \in AttemptNumbers(e, f)'
               PROVE  AllBelow(e, m)'
    BY DEF NoGaps
  <2>1. CASE e = d /\ f = c /\ m = n
    BY <1>3, <1>13, <2>1
  <2>2. CASE m \in AttemptNumbers(e, f)
    BY <1>13, <2>2 DEF EarnedInv, NoGaps
  <2>3. e # d \/ f # c => AttemptNumbers(e, f)' = AttemptNumbers(e, f)
    BY <1>6, SameAttempts
  <2>4. QED
    BY <1>6, <2>1, <2>2, <2>3
<1>19. \A e \in Deliveries : delivery'[e].status = "FAILED" => delivery[e].status = "FAILED"
  BY <1>1
<1>20. UNCHANGED <<channel, links, reconfigured>> /\ contended \subseteq contended'
  BY <1>1
<1>21. QED
  BY <1>10, <1>11, <1>15, <1>16, <1>17, <1>18, <1>19, <1>20, EarnedMove

\* Steps that are not a sender's.
LEMMA EarnedOutside ==
  ASSUME TypeInv, EarnedInv, ~reconfigured,
         UNCHANGED <<channel, links, attempts, reconfigured, contended>>,
         \A d \in Deliveries : delivery'[d].status = "FAILED" => delivery[d].status = "FAILED",
         \A s \in Senders :
           /\ sender'[s].phase = sender[s].phase \/ sender'[s].phase = "requested"
           /\ sender'[s].batch = sender[s].batch /\ sender'[s].job = sender[s].job
           /\ sender'[s].todo = sender[s].todo /\ sender'[s].channel = sender[s].channel
  PROVE  EarnedInv'
<1>1. /\ \A d : Earned(d)' = Earned(d) /\ EnabledChannels(RuleOf(d))' = EnabledChannels(RuleOf(d))
      /\ \A d, n : AllBelow(d, n)' = AllBelow(d, n)
      /\ \A d, c : /\ AttemptNumbers(d, c)' = AttemptNumbers(d, c)
                   /\ Attempted(d, c)' = Attempted(d, c)
                   /\ \A n : StillFailed(d, c, n)' = StillFailed(d, c, n)
  BY DEF Earned, EnabledChannels, AllBelow, AttemptNumbers, FailedInAttempt, StillFailed,
         LatestDelivered, Attempted
<1>2. NoGaps' /\ EnabledAttempted'
  BY <1>1 DEF EarnedInv, NoGaps, EnabledAttempted
<1>3. \A d \in Deliveries : delivery'[d].status = "FAILED" => Earned(d)'
  BY <1>1 DEF EarnedInv, FailureIsEarned, Earned
<1>4. FailureIsEarned'
  BY <1>3 DEF FailureIsEarned, Earned
<1>5. ASSUME NEW s \in Senders
      PROVE  BatchEarned(s)' /\ WorkEarned(s)'
  <2>1. BatchEarned(s)'
    BY <1>1, JobsAreEarned DEF BatchEarned
  <2>2. WorkEarned(s)'
    <3> SUFFICES ASSUME sender'[s].phase \in Sending
                 PROVE  WorkEarned(s)'
      BY DEF WorkEarned
    <3>1. sender[s].phase \in Sending /\ sender'[s].phase = sender[s].phase
      BY DEF Sending
    <3>2. Unrecorded(s)' = Unrecorded(s)
      BY <3>1 DEF Unrecorded
    <3>3. PICK n \in Nat : n = sender[s].job.attempt
      BY SenderTypes DEF TypeInv
    <3>4. WorkEarned(s)
      BY DEF EarnedInv
    <3>5. QED
      BY <1>1, <3>1, <3>2, <3>3, <3>4 DEF WorkEarned
  <2>3. QED
    BY <2>1, <2>2
<1>6. QED
  BY <1>2, <1>4, <1>5 DEF EarnedInv

LEMMA EarnedNext == TypeInv /\ CarefulInv /\ EarnedInv /\ [Next]_vars => EarnedInv'
<1> SUFFICES ASSUME TypeInv, CarefulInv, EarnedInv, [Next]_vars, ~reconfigured'
             PROVE  EarnedInv'
  BY DEF EarnedInv
<1>1. ~reconfigured /\ ~Administer
  <2>1. Administer => reconfigured'
    BY DEF Administer, SetChannelEnabled, DeleteChannel, UpdateRule, DeleteRule, ExpireRun,
           RemoveDeliveries
  <2>2. ASSUME NEW s \in Senders, SenderStep(s) \/ Crash(s)
        PROVE  reconfigured' = reconfigured
    BY <2>2
       DEF SenderStep, ReadPending, SettleAtOnce, BeginDelivery, SendSucceeds, SendThrows,
           RecordSuccess, RecordSuccessThrows, RecordFailure, Finish, Throws, Crash
  <2>3. Evaluate \/ (\E d \in Deliveries : DelayElapses(d)) \/ UNCHANGED vars
          => reconfigured' = reconfigured
    BY DEF Evaluate, CreateDeliveries, DelayElapses, vars
  <2>4. QED
    BY <2>1, <2>2, <2>3 DEF Next, Deliver
<1>2. CASE \E s \in Senders : SenderStep(s) \/ Crash(s)
  BY <1>1, <1>2, EarnedBatches, EarnedSends, EarnedRecords DEF SenderStep
<1>3. CASE Evaluate
  <2>1. PICK s \in Senders, run \in Runs, matching \in SUBSET Rules :
          CreateDeliveries(s, run, matching)
    BY <1>3 DEF Evaluate
  <2>2. \A t \in Senders :
          /\ sender'[t].phase = sender[t].phase \/ sender'[t].phase = "requested"
          /\ sender'[t].batch = sender[t].batch /\ sender'[t].job = sender[t].job
          /\ sender'[t].todo = sender[t].todo /\ sender'[t].channel = sender[t].channel
    BY <2>1, SenderTypes DEF CreateDeliveries, Sender, TypeInv
  <2>3. /\ UNCHANGED <<channel, links, attempts, reconfigured, contended>>
        /\ \A d \in Deliveries : delivery'[d].status = "FAILED" => delivery[d].status = "FAILED"
    BY <2>1 DEF CreateDeliveries
  <2>4. QED
    BY <1>1, <2>2, <2>3, EarnedOutside
<1>4. CASE (\E d \in Deliveries : DelayElapses(d)) \/ UNCHANGED vars
  <2>1. UNCHANGED <<channel, links, attempts, sender, reconfigured, contended>>
    BY <1>4 DEF DelayElapses, vars
  <2>2. \A d \in Deliveries : delivery'[d].status = delivery[d].status
    <3>1. ASSUME NEW e \in Deliveries, DelayElapses(e)
          PROVE  \A d \in Deliveries : delivery'[d].status = delivery[d].status
      BY <3>1 DEF DelayElapses, TypeInv, TypeOK, Delivery
    <3>2. QED
      BY <1>4, <3>1 DEF vars
  <2>3. QED
    BY <1>1, <2>1, <2>2, EarnedOutside
<1>5. QED
  BY <1>1, <1>2, <1>3, <1>4 DEF Next, Deliver

\* Until something is reconfigured, and however calls of deliverPending overlap, crash and
\* fail to record: a delivery is FAILED only when its rule has no enabled channel, or when
\* all of maximumAttempts attempts are on record and an enabled channel has failed in the
\* last of them, which has not received a recorded success since unless two calls had the
\* delivery in hand at once.
THEOREM FailuresAreEarned == Spec => []FailureIsEarned
<1>1. Init => EarnedInv
  <2> SUFFICES ASSUME Init
               PROVE  EarnedInv
    OBVIOUS
  <2>1. EnabledAttempted /\ NoGaps
    BY DEF Init, EnabledAttempted, Attempted, NoGaps, AttemptNumbers
  <2>2. FailureIsEarned
    BY DEF Init, FailureIsEarned
  <2>3. \A s \in Senders : BatchEarned(s) /\ WorkEarned(s)
    BY DEF Init, IdleSender, BatchEarned, WorkEarned, Sending
  <2>4. QED
    BY <2>1, <2>2, <2>3 DEF EarnedInv
<1>2. TypeInv /\ CarefulInv /\ EarnedInv /\ [Next]_vars => EarnedInv'
  BY EarnedNext
<1>3. EarnedInv => FailureIsEarned
  BY DEF EarnedInv, FailureIsEarned
<1>4. QED
  BY <1>1, <1>2, <1>3, CarefulAlways, PTL DEF Spec
=============================================================================
