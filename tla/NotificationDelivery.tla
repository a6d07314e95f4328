------------------------- MODULE NotificationDelivery -------------------------
(***************************************************************************)
(* Delivery of notifications about workflow runs: the deliveries created   *)
(* for a rule and a run, the attempts recorded per channel, and the calls  *)
(* of deliverPending that send them (notification-delivery.service.ts).    *)
(*                                                                         *)
(* A "sender" is one call of deliverPending.  The retry interval starts    *)
(* one every minute whether or not the last has ended, a synchronization   *)
(* that created deliveries runs one of its own, and every API instance     *)
(* does both; nothing locks a delivery, so senders overlap.                *)
(***************************************************************************)
EXTENDS Integers, FiniteSetsExt, SequencesExt

CONSTANTS
  Rules,        \* notification rules
  Runs,         \* terminal workflow runs
  Channels,     \* notification channels, by the position in which a rule's are read
  Senders,      \* calls of deliverPending that may overlap
  MaxAttempts,  \* maximumAttempts
  MaxCrashes    \* bound: senders that die half way

ASSUME ConstantsAssumption ==
  /\ Rules # {} /\ Runs # {}
  /\ Channels # {} /\ Channels \subseteq Nat /\ IsFiniteSet(Channels)
  /\ MaxAttempts \in Nat \ {0} /\ MaxCrashes \in Nat

VARIABLES
  channel,   \* NotificationChannel.enabled, or that the row is gone
  links,     \* the channels each rule sends to
  delivery,  \* the NotificationDelivery row of each rule and run
  attempts,  \* the NotificationDeliveryAttempt rows, in the order of createdAt
  sender,    \* control state of each call of deliverPending
  received,  \* history: messages that reached a channel, two standing for more
  crashes,   \* senders that died so far
  reconfigured, \* history: has a manager or the retention changed anything
  contended     \* history: the deliveries that a sender read while another had them in hand

vars == <<channel, links, delivery, attempts, sender, received, crashes, reconfigured, contended>>
-----------------------------------------------------------------------------
\* A row is identified by its rule and run: neither comes back once it is removed.
Deliveries == Rules \X Runs
RuleOf(d) == d[1]
RunOf(d) == d[2]

ChannelState == {"enabled", "disabled", "removed"}
Status == {"PENDING", "DELIVERED", "FAILED"}
Delivery == [status : Status \cup {"ABSENT", "REMOVED"}, waiting : BOOLEAN]
Attempt == [attempt : Nat \ {0}, delivered : BOOLEAN]

\* What deliver needs of a delivery as findMany read it: the enabled channels of its
\* rule, those whose latest attempt succeeded, those whose latest attempt did not
\* (failedChannelIds, kept up to date while sending), and the number of this attempt.
Job == [delivery : Deliveries, enabled : SUBSET Channels, done : SUBSET Channels,
        failed : SUBSET Channels, attempt : Nat]

Phase == {"idle", "requested", "delivering", "send", "recordSuccess",
          "recordFailure", "finish"}

\* batch holds the deliveries still to be handled, todo the channels still to be sent
\* to, channel the one being sent to.
Sender == [phase : Phase, ids : SUBSET Deliveries, batch : SUBSET Job, job : Job,
           todo : SUBSET Channels, channel : Channels]

Present(d) == delivery[d].status \in Status
Attempted(d, c) == attempts[d][c] # <<>>
LatestDelivered(d, c) == Attempted(d, c) /\ Last(attempts[d][c]).delivered
EverDelivered(d, c) == \E i \in 1..Len(attempts[d][c]) : attempts[d][c][i].delivered
AttemptNumbers(d, c) == {attempts[d][c][i].attempt : i \in 1..Len(attempts[d][c])}
EnabledChannels(r) == {c \in links[r] : channel[c] = "enabled"}

NoJob == [delivery |-> CHOOSE d \in Deliveries : TRUE, enabled |-> {}, done |-> {},
          failed |-> {}, attempt |-> 0]
IdleSender == [phase |-> "idle", ids |-> {}, batch |-> {}, job |-> NoJob, todo |-> {},
               channel |-> CHOOSE c \in Channels : TRUE]

Init ==
  /\ channel \in [Channels -> {"enabled", "disabled"}]
  /\ links = [r \in Rules |-> Channels]
  /\ delivery = [d \in Deliveries |-> [status |-> "ABSENT", waiting |-> FALSE]]
  /\ attempts = [d \in Deliveries |-> [c \in Channels |-> <<>>]]
  /\ sender = [s \in Senders |-> IdleSender]
  /\ received = [d \in Deliveries |-> [c \in Channels |-> 0]]
  /\ crashes = 0
  /\ reconfigured = FALSE
  /\ contended = {}
-----------------------------------------------------------------------------
(***************************************************************************)
(* Creating deliveries and reading what is due.                            *)
(***************************************************************************)
\* evaluateRulesForRun: deliveries of the matching rules are inserted, skipping those
\* that exist; only when some row is new does this call go on to deliverPending.
CreateDeliveries(s, run, matching) ==
  /\ sender[s].phase = "idle"
  /\ \E r \in matching : delivery[<<r, run>>].status = "ABSENT"
  /\ \A r \in matching : delivery[<<r, run>>].status # "REMOVED"
  /\ delivery' = [d \in Deliveries |->
       IF RunOf(d) = run /\ RuleOf(d) \in matching /\ delivery[d].status = "ABSENT"
       THEN [status |-> "PENDING", waiting |-> FALSE] ELSE delivery[d]]
  /\ sender' = [sender EXCEPT ![s].phase = "requested", ![s].ids = matching \X {run}]
  /\ UNCHANGED <<channel, links, attempts, received, crashes, reconfigured, contended>>

\* Mutants of Due: a delivery is read whatever its status; only before its first attempt.
DueInAnyStatus(d) == Present(d) /\ ~delivery[d].waiting
DueBeforeFirstAttempt(d) ==
  /\ delivery[d].status = "PENDING" /\ ~delivery[d].waiting
  /\ \A c \in Channels : ~Attempted(d, c)

Due(d) == delivery[d].status = "PENDING" /\ ~delivery[d].waiting

\* Mutants of AttemptNumber: the latest attempt's number is used again; attempts are
\* counted from zero.
AttemptNumberAgain(d) == Max({0} \cup UNION {AttemptNumbers(d, c) : c \in Channels})

AttemptNumberFromZero(d) == 1 + Max({-1} \cup UNION {AttemptNumbers(d, c) : c \in Channels})

AttemptNumber(d) == 1 + Max({0} \cup UNION {AttemptNumbers(d, c) : c \in Channels})

ReadJob(d) ==
  [delivery |-> d,
   enabled |-> EnabledChannels(RuleOf(d)),
   done |-> {c \in Channels : LatestDelivered(d, c)},
   failed |-> {c \in Channels : Attempted(d, c) /\ ~LatestDelivered(d, c)},
   attempt |-> AttemptNumber(d)]

\* A sender has in hand what it read and has not settled yet, nor given up.
Holds(s, d) ==
  \/ \E job \in sender[s].batch : job.delivery = d
  \/ sender[s].phase \notin {"idle", "requested", "delivering"} /\ sender[s].job.delivery = d

\* History: a sender reads a delivery that another has in hand.
InHand(s, d) == \E other \in Senders \ {s} : Holds(other, d)

\* deliverPending reads all due deliveries, or those among the ids it was given,
\* together with their channels and attempts; what follows works on this copy.
ReadPending(s) ==
  /\ sender[s].phase \in {"idle", "requested"}
  /\ LET asked == IF sender[s].phase = "idle" THEN Deliveries ELSE sender[s].ids
         batch == {ReadJob(d) : d \in {e \in asked : Due(e)}}
     IN /\ sender' = [sender EXCEPT ![s] =
             IF batch = {} THEN IdleSender
             ELSE [IdleSender EXCEPT !.phase = "delivering", !.batch = batch]]
        /\ contended' = contended \cup {job.delivery : job \in {j \in batch : InHand(s, j.delivery)}}
  /\ UNCHANGED <<channel, links, delivery, attempts, received, crashes, reconfigured>>
-----------------------------------------------------------------------------
(***************************************************************************)
(* Delivering one notification.                                            *)
(***************************************************************************)
\* Mutants of ToSend: completed channels are sent to again; a channel that was
\* attempted counts as completed.
ToSendAll(job) == job.enabled
ToSendUnattempted(job) == job.enabled \ (job.done \cup job.failed)

ToSend(job) == job.enabled \ job.done

\* On to the next delivery of the batch, or the end of the call.
NextDelivery(s, batch) ==
  sender' = [sender EXCEPT ![s] =
    IF batch = {} THEN IdleSender
    ELSE [IdleSender EXCEPT !.phase = "delivering", !.batch = batch]]

Settle(d, status) ==
  delivery' = [delivery EXCEPT ![d] = [status |-> status, waiting |-> status = "PENDING"]]

\* No channel to send to: none is enabled, or all of them are done.
SettleAtOnce(s, job) ==
  /\ sender[s].phase = "delivering"
  /\ ToSend(job) = {}
  /\ Present(job.delivery)
  /\ Settle(job.delivery, IF job.enabled = {} THEN "FAILED" ELSE "DELIVERED")
  /\ NextDelivery(s, sender[s].batch \ {job})
  /\ UNCHANGED <<channel, links, attempts, received, crashes, reconfigured, contended>>

BeginDelivery(s, job) ==
  /\ sender[s].phase = "delivering"
  /\ ToSend(job) # {}
  /\ sender' = [sender EXCEPT ![s].phase = "send", ![s].job = job,
                              ![s].todo = ToSend(job), ![s].batch = @ \ {job}]
  /\ UNCHANGED <<channel, links, delivery, attempts, received, crashes, reconfigured, contended>>

Arrives(d, c) == received' = [received EXCEPT ![d][c] = IF @ = 2 THEN 2 ELSE @ + 1]

\* channelLinks have no ORDER BY; two senders that overlap read them in the same order.
NextToSend(s, c) == c \in sender[s].todo /\ \A e \in sender[s].todo : c <= e

SendSucceeds(s, c) ==
  /\ sender[s].phase = "send"
  /\ NextToSend(s, c)
  /\ Arrives(sender[s].job.delivery, c)
  /\ sender' = [sender EXCEPT ![s].phase = "recordSuccess", ![s].channel = c,
                              ![s].todo = @ \ {c}, ![s].job.failed = @ \ {c}]
  /\ UNCHANGED <<channel, links, delivery, attempts, crashes, reconfigured, contended>>

\* The Apprise command fails or is killed by its timeout: the message may have arrived.
SendThrows(s, c) ==
  /\ sender[s].phase = "send"
  /\ NextToSend(s, c)
  /\ Arrives(sender[s].job.delivery, c) \/ UNCHANGED received
  /\ sender' = [sender EXCEPT ![s].phase = "recordFailure", ![s].channel = c,
                              ![s].todo = @ \ {c}, ![s].job.failed = @ \cup {c}]
  /\ UNCHANGED <<channel, links, delivery, attempts, crashes, reconfigured, contended>>

\* The insert keeps the foreign keys and the unique delivery, channel and number.
Recordable(s) ==
  LET job == sender[s].job
      c == sender[s].channel
  IN /\ Present(job.delivery)
     /\ channel[c] # "removed"
     /\ job.attempt \notin AttemptNumbers(job.delivery, c)

Record(s, delivered) ==
  attempts' = [attempts EXCEPT ![sender[s].job.delivery][sender[s].channel] =
    Append(@, [attempt |-> sender[s].job.attempt, delivered |-> delivered])]

NextChannel(s) ==
  sender' = [sender EXCEPT ![s].phase = IF sender[s].todo = {} THEN "finish" ELSE "send"]

RecordSuccess(s) ==
  /\ sender[s].phase = "recordSuccess"
  /\ Recordable(s)
  /\ Record(s, TRUE)
  /\ NextChannel(s)
  /\ UNCHANGED <<channel, links, delivery, received, crashes, reconfigured, contended>>

\* The insert of the success throws into the same catch as the send: a message that
\* went out is recorded as failed.
RecordSuccessThrows(s) ==
  /\ sender[s].phase = "recordSuccess"
  /\ sender' = [sender EXCEPT ![s].phase = "recordFailure",
                              ![s].job.failed = @ \cup {sender[s].channel}]
  /\ UNCHANGED <<channel, links, delivery, attempts, received, crashes, reconfigured, contended>>

RecordFailure(s) ==
  /\ sender[s].phase = "recordFailure"
  /\ Recordable(s)
  /\ Record(s, FALSE)
  /\ NextChannel(s)
  /\ UNCHANGED <<channel, links, delivery, received, crashes, reconfigured, contended>>

\* Mutant of FinalStatus: the last attempt is given up one too early.
FinalStatusEarly(job) ==
  IF job.failed = {} THEN "DELIVERED"
  ELSE IF job.attempt >= MaxAttempts - 1 THEN "FAILED" ELSE "PENDING"

FinalStatus(job) ==
  IF job.failed = {} THEN "DELIVERED"
  ELSE IF job.attempt >= MaxAttempts THEN "FAILED" ELSE "PENDING"

\* The update is by id alone: it overwrites whatever another sender has made of it.
Finish(s) ==
  /\ sender[s].phase = "finish"
  /\ Present(sender[s].job.delivery)
  /\ Settle(sender[s].job.delivery, FinalStatus(sender[s].job))
  /\ NextDelivery(s, sender[s].batch)
  /\ UNCHANGED <<channel, links, attempts, received, crashes, reconfigured, contended>>

\* An update finds no row, or the insert of a failure breaks a key: the error leaves
\* deliverPending, and with it go the deliveries left in the batch.
Throws(s) ==
  /\ \/ \E job \in sender[s].batch : /\ sender[s].phase = "delivering"
                                     /\ ToSend(job) = {}
                                     /\ ~Present(job.delivery)
     \/ sender[s].phase = "recordFailure" /\ ~Recordable(s)
     \/ sender[s].phase = "finish" /\ ~Present(sender[s].job.delivery)
  /\ sender' = [sender EXCEPT ![s] = IdleSender]
  /\ UNCHANGED <<channel, links, delivery, attempts, received, crashes, reconfigured, contended>>

\* The process stops, or the database is out of reach.
Crash(s) ==
  /\ crashes < MaxCrashes
  /\ sender[s].phase # "idle"
  /\ crashes' = crashes + 1
  /\ sender' = [sender EXCEPT ![s] = IdleSender]
  /\ UNCHANGED <<channel, links, delivery, attempts, received, reconfigured, contended>>

\* nextAttemptAt is reached.
DelayElapses(d) ==
  /\ delivery[d].waiting
  /\ delivery' = [delivery EXCEPT ![d].waiting = FALSE]
  /\ UNCHANGED <<channel, links, attempts, sender, received, crashes, reconfigured, contended>>
-----------------------------------------------------------------------------
(***************************************************************************)
(* Managers, and the retention of runs.                                    *)
(***************************************************************************)
SetChannelEnabled(c, state) ==
  /\ channel[c] # "removed" /\ channel[c] # state
  /\ channel' = [channel EXCEPT ![c] = state]
  /\ reconfigured' = TRUE
  /\ UNCHANGED <<links, delivery, attempts, sender, received, crashes, contended>>

\* deleteChannel: its links and its attempts go with it.
DeleteChannel(c) ==
  /\ channel[c] # "removed"
  /\ channel' = [channel EXCEPT ![c] = "removed"]
  /\ links' = [r \in Rules |-> links[r] \ {c}]
  /\ attempts' = [d \in Deliveries |-> [attempts[d] EXCEPT ![c] = <<>>]]
  /\ reconfigured' = TRUE
  /\ UNCHANGED <<delivery, sender, received, crashes, contended>>

UpdateRule(r, channels) ==
  /\ channels # {} /\ channels # links[r]
  /\ \A c \in channels : channel[c] # "removed"
  /\ \E run \in Runs : delivery[<<r, run>>].status # "REMOVED"
  /\ links' = [links EXCEPT ![r] = channels]
  /\ reconfigured' = TRUE
  /\ UNCHANGED <<channel, delivery, attempts, sender, received, crashes, contended>>

\* The deletion of a rule or of an expired run takes its deliveries with it.
RemoveDeliveries(gone) ==
  /\ \E d \in gone : delivery[d].status # "REMOVED"
  /\ delivery' = [d \in Deliveries |->
       IF d \in gone THEN [status |-> "REMOVED", waiting |-> FALSE] ELSE delivery[d]]
  /\ attempts' = [d \in Deliveries |->
       IF d \in gone THEN [c \in Channels |-> <<>>] ELSE attempts[d]]
  /\ reconfigured' = TRUE
  /\ UNCHANGED <<channel, links, sender, received, crashes, contended>>
DeleteRule(r) == RemoveDeliveries({r} \X Runs)
ExpireRun(run) == RemoveDeliveries(Rules \X {run})
-----------------------------------------------------------------------------
SenderStep(s) ==
  \/ ReadPending(s)
  \/ \E job \in sender[s].batch : SettleAtOnce(s, job) \/ BeginDelivery(s, job)
  \/ \E c \in Channels : SendSucceeds(s, c) \/ SendThrows(s, c)
  \/ RecordSuccess(s) \/ RecordSuccessThrows(s) \/ RecordFailure(s)
  \/ Finish(s) \/ Throws(s)

Evaluate ==
  \E s \in Senders, run \in Runs, matching \in SUBSET Rules : CreateDeliveries(s, run, matching)

Administer ==
  \/ \E c \in Channels, state \in {"enabled", "disabled"} : SetChannelEnabled(c, state)
  \/ \E c \in Channels : DeleteChannel(c)
  \/ \E r \in Rules, channels \in SUBSET Channels : UpdateRule(r, channels)
  \/ \E r \in Rules : DeleteRule(r)
  \/ \E run \in Runs : ExpireRun(run)

Deliver ==
  \/ Evaluate
  \/ \E s \in Senders : SenderStep(s) \/ Crash(s)
  \/ \E d \in Deliveries : DelayElapses(d)

Next == Deliver \/ Administer
Spec == Init /\ [][Next]_vars

\* Behaviours in which things are only taken away: channels, rules and runs.
Delete ==
  \/ \E c \in Channels : DeleteChannel(c)
  \/ \E r \in Rules : DeleteRule(r)
  \/ \E run \in Runs : ExpireRun(run)
DeletingSpec == Init /\ [][Deliver \/ Delete]_vars

\* The retry interval keeps firing, commands and statements return, delays end.
Fairness ==
  /\ \A s \in Senders : WF_vars(SenderStep(s))
  /\ \A d \in Deliveries : WF_vars(DelayElapses(d))
FairSpec == Spec /\ Fairness
-----------------------------------------------------------------------------
\* Type invariant of the notification tables and of the senders.
TypeOK ==
  /\ channel \in [Channels -> ChannelState]
  /\ links \in [Rules -> SUBSET Channels]
  /\ delivery \in [Deliveries -> Delivery]
  /\ attempts \in [Deliveries -> [Channels -> Seq(Attempt)]]
  /\ sender \in [Senders -> Sender]
  /\ received \in [Deliveries -> [Channels -> 0..2]]
  /\ crashes \in 0..MaxCrashes
  /\ reconfigured \in BOOLEAN
  /\ contended \subseteq Deliveries

\* While channels, rules and runs are only taken away: a delivery that is shown as
\* DELIVERED has reached every enabled channel its rule still has, whoever sent it, and
\* whoever crashed or failed to record what it sent.
DeliveredMeansReceived ==
  \A d \in Deliveries : delivery[d].status = "DELIVERED" =>
    \A c \in EnabledChannels(RuleOf(d)) : received[d][c] > 0

\* An attempt of the given number failed on this channel, by the record of it.
FailedInAttempt(d, c, n) == \E i \in DOMAIN attempts[d][c] : attempts[d][c][i] = [attempt |-> n, delivered |-> FALSE]

\* Until something is reconfigured, and however senders overlap, crash and fail to record:
\* a delivery is given up only when all of maximumAttempts attempts are on record, and an
\* enabled channel has failed in the last of them; and that channel has not received a
\* recorded success since, unless two senders had the delivery in hand at once.
FailureIsEarned ==
  ~reconfigured => \A d \in Deliveries : delivery[d].status = "FAILED" =>
    \/ EnabledChannels(RuleOf(d)) = {}
    \/ /\ \A n \in 1..MaxAttempts : \E c \in Channels : n \in AttemptNumbers(d, c)
       /\ \E c \in EnabledChannels(RuleOf(d)) :
            /\ \E n \in AttemptNumbers(d, c) : n >= MaxAttempts /\ FailedInAttempt(d, c, n)
            /\ d \in contended \/ ~LatestDelivered(d, c)

\* However senders overlap: an attempt that is about to be recorded has a number of its
\* own, so recording it cannot fail on the unique key and lose the rest of the batch,
\* unless two senders had that very delivery in hand at once.
AttemptIsFresh ==
  \A s \in Senders :
    sender[s].phase \in {"send", "recordSuccess", "recordFailure"} /\ sender[s].job.delivery \notin contended =>
      \A c \in sender[s].todo \cup (IF sender[s].phase = "send" THEN {} ELSE {sender[s].channel}) :
        sender[s].job.attempt \notin AttemptNumbers(sender[s].job.delivery, c)

\* However senders overlap: a message goes out to a channel whose success is on record
\* only for a delivery that two senders had in hand at once.
CompletedNotResent ==
  [][\A d \in Deliveries, c \in Channels :
       received'[d][c] > received[d][c] => ~EverDelivered(d, c) \/ d \in contended]_vars

\* However senders overlap: a settled delivery is reopened, or settled differently, only
\* when two senders had it in hand at once.
SettledIsFinal ==
  [][\A d \in Deliveries :
       delivery[d].status \in {"DELIVERED", "FAILED"}
         => delivery'[d].status \in {delivery[d].status, "REMOVED"} \/ d \in contended]_vars

\* notification-delivery.service.spec.ts: a retry is made "without resending completed
\* channels": no message goes out to a channel whose success is on record.
NeverResent ==
  [][\A d \in Deliveries, c \in Channels :
       received'[d][c] > received[d][c] => ~EverDelivered(d, c)]_vars

\* Every pending delivery is settled in the end, also after its sender crashed, lost a
\* race for an attempt number or was thrown out by a removed channel.
EventuallySettled ==
  \A d \in Deliveries : delivery[d].status = "PENDING" ~> delivery[d].status # "PENDING"
=============================================================================
