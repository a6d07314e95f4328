----------------------------- MODULE SystemStatus -----------------------------
(***************************************************************************)
(* The status of the API that the layout of every page shows: what the     *)
(* synchronizations under way have done so far and how many runs are        *)
(* running, published to the sockets in the room of authenticated clients. *)
(* A job is one call of syncRepositoryById; only what it tells the status  *)
(* and the runs it writes are here (RepositorySync has the rest).          *)
(***************************************************************************)
EXTENDS ApiRequests

LOCAL INSTANCE SequencesExt

VARIABLES
  server,     \* the activities, the one updated last at the end, and the count of running runs
  jobs,       \* the synchronizations: the next step and what they have read
  sockets     \* the connections of the clients, with the snapshots on their way

statusVars == <<server, jobs, sockets>>

Activity(sync, phase, completed, runs) ==
  [sync |-> sync, phase |-> phase, repositories |-> <<completed, IF phase = "LOADING_REPOSITORIES" THEN 0 ELSE 1>>,
   runs |-> runs]

GetSnapshot(s) ==
  [activity |-> IF s.syncs = <<>> THEN None ELSE Last(s.syncs), running |-> s.running]

\* getSystemStatusProgress
Progress(activity) ==
  CASE activity = None -> None
    [] activity # None /\ activity.phase = "PROCESSING_WORKFLOWS" -> activity.runs
    [] OTHER -> activity.repositories

WithoutSync(s, sync) == [s EXCEPT !.syncs = SelectSeq(@, LAMBDA a : a.sync # sync)]
WithActivity(s, activity) == [WithoutSync(s, activity.sync) EXCEPT !.syncs = Append(@, activity)]

InitSystemStatus ==
  /\ server = [syncs |-> <<>>, running |-> Cardinality({w \in DOMAIN db.runs : db.runs[w].status = "RUNNING"})]
  /\ jobs = [j \in DOMAIN setup.jobs |-> [at |-> "begin", todo |-> 0, total |-> 0, counted |-> 0, done |-> FALSE]]
  /\ sockets = [c \in DOMAIN setup.sockets |-> [at |-> "new", inbox |-> <<>>, shown |-> GetSnapshot(server)]]

InRoom(c) == sockets[c].at \in {"joined", "greeted"}

\* Mutant of Publish: of several changes only the first is published.
PublishFirst(states) ==
  /\ server' = Last(states)
  /\ sockets' = [c \in DOMAIN sockets |->
       IF InRoom(c) THEN [sockets[c] EXCEPT !.inbox = Append(@, GetSnapshot(states[1]))] ELSE sockets[c]]

\* Several changes in one turn of the event loop are published one after the other.
Publish(states) ==
  /\ server' = Last(states)
  /\ sockets' = [c \in DOMAIN sockets |->
       IF InRoom(c) THEN [sockets[c] EXCEPT !.inbox = @ \o [i \in DOMAIN states |-> GetSnapshot(states[i])]]
       ELSE sockets[c]]

Moves(j, at, states) == jobs' = [jobs EXCEPT ![j].at = at] /\ Publish(states)
-----------------------------------------------------------------------------
BeginProviderSync(j) ==
  /\ jobs[j].at = "begin"
  /\ Moves(j, "find", <<WithActivity(server, Activity(j, "LOADING_REPOSITORIES", 0, None))>>)
  /\ UNCHANGED db

\* findFirst: the repository is gone, it or its account is disabled, or the statement fails.
IsEnabled(r) ==
  r \in DOMAIN db.repositories /\ db.repositories[r].enabled /\ db.accounts[db.repositories[r].account].enabled
FindEnabled(j) ==
  /\ jobs[j].at = "find"
  /\ \/ (setup.fails \/ ~IsEnabled(setup.jobs[j])) /\ Moves(j, "end", <<WithoutSync(server, j)>>)
     \/ /\ IsEnabled(setup.jobs[j])
        /\ Moves(j, "fetch", <<WithActivity(server, Activity(j, "FETCHING_WORKFLOWS", 0, None))>>)
  /\ UNCHANGED db

Processing(j, done, total) == WithActivity(server, Activity(j, "PROCESSING_WORKFLOWS", 0, <<done, total>>))

\* The provider lists its runs; after an error the count is refreshed all the same.
ListWorkflowRuns(j) ==
  /\ jobs[j].at = "fetch"
  /\ \/ setup.fails /\ jobs' = [jobs EXCEPT ![j].at = "count"] /\ UNCHANGED <<server, sockets>>
     \/ \E n \in setup.listed :
          /\ jobs' = [jobs EXCEPT ![j].at = "process", ![j].todo = n, ![j].total = n]
          /\ Publish(<<Processing(j, 0, n)>>)
  /\ UNCHANGED db

\* A run is written, or tracked by no filter, or its repository is gone.
PersistRun(j) ==
  LET runs == {w \in DOMAIN db.runs : db.runs[w].repository = setup.jobs[j]}
      done == jobs[j].total - jobs[j].todo + 1
  IN /\ jobs[j].at = "process" /\ jobs[j].todo > 0
     /\ \/ UNCHANGED db
        \/ \E w \in runs, status \in setup.statuses : db' = [db EXCEPT !.runs[w].status = status]
     /\ jobs' = [jobs EXCEPT ![j].todo = @ - 1]
     /\ Publish(<<Processing(j, done, jobs[j].total)>>)

\* refreshRunningWorkflowCount: the count is read in one statement and assigned when it
\* has come back.
CountRunning(j) ==
  /\ jobs[j].at = "count" \/ (jobs[j].at = "process" /\ jobs[j].todo = 0)
  /\ jobs' = [jobs EXCEPT ![j].at = "assign", ![j].done = jobs[j].at = "process",
                ![j].counted = Cardinality({w \in DOMAIN db.runs : db.runs[w].status = "RUNNING"})]
  /\ UNCHANGED <<db, server, sockets>>

AssignCount(j) ==
  LET counted == [server EXCEPT !.running = jobs[j].counted]
      fetched == WithActivity(counted, Activity(j, "FETCHING_WORKFLOWS", 1, None))
  IN /\ jobs[j].at = "assign"
     /\ Moves(j, "end", (IF jobs[j].done THEN <<counted, fetched>> ELSE <<counted>>) \o <<WithoutSync(counted, j)>>)
     /\ UNCHANGED db
-----------------------------------------------------------------------------
(***************************************************************************)
(* Sockets.                                                                *)
(***************************************************************************)
Socket(c, fields) == sockets' = [sockets EXCEPT ![c] = Over(fields, @)] /\ UNCHANGED <<db, server, jobs>>

\* handleConnection: the token is checked, the room is joined, the snapshot is sent.
Connect(c) == sockets[c].at = "new" /\ Socket(c, [at |-> IF IsLive(db, setup.sockets[c]) THEN "admitted" ELSE "closed"])
Join(c) == sockets[c].at = "admitted" /\ Socket(c, [at |-> "joined"])
Greet(c) ==
  sockets[c].at = "joined" /\ Socket(c, [at |-> "greeted", inbox |-> Append(sockets[c].inbox, GetSnapshot(server))])
Receive(c) ==
  /\ sockets[c].inbox # <<>>
  /\ Socket(c, [inbox |-> Tail(sockets[c].inbox), shown |-> Head(sockets[c].inbox)])

\* The connection is lost: the client connects again with its token.  The page is left.
Reconnect(c) == setup.fails /\ InRoom(c) /\ Socket(c, [at |-> "new", inbox |-> <<>>])
Unmount(c) == sockets[c].at # "closed" /\ Socket(c, [at |-> "closed", inbox |-> <<>>])

StatusStep ==
  \/ \E j \in DOMAIN jobs : BeginProviderSync(j) \/ FindEnabled(j) \/ ListWorkflowRuns(j) \/ PersistRun(j)
                            \/ CountRunning(j) \/ AssignCount(j)
  \/ \E c \in DOMAIN sockets : Connect(c) \/ Join(c) \/ Greet(c) \/ Receive(c) \/ Reconnect(c) \/ Unmount(c)
=============================================================================
