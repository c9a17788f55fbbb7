------------------------------- MODULE TaskQueue -------------------------------
(***************************************************************************)
(* RedisTaskQueue (task_queue.py): queries, the Redis list of one task     *)
(* name, the result keys, and the listeners that pop the list and run      *)
(* task_fn in their thread pools.                                          *)
(*                                                                         *)
(* Every query has an id of its own, so a query and its task are one       *)
(* element of Task.  A result or an error is modelled by the place where   *)
(* task_fn produced it.  Each Redis command is a step; the clock only      *)
(* appears as deadlines and expiries that may strike.                      *)
(***************************************************************************)
EXTENDS Sequences, Naturals

CONSTANTS Task, Listener, Nil,
          Policies,   \* the policies callers use
          Once,       \* the values callers pass for `once`
          Outcomes,   \* how task_fn may end
          Reports,    \* task_fn calls task.update() on its way
          Trouble     \* whether deadlines, expiries and crashes may strike

ASSUME QueueConstantsAreValid ==
    /\ Policies \subseteq {"Local", "Remote", "LocalFirst", "RemoteFirst", "Auto"}
    /\ Once \subseteq BOOLEAN
    /\ Outcomes \subseteq {"value", "nothing", "error", "unpicklable"}
    /\ Reports \in BOOLEAN /\ Trouble \subseteq BOOLEAN
    /\ Nil \notin {"local", "remote"} /\ Nil \notin Listener

VARIABLES trouble,   \* deadlines, expiries and crashes strike in this behaviour
          query,     \* the caller's side of a query
          mine,      \* the RedisTask the caller has in memory
          stored,    \* the result key: absent, or a pickled task
          queue,     \* the Redis list
          announced, \* the listen key exists
          listener,  \* where a listener is in its loop, and the id it popped
          job,       \* the copy of the task a worker thread runs, and its host
          answer,    \* what the query returned or raised
          runs       \* history: the outcomes of task_fn for a task, by place

caller == <<query, mine, answer>>
server == <<stored, queue, announced>>
worker == <<listener, job>>
tvars  == <<trouble, query, mine, answer, stored, queue, announced, listener, job, runs>>

Place  == {"local", "remote"}
Absent == [result |-> Nil, error |-> Nil, there |-> FALSE]

\* A caller, a listener and a job are at one place of their loops; an answer
\* comes from one of the places task_fn runs at.
TQTypeOK ==
    /\ trouble \in Trouble
    /\ query \in [Task -> [pc : {"new", "local", "store", "push", "poll", "delete", "done"},
                           policy : Policies \cup {Nil}, once : BOOLEAN]]
    /\ mine \in [Task -> [result : Place \cup {Nil}, error : Place \cup {Nil},
                          saves : BOOLEAN]]
    /\ stored \in [Task -> [result : Place \cup {Nil}, error : Place \cup {Nil},
                            there : BOOLEAN]]
    /\ queue \in Seq(Task)
    /\ announced \in BOOLEAN
    /\ listener \in [Listener -> [pc : {"pop", "fetch", "announce", "down"},
                                  id : Task \cup {Nil}]]
    /\ job \in [Task -> [host : Listener \cup {Nil}, result : Place \cup {Nil},
                         error : Place \cup {Nil}, saves : BOOLEAN]]
    /\ answer \in [Task -> [kind : {"none", "nothing", "timeout", "unsaved"}, from : {Nil}]
                            \cup [kind : {"value", "error"}, from : Place]]
    /\ runs \in [Task -> [Place -> Seq(Outcomes)]]

NewTask == [result |-> Nil, error |-> Nil, saves |-> TRUE]
NoJob   == [host |-> Nil, result |-> Nil, error |-> Nil, saves |-> FALSE]

TQInit ==
    /\ trouble \in Trouble
    /\ query = [t \in Task |-> [pc |-> "new", policy |-> Nil, once |-> FALSE]]
    /\ mine = [t \in Task |-> NewTask]
    /\ stored = [t \in Task |-> Absent]
    /\ queue = <<>>
    /\ announced = FALSE
    /\ listener = [l \in Listener |-> [pc |-> "down", id |-> Nil]]
    /\ job = [t \in Task |-> NoJob]
    /\ answer = [t \in Task |-> [kind |-> "none", from |-> Nil]]
    /\ runs = [t \in Task |-> [p \in Place |-> <<>>]]

Goto(t, pc) == query' = [query EXCEPT ![t].pc = pc]
Ran(t, p)   == runs[t][p] # <<>>

-----------------------------------------------------------------------------
(* The task object.                                                        *)

\* set_task writes the task and clears its _save for good, so save() works
\* once for each object.
SetTask(t, obj) ==
    stored' = [stored EXCEPT ![t] = [result |-> obj.result, error |-> obj.error,
                                     there |-> TRUE]]

Saved(obj) == [obj EXCEPT !.saves = FALSE]

Save(t, obj) == IF obj.saves THEN SetTask(t, obj) ELSE UNCHANGED stored

\* Slip: the exception is raised without being kept.
EndedDropsError(obj, place, outcome) ==
    IF outcome = "value" THEN [obj EXCEPT !.result = place] ELSE obj

\* execute_task_locally keeps the result or the exception in the object.
Ended(obj, place, outcome) ==
    CASE outcome \in {"value", "unpicklable"} -> [obj EXCEPT !.result = place]
      [] outcome = "nothing" -> [obj EXCEPT !.result = Nil]
      [] outcome = "error"   -> [obj EXCEPT !.error = place]

\* set_task clears _save, and then pickle refuses the result: nothing is
\* written, and the error leaves the `finally` in place of the result.
SaveFails(obj, outcome) == outcome = "unpicklable" /\ obj.saves

Record(t, place, outcome) ==
    runs' = [runs EXCEPT ![t][place] = Append(@, outcome)]

Pending(t) == stored[t].there /\ stored[t].result = Nil /\ stored[t].error = Nil
Decided(t) == stored[t].there /\ ~Pending(t)

-----------------------------------------------------------------------------
(* The caller.                                                             *)

\* query: Auto looks at the listen key.
Query(t) ==
    /\ query[t].pc = "new"
    /\ \E p \in Policies, o \in Once :
          query' = [query EXCEPT ![t] =
             [pc |-> IF \/ p \in {"Local", "LocalFirst"}
                        \/ p = "Auto" /\ ~announced
                     THEN "local" ELSE "store",
              policy |-> p, once |-> o]]
    /\ UNCHANGED <<trouble, mine, answer, server, worker, runs>>

\* Slip for the mutation runs: the other place is asked after a success as well.
AfterSuccessToo(t, place, failed) ==
    IF place = "local"  /\ query[t].policy = "LocalFirst"  THEN "store"
    ELSE IF place = "remote" /\ query[t].policy = "RemoteFirst" THEN "local"
    ELSE "done"

\* Where a query goes on after an attempt at a place.
After(t, place, failed) ==
    IF failed /\ place = "local"  /\ query[t].policy = "LocalFirst"  THEN "store"
    ELSE IF failed /\ place = "remote" /\ query[t].policy = "RemoteFirst" THEN "local"
    ELSE "done"

Reply(t, kind, from) == answer' = [answer EXCEPT ![t] = [kind |-> kind, from |-> from]]

\* task.update() inside task_fn: saves the progress.  (An expired task makes
\* it raise: task_fn then ends with an error.)
LocalReports(t) ==
    /\ Reports /\ query[t].pc = "local" /\ mine[t].saves
    /\ SetTask(t, mine[t])
    /\ mine' = [mine EXCEPT ![t] = Saved(@)]
    /\ UNCHANGED <<trouble, query, answer, queue, announced, worker, runs>>

\* execute_task_locally by the caller; the save is in its `finally`.
LocalEnds(t) ==
    /\ query[t].pc = "local"
    /\ \E o \in Outcomes :
          LET obj  == Ended(mine[t], "local", o)
              kind == IF SaveFails(obj, o) THEN "unsaved"
                      ELSE IF o = "unpicklable" THEN "value" ELSE o
          IN  /\ IF SaveFails(obj, o) THEN UNCHANGED stored ELSE Save(t, obj)
              /\ mine' = [mine EXCEPT ![t] = Saved(obj)]
              /\ Reply(t, kind, IF kind \in {"value", "error"} THEN "local" ELSE Nil)
              /\ Goto(t, After(t, "local", kind \in {"error", "unsaved"}))
              /\ Record(t, "local", o)
    /\ UNCHANGED <<trouble, queue, announced, worker>>

\* execute_task_remotely: SETEX, then RPUSH, then GET every interval.
Store(t) ==
    /\ query[t].pc = "store" /\ answer[t].kind # "unsaved"
    /\ SetTask(t, mine[t])
    /\ mine' = [mine EXCEPT ![t] = Saved(@)]
    /\ Goto(t, "push")
    /\ UNCHANGED <<trouble, answer, queue, announced, worker, runs>>

\* LocalFirst stores the object that just failed to be stored: the fallback
\* raises the same error.
StoreFails(t) ==
    /\ query[t].pc = "store" /\ answer[t].kind = "unsaved"
    /\ Goto(t, "done")
    /\ UNCHANGED <<trouble, mine, answer, server, worker, runs>>

Push(t) ==
    /\ query[t].pc = "push"
    /\ queue' = Append(queue, t)
    /\ Goto(t, "poll")
    /\ UNCHANGED <<trouble, mine, answer, stored, announced, worker, runs>>

\* Slip: a missing result is taken for a result.
PollReturnsPending(t) ==
    /\ query[t].pc = "poll" /\ stored[t].there
    /\ Reply(t, "value", stored[t].result)
    /\ Goto(t, "done")
    /\ UNCHANGED <<trouble, mine, server, worker, runs>>

\* Slip: `once` is passed on to get_task, which then reads with GETDEL.
PollGetsAndDeletes(t) ==
    /\ query[t].pc = "poll" /\ stored[t].there /\ query[t].once
    /\ stored' = [stored EXCEPT ![t] = Absent]
    /\ UNCHANGED <<trouble, query, answer, mine, queue, announced, worker, runs>>

\* An error counts before a result; a result that is None does not count.
Poll(t) ==
    /\ query[t].pc = "poll"
    /\ Decided(t)
    /\ LET failed == stored[t].error # Nil
       IN  /\ IF failed THEN Reply(t, "error", stored[t].error)
              ELSE Reply(t, "value", stored[t].result)
           /\ Goto(t, IF query[t].once THEN "delete" ELSE After(t, "remote", failed))
    /\ UNCHANGED <<trouble, mine, server, worker, runs>>

DeleteResult(t) ==
    /\ query[t].pc = "delete"
    /\ stored' = [stored EXCEPT ![t] = Absent]
    /\ Goto(t, After(t, "remote", answer[t].kind = "error"))
    /\ UNCHANGED <<trouble, mine, answer, queue, announced, worker, runs>>

\* The deadline has passed and the last GET found nothing.
TimesOut(t) ==
    /\ trouble
    /\ query[t].pc = "poll" /\ ~Decided(t)
    /\ Reply(t, "timeout", Nil)
    /\ Goto(t, After(t, "remote", TRUE))
    /\ UNCHANGED <<trouble, mine, server, worker, runs>>

Call(t) == \/ LocalReports(t) \/ LocalEnds(t) \/ Store(t) \/ StoreFails(t) \/ Push(t)
           \/ Poll(t) \/ DeleteResult(t) \/ TimesOut(t)

-----------------------------------------------------------------------------
(* The listeners and their worker threads.                                 *)

At(l, pc, id) == listener' = [listener EXCEPT ![l] = [pc |-> pc, id |-> id]]

Listen(l) ==
    /\ listener[l].pc = "down"
    /\ At(l, "pop", Nil)
    /\ UNCHANGED <<trouble, caller, server, job, runs>>

\* Slip: the id is read and stays in the list.
PopPeeks(l) ==
    /\ listener[l].pc = "pop" /\ queue # <<>>
    /\ At(l, "fetch", Head(queue))
    /\ UNCHANGED <<trouble, caller, server, job, runs>>

\* BLPOP takes the id out of Redis; from here it is only in this process.
Pop(l) ==
    /\ listener[l].pc = "pop" /\ queue # <<>>
    /\ At(l, "fetch", Head(queue))
    /\ queue' = Tail(queue)
    /\ UNCHANGED <<trouble, caller, stored, announced, job, runs>>

\* A result key that is gone gives get_task = None: task_fn(None) fails in the
\* pool and nobody hears of it.
Fetch(l) ==
    /\ listener[l].pc = "fetch"
    /\ LET t == listener[l].id
       IN  job' = IF ~stored[t].there THEN job
                  ELSE [job EXCEPT ![t] =
                          [host |-> l, result |-> stored[t].result,
                           error |-> stored[t].error, saves |-> TRUE]]
    /\ At(l, "pop", Nil)
    /\ UNCHANGED <<trouble, caller, server, runs>>

\* Only a BLPOP that found nothing leads to set_queue_listened.
PopFindsNothing(l) ==
    /\ listener[l].pc = "pop" /\ queue = <<>>
    /\ At(l, "announce", Nil)
    /\ UNCHANGED <<trouble, caller, server, job, runs>>

\* The loop then sleeps and looks at the stop event; the pool finishes its jobs.
Announce(l) ==
    /\ listener[l].pc = "announce"
    /\ announced' = TRUE
    /\ \E pc \in {"pop", "down"} : At(l, pc, Nil)
    /\ UNCHANGED <<trouble, caller, stored, queue, job, runs>>

Running(t) == job[t].host # Nil

JobReports(t) ==
    /\ Reports /\ Running(t) /\ job[t].saves
    /\ SetTask(t, job[t])
    /\ job' = [job EXCEPT ![t] = Saved(@)]
    /\ UNCHANGED <<trouble, caller, queue, announced, listener, runs>>

JobEnds(t) ==
    /\ Running(t)
    /\ \E o \in Outcomes :
          /\ IF SaveFails(job[t], o) THEN UNCHANGED stored
             ELSE Save(t, Ended(job[t], "remote", o))
          /\ Record(t, "remote", o)
    /\ job' = [job EXCEPT ![t] = NoJob]
    /\ UNCHANGED <<trouble, caller, queue, announced, listener>>

\* The process dies with its popped id and its running jobs.
Crash(l) ==
    /\ trouble
    /\ listener[l].pc # "down"
    /\ At(l, "down", Nil)
    /\ job' = [t \in Task |-> IF job[t].host = l THEN NoJob ELSE job[t]]
    /\ UNCHANGED <<trouble, caller, server, runs>>

Work == \/ \E l \in Listener : Pop(l) \/ Fetch(l) \/ PopFindsNothing(l) \/ Announce(l)
        \/ \E t \in Task : JobReports(t) \/ JobEnds(t)

-----------------------------------------------------------------------------

\* SETEX keys run out after the queue's timeout, whatever the caller's timeout.
ResultExpires(t) ==
    /\ trouble /\ stored[t].there
    /\ stored' = [stored EXCEPT ![t] = Absent]
    /\ UNCHANGED <<trouble, caller, queue, announced, worker, runs>>

AnnouncementExpires ==
    /\ trouble /\ announced
    /\ announced' = FALSE
    /\ UNCHANGED <<trouble, caller, stored, queue, worker, runs>>

TQNext ==
    \/ \E t \in Task : Query(t) \/ Call(t) \/ ResultExpires(t)
    \/ Work
    \/ \E l \in Listener : Listen(l) \/ Crash(l)
    \/ AnnouncementExpires

TQSpec == TQInit /\ [][TQNext]_tvars

\* A caller goes on polling until its deadline, task_fn ends, and a listener
\* that runs goes round its loop.  A listener that was stopped is started again.
FairTQSpec ==
    /\ TQSpec
    /\ \A t \in Task : WF_tvars(Call(t)) /\ WF_tvars(JobEnds(t))
    /\ \A l \in Listener : WF_tvars(Listen(l) \/ Pop(l) \/ Fetch(l)
                                       \/ PopFindsNothing(l) \/ Announce(l))

-----------------------------------------------------------------------------
(* Properties.                                                             *)

\* A query answers with an outcome task_fn had for this very task, at the place
\* it names; nothing pending is ever taken for an answer.  (What cannot be
\* pickled is an answer to a local caller at most.)
AnswersAreGenuine ==
    \A t \in Task : query[t].pc = "done" /\ answer[t].kind \in {"value", "error"} =>
        \E p \in Place : /\ p = answer[t].from
                         /\ \E i \in DOMAIN runs[t][p] :
                               \/ runs[t][p][i] = answer[t].kind
                               \/ /\ runs[t][p][i] = "unpicklable"
                                  /\ p = "local" /\ answer[t].kind = "value"

\* However many listeners pop one list, a query runs task_fn at most once here
\* and at most once there, and twice only under a policy with a fallback.
RunsAtMostOnce ==
    \A t \in Task :
        /\ \A p \in Place : Len(runs[t][p]) <= 1
        /\ Ran(t, "local") /\ Ran(t, "remote")
              => query[t].policy \in {"LocalFirst", "RemoteFirst"}

\* With once=True the key goes away only after an outcome was there: pending
\* state is left for the worker (api/task_queue.rst 46).
PendingStateSurvives ==
    [][\A t \in Task : Pending(t) /\ ~stored[t].there' => ResultExpires(t)]_tvars

Failed(t, p) == \E i \in DOMAIN runs[t][p] : runs[t][p][i] = "error"

\* LocalFirst asks the queue only after task_fn failed here; RemoteFirst runs it
\* here only after it failed there or, where things go wrong, a deadline passed,
\* and raises no error but the local one.  (LocalFirst may raise the local error
\* without waiting for a listener: its first poll finds what it stored itself.)
FallbacksFollowFailures ==
    \A t \in Task :
        /\ query[t].policy = "LocalFirst" /\ Ran(t, "remote") => Failed(t, "local")
        /\ query[t].policy = "RemoteFirst" /\ Ran(t, "local")
              => trouble \/ Failed(t, "remote")
        /\ query[t].policy = "RemoteFirst" /\ query[t].pc = "done" /\ answer[t].kind = "error"
              => answer[t].from = "local"

\* Every query returns or raises.  Without deadlines this says that a living
\* listener serves every task.
QueriesEnd ==
    \A t \in Task : query[t].pc # "new" ~> query[t].pc = "done"
=============================================================================
