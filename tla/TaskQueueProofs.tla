---------------------------- MODULE TaskQueueProofs ----------------------------
(* Queries of a task queue, for any number of queries and listeners, every *)
(* policy, and deadlines, expiries and crashes at any step.                *)
EXTENDS TaskQueue, SequenceTheorems, TLAPS

\* A listener that goes to fetch has popped an id.
PoppedTyped == \A l \in Listener : listener[l].pc = "fetch" => listener[l].id \in Task

TInv == TQTypeOK /\ PoppedTyped

Pcs     == {"new", "local", "store", "push", "poll", "delete", "done"}
Queries == [Task -> [pc : Pcs, policy : Policies \cup {Nil}, once : BOOLEAN]]
Field   == Place \cup {Nil}
Stores  == [Task -> [result : Field, error : Field, there : BOOLEAN]]
Answers == [kind : {"none", "nothing", "timeout", "unsaved"}, from : {Nil}]
              \cup [kind : {"value", "error"}, from : Place]
Runs    == [Task -> [Place -> Seq(Outcomes)]]
Mines   == [Task -> [result : Field, error : Field, saves : BOOLEAN]]
Jobs    == [Task -> [host : Listener \cup {Nil}, result : Field, error : Field,
                     saves : BOOLEAN]]
Loops   == [Listener -> [pc : {"pop", "fetch", "announce", "down"}, id : Task \cup {Nil}]]

\* The type invariant, variable by variable.
LEMMA TypeParts ==
    TInv <=> /\ trouble \in Trouble /\ query \in Queries /\ mine \in Mines
             /\ stored \in Stores /\ queue \in Seq(Task) /\ announced \in BOOLEAN
             /\ listener \in Loops /\ job \in Jobs /\ answer \in [Task -> Answers]
             /\ runs \in Runs /\ PoppedTyped
  BY DEF TInv, TQTypeOK, Queries, Pcs, Mines, Field, Stores, Loops, Jobs, Answers, Runs

\* The same after a step.
LEMMA TypePartsNext ==
    ASSUME trouble' \in Trouble, query' \in Queries, mine' \in Mines,
           stored' \in Stores, queue' \in Seq(Task), announced' \in BOOLEAN,
           listener' \in Loops, job' \in Jobs, answer' \in [Task -> Answers],
           runs' \in Runs, PoppedTyped'
    PROVE  TInv'
  BY DEF TInv, TQTypeOK, Queries, Pcs, Mines, Field, Stores, Loops, Jobs, Answers, Runs

\* Before any query.
LEMMA QueueInitTyped == TQInit => TInv
  <1> SUFFICES ASSUME TQInit PROVE TInv
    OBVIOUS
  <1>1. /\ NewTask \in [result : Field, error : Field, saves : BOOLEAN]
        /\ Absent \in [result : Field, error : Field, there : BOOLEAN]
        /\ NoJob \in [host : Listener \cup {Nil}, result : Field, error : Field, saves : BOOLEAN]
    BY DEF Field, NewTask, Absent, NoJob
  <1>2. queue \in Seq(Task) /\ runs \in Runs
    <2>1. <<>> \in Seq(Task) /\ <<>> \in Seq(Outcomes)
      BY EmptySeq
    <2> DEFINE none == [p \in Place |-> <<>>]
    <2>2. none \in [Place -> Seq(Outcomes)]
      BY <2>1
    <2>3. queue = <<>> /\ runs = [t \in Task |-> none]
      BY DEF TQInit
    <2> HIDE DEF none
    <2> QED
      BY <2>1, <2>2, <2>3 DEF Runs
  <1>3. /\ mine \in [Task -> [result : Field, error : Field, saves : BOOLEAN]]
        /\ stored \in Stores
        /\ job \in [Task -> [host : Listener \cup {Nil}, result : Field, error : Field,
                              saves : BOOLEAN]]
    BY <1>1 DEF TQInit, Stores
  <1>4. answer \in [Task -> Answers] /\ query \in Queries
    BY DEF TQInit, Answers, Queries, Pcs
  <1>5. /\ trouble \in Trouble /\ announced \in BOOLEAN /\ PoppedTyped
        /\ listener \in [Listener -> [pc : {"pop", "fetch", "announce", "down"},
                                      id : Task \cup {Nil}]]
    BY DEF TQInit, PoppedTyped
  <1> QED
    BY <1>2, <1>3, <1>4, <1>5
    DEF TInv, TQTypeOK, Field, Runs, Stores, Answers, Queries, Pcs

\* A query that moves keeps its policy and leaves the others alone.
LEMMA GotoTyped ==
    ASSUME TInv, NEW t \in Task, NEW pc \in Pcs, Goto(t, pc)
    PROVE  /\ query' \in Queries
           /\ query'[t].pc = pc /\ query'[t].policy = query[t].policy
           /\ \A u \in Task \ {t} : query'[u] = query[u]
  <1>1. query \in Queries
    BY DEF TInv, TQTypeOK, Queries, Pcs
  <1> QED
    BY <1>1 DEF Goto, Queries

\* What a query answers names a place, or none.
LEMMA ReplyTyped ==
    ASSUME TInv, NEW t \in Task, NEW kind, NEW from, [kind |-> kind, from |-> from] \in Answers,
           Reply(t, kind, from)
    PROVE  /\ answer' \in [Task -> Answers]
           /\ answer'[t].kind = kind /\ answer'[t].from = from
           /\ \A u \in Task \ {t} : answer'[u] = answer[u]
  BY DEF TInv, TQTypeOK, Reply, Answers

\* A record of an outcome is added to what the task did at that place.
LEMMA RecordTyped ==
    ASSUME TInv, NEW t \in Task, NEW p \in Place, NEW o \in Outcomes, Record(t, p, o)
    PROVE  /\ runs' \in Runs
           /\ runs[t][p] \in Seq(Outcomes) /\ runs'[t][p] = Append(runs[t][p], o)
           /\ \A u \in Task, q \in Place : u # t \/ q # p => runs'[u][q] = runs[u][q]
  BY DEF TInv, TQTypeOK, Record, Runs

\* SETEX of an object.
LEMMA SetTaskTyped ==
    ASSUME TInv, NEW t \in Task, NEW obj, obj.result \in Field, obj.error \in Field,
           SetTask(t, obj)
    PROVE  /\ stored' \in Stores
           /\ stored'[t] = [result |-> obj.result, error |-> obj.error, there |-> TRUE]
           /\ \A u \in Task \ {t} : stored'[u] = stored[u]
  BY DEF TInv, TQTypeOK, SetTask, Stores, Field

\* The result key goes.
LEMMA AbsentTyped ==
    ASSUME TInv, NEW t \in Task, stored' = [stored EXCEPT ![t] = Absent]
    PROVE  /\ stored' \in Stores /\ stored'[t] = Absent /\ ~stored'[t].there
           /\ \A u \in Task \ {t} : stored'[u] = stored[u]
  BY DEF TInv, TQTypeOK, Absent, Stores, Field

\* An outcome is kept in one field; the other stays as it was.
LEMMA EndedTyped ==
    ASSUME NEW obj, obj \in [result : Field, error : Field, saves : BOOLEAN]
                        \cup [host : Listener \cup {Nil}, result : Field, error : Field,
                              saves : BOOLEAN],
           NEW p \in Place, NEW o \in Outcomes
    PROVE  LET e == Ended(obj, p, o)
           IN  /\ e.saves = obj.saves
               /\ e.result \in Field /\ e.error \in Field
               /\ o = "error" => e.result = obj.result /\ e.error = p
               /\ o \in {"value", "unpicklable"} => e.result = p /\ e.error = obj.error
               /\ o = "nothing" => e.result = Nil /\ e.error = obj.error
               /\ obj \in [result : Field, error : Field, saves : BOOLEAN]
                    => e \in [result : Field, error : Field, saves : BOOLEAN]
  <1>1. o \in {"value", "nothing", "error", "unpicklable"}
    BY QueueConstantsAreValid
  <1> QED
    BY <1>1 DEF Ended, Field

\* The save in the `finally` of an attempt: nothing is written, or the object.
LEMMA SaveTyped ==
    ASSUME TInv, NEW t \in Task, NEW obj, obj.result \in Field, obj.error \in Field,
           obj.saves \in BOOLEAN, NEW kept,
           IF kept THEN UNCHANGED stored ELSE Save(t, obj)
    PROVE  /\ stored' \in Stores
           /\ \/ stored' = stored
              \/ /\ ~kept /\ obj.saves
                 /\ stored'[t] = [result |-> obj.result, error |-> obj.error, there |-> TRUE]
                 /\ \A u \in Task \ {t} : stored'[u] = stored[u]
           /\ ~kept /\ obj.saves =>
                 stored'[t] = [result |-> obj.result, error |-> obj.error, there |-> TRUE]
  <1>1. stored \in Stores
    BY DEF TInv, TQTypeOK, Stores, Field
  <1> QED
    BY <1>1, SetTaskTyped DEF Save

\* A listener that moves leaves the others alone.
LEMMA AtTyped ==
    ASSUME TInv, NEW l \in Listener, NEW pc \in {"pop", "fetch", "announce", "down"},
           NEW id \in Task \cup {Nil}, pc = "fetch" => id \in Task, At(l, pc, id)
    PROVE  /\ listener' \in [Listener -> [pc : {"pop", "fetch", "announce", "down"},
                                           id : Task \cup {Nil}]]
           /\ PoppedTyped'
           /\ listener'[l].pc = pc /\ listener'[l].id = id
           /\ \A m \in Listener \ {l} : listener'[m] = listener[m]
  BY DEF TInv, TQTypeOK, PoppedTyped, At

\* Where a query goes on after an attempt.
LEMMA AfterTyped ==
    ASSUME NEW t \in Task, NEW place \in Place, NEW failed \in BOOLEAN
    PROVE  /\ After(t, place, failed) \in {"store", "local", "done"}
           /\ After(t, place, failed) = "store"
                => failed /\ place = "local" /\ query[t].policy = "LocalFirst"
           /\ After(t, place, failed) = "local"
                => failed /\ place = "remote" /\ query[t].policy = "RemoteFirst"
           /\ failed /\ place = "remote" /\ query[t].policy = "RemoteFirst"
                => After(t, place, failed) = "local"
           /\ failed /\ place = "local" /\ query[t].policy = "LocalFirst"
                => After(t, place, failed) = "store"
  BY DEF After

\* The caller's steps.
LEMMA CallerTyped ==
    ASSUME TInv, NEW t \in Task, Query(t) \/ Call(t)
    PROVE  TInv'
  <1>0. /\ trouble \in Trouble /\ query \in Queries /\ mine \in Mines
        /\ stored \in Stores /\ queue \in Seq(Task) /\ announced \in BOOLEAN
        /\ listener \in Loops /\ job \in Jobs /\ answer \in [Task -> Answers]
        /\ runs \in Runs /\ PoppedTyped
    BY TypeParts
  <1>1. mine[t] \in [result : Field, error : Field, saves : BOOLEAN]
    BY <1>0 DEF Mines
  <1>2. UNCHANGED <<trouble, announced, listener, job>> /\ PoppedTyped'
    <2>1. UNCHANGED <<trouble, announced, listener, job>>
      BY DEF Query, Call, LocalReports, LocalEnds, Store, StoreFails, Push, Poll, DeleteResult,
             TimesOut, worker, server
    <2> QED
      BY <1>0, <2>1 DEF PoppedTyped
  <1>3. CASE Query(t)
    <2>1. query' \in Queries
      BY <1>0, <1>3, QueueConstantsAreValid DEF Query, Queries, Pcs
    <2>2. UNCHANGED <<mine, answer, stored, queue, runs>>
      BY <1>3 DEF Query, server
    <2> QED
      BY <1>0, <1>2, <2>1, <2>2, TypePartsNext
  <1>4. CASE LocalReports(t)
    <2>1. stored' \in Stores
      BY <1>1, <1>4, SetTaskTyped DEF LocalReports
    <2>2. mine' \in Mines /\ UNCHANGED <<query, answer, queue, runs>>
      BY <1>0, <1>1, <1>4 DEF LocalReports, Saved, Mines
    <2> QED
      BY <1>0, <1>2, <2>1, <2>2, TypePartsNext
  <1>5. CASE LocalEnds(t)
    <2>1. PICK o \in Outcomes :
             LET obj  == Ended(mine[t], "local", o)
                 kind == IF SaveFails(obj, o) THEN "unsaved"
                         ELSE IF o = "unpicklable" THEN "value" ELSE o
             IN  /\ IF SaveFails(obj, o) THEN UNCHANGED stored ELSE Save(t, obj)
                 /\ mine' = [mine EXCEPT ![t] = Saved(obj)]
                 /\ Reply(t, kind, IF kind \in {"value", "error"} THEN "local" ELSE Nil)
                 /\ Goto(t, After(t, "local", kind \in {"error", "unsaved"}))
                 /\ Record(t, "local", o)
      BY <1>5 DEF LocalEnds
    <2> DEFINE obj  == Ended(mine[t], "local", o)
               kept == SaveFails(obj, o)
               kind == IF kept THEN "unsaved" ELSE IF o = "unpicklable" THEN "value" ELSE o
               from == IF kind \in {"value", "error"} THEN "local" ELSE Nil
    <2>2. obj \in [result : Field, error : Field, saves : BOOLEAN] /\ "local" \in Place
      BY <1>1, EndedTyped DEF Place
    <2>3. [kind |-> kind, from |-> from] \in Answers
      BY QueueConstantsAreValid DEF Answers, Place
    <2>4. /\ IF kept THEN UNCHANGED stored ELSE Save(t, obj)
          /\ mine' = [mine EXCEPT ![t] = Saved(obj)]
          /\ Reply(t, kind, from)
          /\ Goto(t, After(t, "local", kind \in {"error", "unsaved"}))
          /\ Record(t, "local", o)
      BY <2>1
    <2> HIDE DEF obj, kept, kind, from
    <2>5. stored' \in Stores
      BY <2>2, <2>4, SaveTyped
    <2>6. mine' \in Mines
      BY <1>0, <2>2, <2>4 DEF Saved, Mines
    <2>7. answer' \in [Task -> Answers]
      BY <2>3, <2>4, ReplyTyped
    <2>8. After(t, "local", kind \in {"error", "unsaved"}) \in Pcs
      <3>1. (kind \in {"error", "unsaved"}) \in BOOLEAN
        OBVIOUS
      <3> QED
        BY <2>2, <3>1, AfterTyped DEF Pcs
    <2>9. query' \in Queries /\ runs' \in Runs /\ queue' = queue
      BY <1>5, <2>2, <2>4, <2>8, GotoTyped, RecordTyped DEF LocalEnds
    <2> QED
      BY <1>0, <1>2, <2>5, <2>6, <2>7, <2>9, TypePartsNext
  <1>6. CASE Store(t)
    <2>1. stored' \in Stores
      BY <1>1, <1>6, SetTaskTyped DEF Store
    <2>2. query' \in Queries
      BY <1>6, GotoTyped DEF Store, Pcs
    <2>3. mine' \in Mines /\ UNCHANGED <<answer, queue, runs>>
      BY <1>0, <1>1, <1>6 DEF Store, Saved, Mines
    <2> QED
      BY <1>0, <1>2, <2>1, <2>2, <2>3, TypePartsNext
  <1>7. CASE StoreFails(t)
    <2>1. query' \in Queries
      BY <1>7, GotoTyped DEF StoreFails, Pcs
    <2>2. UNCHANGED <<mine, answer, stored, queue, runs>>
      BY <1>7 DEF StoreFails, server
    <2> QED
      BY <1>0, <1>2, <2>1, <2>2, TypePartsNext
  <1>8. CASE Push(t)
    <2>1. query' \in Queries
      BY <1>8, GotoTyped DEF Push, Pcs
    <2>2. queue' \in Seq(Task)
      BY <1>0, <1>8, AppendProperties DEF Push
    <2>3. UNCHANGED <<mine, answer, stored, runs>>
      BY <1>8 DEF Push
    <2> QED
      BY <1>0, <1>2, <2>1, <2>2, <2>3, TypePartsNext
  <1>9. CASE Poll(t)
    <2>1. /\ stored[t].result \in Field /\ stored[t].error \in Field
          /\ stored[t].result # Nil \/ stored[t].error # Nil
      BY <1>0, <1>9 DEF Poll, Decided, Pending, Stores
    <2>2. answer' \in [Task -> Answers]
      <3>1. CASE stored[t].error # Nil
        <4>1. [kind |-> "error", from |-> stored[t].error] \in Answers
          BY <2>1, <3>1 DEF Answers, Field
        <4> QED
          BY <1>9, <3>1, <4>1, ReplyTyped DEF Poll
      <3>2. CASE stored[t].error = Nil
        <4>1. [kind |-> "value", from |-> stored[t].result] \in Answers
          BY <2>1, <3>2 DEF Answers, Field
        <4> QED
          BY <1>9, <3>2, <4>1, ReplyTyped DEF Poll
      <3> QED
        BY <3>1, <3>2
    <2>3. PICK pc \in Pcs : Goto(t, pc)
      <3>1. "remote" \in Place /\ (stored[t].error # Nil) \in BOOLEAN
        BY DEF Place
      <3>2. After(t, "remote", stored[t].error # Nil) \in Pcs
        BY <3>1, AfterTyped DEF Pcs
      <3> QED
        BY <1>9, <3>2 DEF Poll, Pcs
    <2>4. query' \in Queries /\ UNCHANGED <<mine, stored, queue, runs>>
      BY <1>9, <2>3, GotoTyped DEF Poll, server
    <2> QED
      BY <1>0, <1>2, <2>2, <2>4, TypePartsNext
  <1>10. CASE DeleteResult(t)
    <2>1. stored' \in Stores
      BY <1>10, AbsentTyped DEF DeleteResult
    <2>2. After(t, "remote", answer[t].kind = "error") \in Pcs
      BY AfterTyped DEF Place, Pcs
    <2>3. query' \in Queries /\ UNCHANGED <<mine, answer, queue, runs>>
      BY <1>10, <2>2, GotoTyped DEF DeleteResult
    <2> QED
      BY <1>0, <1>2, <2>1, <2>3, TypePartsNext
  <1>11. CASE TimesOut(t)
    <2>1. [kind |-> "timeout", from |-> Nil] \in Answers
      BY DEF Answers
    <2>2. After(t, "remote", TRUE) \in Pcs
      BY AfterTyped DEF Place, Pcs
    <2>3. /\ query' \in Queries /\ answer' \in [Task -> Answers]
          /\ UNCHANGED <<mine, stored, queue, runs>>
      BY <1>11, <2>1, <2>2, GotoTyped, ReplyTyped DEF TimesOut, server
    <2> QED
      BY <1>0, <1>2, <2>3, TypePartsNext
  <1> QED
    BY <1>3, <1>4, <1>5, <1>6, <1>7, <1>8, <1>9, <1>10, <1>11 DEF Call

\* The steps of the listeners and their workers, and the expiries.
LEMMA WorkerTyped ==
    ASSUME TInv,
           \/ Work \/ AnnouncementExpires
           \/ \E t \in Task : ResultExpires(t)
           \/ \E l \in Listener : Listen(l) \/ Crash(l)
    PROVE  TInv'
  <1>0. /\ trouble \in Trouble /\ query \in Queries /\ mine \in Mines
        /\ stored \in Stores /\ queue \in Seq(Task) /\ announced \in BOOLEAN
        /\ listener \in Loops /\ job \in Jobs /\ answer \in [Task -> Answers]
        /\ runs \in Runs /\ PoppedTyped
    BY TypeParts
  <1>1. UNCHANGED <<trouble, query, mine, answer>>
    BY DEF Work, AnnouncementExpires, ResultExpires, Listen, Crash, Pop, Fetch, PopFindsNothing,
           Announce, JobReports, JobEnds, caller
  <1>2. ASSUME listener' = listener PROVE PoppedTyped'
    BY <1>0, <1>2 DEF PoppedTyped
  <1>3. ASSUME NEW l \in Listener, Pop(l) PROVE TInv'
    <2>1. Head(queue) \in Task /\ queue' \in Seq(Task)
      BY <1>0, <1>3, HeadTailProperties DEF Pop
    <2>2. listener' \in Loops /\ PoppedTyped'
      BY <1>3, <2>1, AtTyped DEF Pop, Loops
    <2>3. UNCHANGED <<stored, announced, job, runs>>
      BY <1>3 DEF Pop
    <2> QED
      BY <1>0, <1>1, <2>1, <2>2, <2>3, TypePartsNext
  <1>4. ASSUME NEW l \in Listener, Fetch(l) PROVE TInv'
    <2>1. listener' \in Loops /\ PoppedTyped'
      BY <1>4, AtTyped DEF Fetch, Loops
    <2>2. job' \in Jobs
      BY <1>0, <1>4 DEF Fetch, PoppedTyped, Stores, Jobs
    <2>3. UNCHANGED <<stored, queue, announced, runs>>
      BY <1>4 DEF Fetch, server
    <2> QED
      BY <1>0, <1>1, <2>1, <2>2, <2>3, TypePartsNext
  <1>5. ASSUME NEW l \in Listener, NEW pc \in {"pop", "announce", "down"}, At(l, pc, Nil),
               UNCHANGED <<stored, queue, runs>>, announced' \in BOOLEAN, job' \in Jobs
        PROVE  TInv'
    <2>1. listener' \in Loops /\ PoppedTyped'
      BY <1>5, AtTyped DEF Loops
    <2> QED
      BY <1>0, <1>1, <1>5, <2>1, TypePartsNext
  <1>6. ASSUME NEW l \in Listener, PopFindsNothing(l) \/ Announce(l) \/ Listen(l) PROVE TInv'
    BY <1>0, <1>5, <1>6 DEF PopFindsNothing, Announce, Listen, server
  <1>7. ASSUME NEW l \in Listener, Crash(l) PROVE TInv'
    <2>1. job' \in Jobs
      BY <1>0, <1>7 DEF Crash, NoJob, Jobs, Field
    <2> QED
      BY <1>0, <1>5, <1>7, <2>1 DEF Crash, server
  <1>8. ASSUME NEW t \in Task, JobReports(t) PROVE TInv'
    <2>1. stored' \in Stores
      BY <1>0, <1>8, SetTaskTyped DEF JobReports, Jobs
    <2>2. job' \in Jobs
      BY <1>0, <1>8 DEF JobReports, Saved, Jobs
    <2>3. UNCHANGED <<listener, queue, announced, runs>>
      BY <1>8 DEF JobReports
    <2> QED
      BY <1>0, <1>1, <1>2, <2>1, <2>2, <2>3, TypePartsNext
  <1>9. ASSUME NEW t \in Task, JobEnds(t) PROVE TInv'
    <2>1. PICK o \in Outcomes :
             /\ IF SaveFails(job[t], o) THEN UNCHANGED stored
                ELSE Save(t, Ended(job[t], "remote", o))
             /\ Record(t, "remote", o)
      BY <1>9 DEF JobEnds
    <2> DEFINE obj == Ended(job[t], "remote", o)
    <2>2. /\ "remote" \in Place /\ job[t].saves \in BOOLEAN
          /\ obj.result \in Field /\ obj.error \in Field /\ obj.saves = job[t].saves
      BY <1>0, EndedTyped DEF Jobs, Place
    <2> HIDE DEF obj
    <2>3. stored' \in Stores
      BY <2>1, <2>2, SaveTyped DEF obj
    <2>4. runs' \in Runs
      BY <2>1, <2>2, RecordTyped
    <2>5. job' \in Jobs /\ UNCHANGED <<listener, queue, announced>>
      BY <1>0, <1>9 DEF JobEnds, NoJob, Jobs, Field
    <2> QED
      BY <1>0, <1>1, <1>2, <2>3, <2>4, <2>5, TypePartsNext
  <1>10. ASSUME NEW t \in Task, ResultExpires(t) PROVE TInv'
    <2>1. stored' \in Stores
      BY <1>10, AbsentTyped DEF ResultExpires
    <2>2. UNCHANGED <<listener, job, queue, announced, runs>>
      BY <1>10 DEF ResultExpires, worker
    <2> QED
      BY <1>0, <1>1, <1>2, <2>1, <2>2, TypePartsNext
  <1>11. CASE AnnouncementExpires
    <2>1. announced' \in BOOLEAN /\ UNCHANGED <<listener, job, queue, stored, runs>>
      BY <1>11 DEF AnnouncementExpires, worker
    <2> QED
      BY <1>0, <1>1, <1>2, <2>1, TypePartsNext
  <1> QED
    BY <1>3, <1>4, <1>6, <1>7, <1>8, <1>9, <1>10, <1>11 DEF Work

\* Every object, key, list and loop keeps its type, whatever is interleaved.
THEOREM QueueTypes == TQSpec => []TInv
  <1>1. TQInit => TInv
    BY QueueInitTyped
  <1>2. TInv /\ [TQNext]_tvars => TInv'
    <2> SUFFICES ASSUME TInv, [TQNext]_tvars PROVE TInv'
      OBVIOUS
    <2>1. CASE UNCHANGED tvars
      BY <2>1 DEF tvars, TInv, TQTypeOK, PoppedTyped
    <2>2. CASE TQNext
      BY <2>2, CallerTyped, WorkerTyped DEF TQNext
    <2> QED
      BY <2>1, <2>2
  <1> QED
    BY <1>1, <1>2, PTL DEF TQSpec

\* In particular.
THEOREM QueueTypeCorrect == TQSpec => []TQTypeOK
  BY QueueTypes, PTL DEF TInv

-----------------------------------------------------------------------------

Ever(t, p, o) == \E i \in DOMAIN runs[t][p] : runs[t][p][i] = o

\* What an object holds, task_fn produced where the object says.
Backed(t, result, error) ==
    /\ result # Nil => Ever(t, result, "value")
    /\ error # Nil  => Ever(t, error, "error")

\* An outcome is recorded.
LEMMA EverRecorded ==
    ASSUME TInv, NEW t \in Task, NEW p \in Place, NEW o \in Outcomes, Record(t, p, o)
    PROVE  /\ Ever(t, p, o)'
           /\ \A u \in Task, q \in Place : \A x : Ever(u, q, x) => Ever(u, q, x)'
  <1>1. /\ runs[t][p] \in Seq(Outcomes) /\ runs'[t][p] = Append(runs[t][p], o)
        /\ \A u \in Task, q \in Place : u # t \/ q # p => runs'[u][q] = runs[u][q]
    BY RecordTyped
  <1>2. /\ DOMAIN runs[t][p] = 1 .. Len(runs[t][p])
        /\ DOMAIN runs'[t][p] = 1 .. Len(runs[t][p]) + 1 /\ Len(runs[t][p]) \in Nat
        /\ \A i \in 1 .. Len(runs[t][p]) : runs'[t][p][i] = runs[t][p][i]
        /\ runs'[t][p][Len(runs[t][p]) + 1] = o
    BY <1>1, AppendProperties, LenProperties
  <1>3. Ever(t, p, o)'
    BY <1>2 DEF Ever
  <1>4. ASSUME NEW u \in Task, NEW q \in Place, NEW x, Ever(u, q, x)
        PROVE  Ever(u, q, x)'
    <2>0. PICK i \in DOMAIN runs[u][q] : runs[u][q][i] = x
      BY <1>4 DEF Ever
    <2>1. CASE u = t /\ q = p
      <3>1. i \in 1 .. Len(runs[t][p]) /\ i \in DOMAIN runs'[t][p]
        BY <1>2, <2>0, <2>1
      <3>2. runs'[t][p][i] = x
        BY <1>2, <2>0, <2>1, <3>1
      <3> QED
        BY <2>1, <3>1, <3>2 DEF Ever
    <2>2. CASE u # t \/ q # p
      <3>1. runs'[u][q] = runs[u][q]
        BY <1>1, <2>2
      <3> QED
        BY <2>0, <3>1 DEF Ever
    <2> QED
      BY <2>1, <2>2
  <1> QED
    BY <1>3, <1>4

\* No step forgets an outcome.
LEMMA EverStays ==
    ASSUME TInv, TQNext
    PROVE  /\ \A t \in Task, p \in Place : \A o : Ever(t, p, o) => Ever(t, p, o)'
           /\ \A t \in Task, r \in Field, e \in Field : Backed(t, r, e) => Backed(t, r, e)'
  <1>1. \A t \in Task, p \in Place : \A o : Ever(t, p, o) => Ever(t, p, o)'
    <2>1. CASE runs' = runs
      BY <2>1 DEF Ever
    <2>2. ASSUME NEW t \in Task, LocalEnds(t) \/ JobEnds(t)
          PROVE  \E p \in Place, o \in Outcomes : Record(t, p, o)
      BY <2>2 DEF LocalEnds, JobEnds, Place
    <2>3. runs' = runs \/ \E t \in Task : LocalEnds(t) \/ JobEnds(t)
      BY DEF TQNext, Query, Call, LocalReports, Store, StoreFails, Push, Poll, DeleteResult,
             TimesOut, Work, Pop, Fetch, PopFindsNothing, Announce, JobReports, Listen, Crash,
             ResultExpires, AnnouncementExpires
    <2> QED
      BY <2>1, <2>2, <2>3, EverRecorded
  <1>2. ASSUME NEW t \in Task, NEW r \in Field, NEW e \in Field, Backed(t, r, e)
        PROVE  Backed(t, r, e)'
    BY <1>1, <1>2 DEF Backed, Field
  <1> QED
    BY <1>1, <1>2

-----------------------------------------------------------------------------

Waiting(t) == query[t].pc \in {"push", "poll", "delete"}

\* LocalFirst sends a task after it failed here, and nothing else.
LocalFell(t) ==
    /\ query[t].policy = "LocalFirst"
    /\ \/ Waiting(t)
       \/ query[t].pc = "store" /\ answer[t].kind # "unsaved"

\* A query answers once it has started; under RemoteFirst an error at the remote
\* place leads on to the local one, whose error ends the query.
FInv ==
    \A t \in Task :
        /\ query[t].pc = "new" => answer[t].kind = "none"
        /\ query[t].policy = "RemoteFirst" /\ answer[t].kind = "error" =>
              \/ query[t].pc \in {"delete", "local"}
              \/ query[t].pc = "done" /\ answer[t].from = "local"
        /\ LocalFell(t) => Ever(t, "local", "error")

\* A step of one query leaves what belongs to the others alone.
LEMMA OthersStay ==
    ASSUME TInv, NEW t \in Task, Query(t) \/ Call(t), NEW u \in Task, u # t
    PROVE  /\ query'[u] = query[u] /\ answer'[u] = answer[u] /\ mine'[u] = mine[u]
           /\ stored'[u] = stored[u] /\ job' = job /\ runs'[u]["remote"] = runs[u]["remote"]
  <1>0. /\ query \in Queries /\ mine \in Mines /\ stored \in Stores
        /\ answer \in [Task -> Answers] /\ runs \in Runs /\ "remote" \in Place
    BY TypeParts DEF Place
  <1>1. query'[u] = query[u]
    BY <1>0 DEF Query, Call, LocalReports, LocalEnds, Store, StoreFails, Push, Poll,
                DeleteResult, TimesOut, Goto, Queries
  <1>2. answer'[u] = answer[u]
    BY <1>0 DEF Query, Call, LocalReports, LocalEnds, Store, StoreFails, Push, Poll,
                DeleteResult, TimesOut, Reply
  <1>3. mine'[u] = mine[u]
    BY <1>0 DEF Query, Call, LocalReports, LocalEnds, Store, StoreFails, Push, Poll,
                DeleteResult, TimesOut, Mines
  <1>4. stored'[u] = stored[u]
    BY <1>0 DEF Query, Call, LocalReports, LocalEnds, Store, StoreFails, Push, Poll,
                DeleteResult, TimesOut, SetTask, Save, Stores, server
  <1>5. job' = job
    BY DEF Query, Call, LocalReports, LocalEnds, Store, StoreFails, Push, Poll, DeleteResult,
           TimesOut, worker
  <1>6. runs'[u]["remote"] = runs[u]["remote"]
    BY <1>0 DEF Query, Call, LocalReports, LocalEnds, Store, StoreFails, Push, Poll,
                DeleteResult, TimesOut, Record, Runs
  <1> QED
    BY <1>1, <1>2, <1>3, <1>4, <1>5, <1>6

\* What an attempt here leaves behind: the object, the answer and the way on.
LEMMA LocalEndsLeaves ==
    ASSUME TInv, NEW t \in Task, LocalEnds(t)
    PROVE  /\ query'[t].pc \in {"store", "done"} /\ query'[t].policy = query[t].policy
           /\ query'[t].pc = "store" =>
                 /\ query[t].policy = "LocalFirst"
                 /\ answer'[t].kind # "unsaved" => mine'[t].result = mine[t].result
           /\ answer'[t].kind = "error" => answer'[t].from = "local"
           /\ query'[t].pc = "store" /\ answer'[t].kind # "unsaved" => Ever(t, "local", "error")'
  <1>0. mine \in Mines /\ mine[t] \in [result : Field, error : Field, saves : BOOLEAN]
    BY TypeParts DEF Mines
  <1>1. PICK o \in Outcomes :
           LET obj  == Ended(mine[t], "local", o)
               kind == IF SaveFails(obj, o) THEN "unsaved"
                       ELSE IF o = "unpicklable" THEN "value" ELSE o
           IN  /\ mine' = [mine EXCEPT ![t] = Saved(obj)]
               /\ Reply(t, kind, IF kind \in {"value", "error"} THEN "local" ELSE Nil)
               /\ Goto(t, After(t, "local", kind \in {"error", "unsaved"}))
               /\ Record(t, "local", o)
    BY DEF LocalEnds
  <1> DEFINE obj  == Ended(mine[t], "local", o)
             kept == SaveFails(obj, o)
             kind == IF kept THEN "unsaved" ELSE IF o = "unpicklable" THEN "value" ELSE o
             from == IF kind \in {"value", "error"} THEN "local" ELSE Nil
             fail == kind \in {"error", "unsaved"}
  <1>2. /\ "local" \in Place /\ fail \in BOOLEAN
        /\ o \in {"value", "nothing", "error", "unpicklable"}
    BY QueueConstantsAreValid DEF Place
  <1>3. /\ obj \in [result : Field, error : Field, saves : BOOLEAN]
        /\ o = "error" => obj.result = mine[t].result
    BY <1>0, <1>2, EndedTyped
  <1>4. [kind |-> kind, from |-> from] \in Answers
    BY <1>2 DEF Answers, Place
  <1>5. /\ mine' = [mine EXCEPT ![t] = Saved(obj)]
        /\ Reply(t, kind, from)
        /\ Goto(t, After(t, "local", fail))
        /\ Record(t, "local", o)
    BY <1>1
  <1>6. /\ kind = "error" => o = "error" /\ from = "local"
        /\ fail <=> kind \in {"error", "unsaved"}
    BY <1>2
  <1> HIDE DEF obj, kept, kind, from, fail
  <1>7. /\ After(t, "local", fail) \in {"store", "local", "done"}
        /\ After(t, "local", fail) # "local"
        /\ After(t, "local", fail) = "store" => fail /\ query[t].policy = "LocalFirst"
    BY <1>2, AfterTyped
  <1>8. query'[t].pc = After(t, "local", fail) /\ query'[t].policy = query[t].policy
    BY <1>5, <1>7, GotoTyped DEF Pcs
  <1>9. answer'[t].kind = kind /\ answer'[t].from = from
    BY <1>4, <1>5, ReplyTyped
  <1>10. mine'[t].result = obj.result
    BY <1>0, <1>3, <1>5 DEF Saved, Mines
  <1>11. Ever(t, "local", o)'
    BY <1>2, <1>5, EverRecorded
  <1> QED
    BY <1>3, <1>6, <1>7, <1>8, <1>9, <1>10, <1>11

\* Where a query goes on after an answer from the remote place.
LEMMA RemoteAnswerLeads ==
    ASSUME TInv, NEW t \in Task, Poll(t) \/ DeleteResult(t) \/ TimesOut(t)
    PROVE  /\ query'[t].pc \in {"delete", "local", "done"}
           /\ query'[t].policy = query[t].policy
           /\ query'[t].pc = "delete" => Poll(t)
           /\ query'[t].pc = "done" /\ query[t].policy = "RemoteFirst"
                => answer'[t].kind # "error"
  <1>0. "remote" \in Place /\ "local" \in Place /\ stored \in Stores
        /\ answer \in [Task -> Answers]
    BY TypeParts DEF Place
  <1>1. ASSUME NEW failed \in BOOLEAN
        PROVE  /\ After(t, "remote", failed) \in {"local", "done"}
               /\ failed /\ query[t].policy = "RemoteFirst" => After(t, "remote", failed) = "local"
    BY <1>0, AfterTyped
  <1>2. CASE Poll(t)
    <2> DEFINE failed == stored[t].error # Nil
    <2>1. /\ IF failed THEN Reply(t, "error", stored[t].error)
             ELSE Reply(t, "value", stored[t].result)
          /\ Goto(t, IF query[t].once THEN "delete" ELSE After(t, "remote", failed))
      BY <1>2 DEF Poll
    <2>2. failed \in BOOLEAN
      OBVIOUS
    <2>3. ~failed => answer'[t].kind = "value"
      BY <1>0, <2>1 DEF Reply
    <2> HIDE DEF failed
    <2>4. PICK pc \in {"delete", "local", "done"} :
             /\ Goto(t, pc)
             /\ pc = "done" /\ failed => query[t].policy # "RemoteFirst"
      BY <1>1, <2>1, <2>2
    <2>5. query'[t].pc = pc /\ query'[t].policy = query[t].policy
      BY <2>4, GotoTyped DEF Pcs
    <2> QED
      BY <1>2, <2>3, <2>4, <2>5
  <1>3. CASE DeleteResult(t)
    <2>1. (answer[t].kind = "error") \in BOOLEAN
      OBVIOUS
    <2>2. PICK pc \in {"local", "done"} :
             /\ Goto(t, pc)
             /\ pc = "done" /\ answer[t].kind = "error" => query[t].policy # "RemoteFirst"
      BY <1>1, <1>3, <2>1 DEF DeleteResult
    <2>3. /\ query'[t].pc = pc /\ query'[t].policy = query[t].policy /\ answer' = answer
      BY <1>3, <2>2, GotoTyped DEF DeleteResult, Pcs
    <2> QED
      BY <2>2, <2>3
  <1>4. CASE TimesOut(t)
    <2>1. PICK pc \in {"local", "done"} : Goto(t, pc)
      BY <1>1, <1>4 DEF TimesOut
    <2>2. query'[t].pc = pc /\ query'[t].policy = query[t].policy
      BY <2>1, GotoTyped DEF Pcs
    <2>3. answer'[t].kind = "timeout"
      BY <1>0, <1>4 DEF TimesOut, Reply
    <2> QED
      BY <2>2, <2>3
  <1> QED
    BY <1>2, <1>3, <1>4

\* The way a query falls back is inductive beside the types.
LEMMA FallbackStep == TInv /\ FInv /\ [TQNext]_tvars => FInv'
  <1> SUFFICES ASSUME TInv, FInv, [TQNext]_tvars PROVE FInv'
    OBVIOUS
  <1>0. \A t \in Task : Ever(t, "local", "error") => Ever(t, "local", "error")'
    <2>1. CASE UNCHANGED tvars
      BY <2>1 DEF tvars, Ever
    <2>2. CASE TQNext
      BY <2>2, EverStays DEF Place
    <2> QED
      BY <2>1, <2>2
  <1>1. CASE UNCHANGED caller
    BY <1>0, <1>1 DEF caller, FInv, LocalFell, Waiting
  <1>2. ASSUME NEW t \in Task, Query(t) \/ Call(t) PROVE FInv'
    <2>0. query \in Queries
      BY TypeParts
    <2> SUFFICES ASSUME NEW u \in Task
                 PROVE  /\ query'[u].pc = "new" => answer'[u].kind = "none"
                        /\ query'[u].policy = "RemoteFirst" /\ answer'[u].kind = "error" =>
                              \/ query'[u].pc \in {"delete", "local"}
                              \/ query'[u].pc = "done" /\ answer'[u].from = "local"
                        /\ LocalFell(u)' => Ever(u, "local", "error")'
      BY DEF FInv
    <2>1. CASE u # t
      BY <1>0, <1>2, <2>1, OthersStay DEF FInv, LocalFell, Waiting
    <2>2. CASE u = t /\ Query(t)
      <3>1. /\ query[t].pc = "new" /\ answer' = answer
            /\ query'[t].pc \in {"local", "store"}
            /\ query'[t].pc = "store" => query'[t].policy # "LocalFirst"
        BY <2>0, <2>2 DEF Query, Queries
      <3> QED
        BY <2>2, <3>1 DEF FInv, LocalFell, Waiting
    <2>3. CASE u = t /\ LocalReports(t)
      BY <1>0, <2>3 DEF LocalReports, FInv, LocalFell, Waiting
    <2>4. CASE u = t /\ LocalEnds(t)
      BY <2>4, LocalEndsLeaves DEF LocalEnds, FInv, LocalFell, Waiting
    <2>5. CASE u = t /\ (Store(t) \/ StoreFails(t) \/ Push(t))
      <3>1. /\ query[t].pc \in {"store", "push"}
            /\ query'[t].pc \in {"push", "poll", "done"}
            /\ query'[t].policy = query[t].policy /\ answer' = answer
            /\ query'[t].pc # "done" /\ query[t].pc = "store" => answer[t].kind # "unsaved"
        BY <2>5, GotoTyped DEF Store, StoreFails, Push, Pcs
      <3>2. LocalFell(t)' => LocalFell(t)
        BY <3>1 DEF LocalFell, Waiting
      <3> QED
        BY <1>0, <2>5, <3>1, <3>2 DEF FInv
    <2>6. CASE u = t /\ (Poll(t) \/ DeleteResult(t) \/ TimesOut(t))
      <3>1. /\ query'[t].pc \in {"delete", "local", "done"}
            /\ query'[t].policy = query[t].policy
            /\ query'[t].pc = "delete" => query[t].pc = "poll"
        BY <2>6, RemoteAnswerLeads DEF Poll
      <3>2. LocalFell(t)' => LocalFell(t)
        BY <3>1 DEF LocalFell, Waiting
      <3> QED
        BY <1>0, <2>6, <3>1, <3>2, RemoteAnswerLeads DEF Poll, DeleteResult, TimesOut, FInv
    <2> QED
      BY <1>2, <2>1, <2>2, <2>3, <2>4, <2>5, <2>6 DEF Call
  <1>3. UNCHANGED caller \/ \E t \in Task : Query(t) \/ Call(t)
    BY DEF TQNext, tvars, caller, ResultExpires, Work, Pop, Fetch, PopFindsNothing, Announce,
           JobReports, JobEnds, Listen, Crash, AnnouncementExpires
  <1> QED
    BY <1>1, <1>2, <1>3

-----------------------------------------------------------------------------

\* Where a query is on its way through the queue.
Queued(t)    == \E i \in 1 .. Len(queue) : queue[i] = t
Popped(l, t) == listener[l].pc = "fetch" /\ listener[l].id = t
Underway(t)  == Queued(t) \/ Running(t) \/ \E l \in Listener : Popped(l, t)

\* Each query is at one of these places at most, and once.
OneToken ==
    /\ \A i, j \in 1 .. Len(queue) : queue[i] = queue[j] => i = j
    /\ \A l, m \in Listener : \A t \in Task : Popped(l, t) /\ Popped(m, t) => l = m
    /\ \A l \in Listener : \A t \in Task : Popped(l, t) => ~Queued(t)
    /\ \A t \in Task : Running(t) => ~Queued(t) /\ \A l \in Listener : ~Popped(l, t)

\* Nobody has pushed its id, or ever will again.
Unsent(t) ==
    \/ query[t].pc \in {"new", "store", "push"}
    \/ query[t].pc = "local" /\ query[t].policy # "RemoteFirst"
    \/ /\ query[t].pc = "done" /\ Ran(t, "local")
       /\ query[t].policy \notin {"LocalFirst", "RemoteFirst"}
    \/ /\ query[t].pc = "done" /\ query[t].policy = "LocalFirst"
       /\ ~Ever(t, "local", "error")

\* A task that ran remotely, or was not sent, is not on its way.
TokenSpent ==
    \A t \in Task : /\ Ran(t, "remote") => ~Underway(t)
                    /\ Unsent(t) => ~Underway(t) /\ ~Ran(t, "remote")

\* Before its local attempt, and under most policies before its end, a query did
\* not run locally.
LocalAhead(t) ==
    \/ query[t].pc \in {"new", "local"}
    \/ query[t].policy # "LocalFirst" /\ query[t].pc # "done"

LocalOnce == \A t \in Task : LocalAhead(t) => ~Ran(t, "local")

AtMostOneRun == \A t \in Task : \A p \in Place : Len(runs[t][p]) <= 1

RInv == OneToken /\ TokenSpent /\ LocalOnce /\ AtMostOneRun

\* Nothing has been asked.
LEMMA QueueInitRuns == TQInit => RInv
  <1> SUFFICES ASSUME TQInit PROVE RInv
    OBVIOUS
  <1>1. /\ queue = <<>> /\ \A l \in Listener : listener[l].pc = "down"
        /\ \A t \in Task : job[t].host = Nil
        /\ \A t \in Task : \A p \in Place : runs[t][p] = <<>>
    BY DEF TQInit, NoJob
  <1>2. Len(<<>>) = 0
    BY EmptySeq
  <1> QED
    BY <1>1, <1>2 DEF RInv, OneToken, TokenSpent, LocalOnce, AtMostOneRun, Ran, Place, Underway,
                      Queued, Popped, Running

\* RPUSH of an id that is not in the list.
LEMMA PushFacts ==
    ASSUME queue \in Seq(Task), NEW t \in Task, ~Queued(t), queue' = Append(queue, t),
           \A i, j \in 1 .. Len(queue) : queue[i] = queue[j] => i = j
    PROVE  /\ \A i, j \in 1 .. Len(queue)' : queue'[i] = queue'[j] => i = j
           /\ \A x : Queued(x)' <=> Queued(x) \/ x = t
  <1>1. /\ Len(queue) \in Nat /\ Len(queue') = Len(queue) + 1
        /\ \A i \in 1 .. Len(queue) : queue'[i] = queue[i]
        /\ queue'[Len(queue) + 1] = t
    BY AppendProperties, LenProperties
  <1> QED
    BY <1>1 DEF Queued

\* BLPOP takes the first id.
LEMMA PopFacts ==
    ASSUME queue \in Seq(Task), queue # <<>>, queue' = Tail(queue),
           \A i, j \in 1 .. Len(queue) : queue[i] = queue[j] => i = j
    PROVE  /\ \A i, j \in 1 .. Len(queue)' : queue'[i] = queue'[j] => i = j
           /\ \A x : Queued(x)' <=> Queued(x) /\ x # Head(queue)
           /\ Head(queue) \in Task /\ Queued(Head(queue))
  <1>1. /\ Len(queue) \in Nat \ {0} /\ Len(queue') = Len(queue) - 1
        /\ \A i \in 1 .. Len(queue') : queue'[i] = queue[i + 1]
        /\ Head(queue) = queue[1] /\ Head(queue) \in Task
    BY HeadTailProperties, LenProperties, EmptySeq
  <1>2. \A x : Queued(x) <=> x = queue[1] \/ \E i \in 1 .. Len(queue') : queue[i + 1] = x
    <2>1. \A i \in 1 .. Len(queue) : i = 1 \/ (i - 1 \in 1 .. Len(queue') /\ (i - 1) + 1 = i)
      BY <1>1
    <2> QED
      BY <1>1, <2>1 DEF Queued
  <1>3. \A i \in 1 .. Len(queue') : queue[i + 1] # queue[1]
    BY <1>1
  <1>4. \A i, j \in 1 .. Len(queue') : queue'[i] = queue'[j] => i = j
    BY <1>1
  <1>5. \A x : Queued(x)' <=> \E i \in 1 .. Len(queue') : queue[i + 1] = x
    BY <1>1 DEF Queued
  <1> QED
    BY <1>1, <1>2, <1>3, <1>4, <1>5

\* Steps that bring no id on its way and run nothing.
LEMMA LosesKeep ==
    ASSUME RInv, UNCHANGED <<query, queue, runs>>,
           \A l \in Listener : \A t \in Task : Popped(l, t)' => Popped(l, t),
           \A t \in Task : Running(t)' => Running(t)
    PROVE  RInv'
  <1>1. \A x : Queued(x)' <=> Queued(x)
    BY DEF Queued
  <1>2. \A t \in Task : /\ Underway(t)' => Underway(t)
                        /\ Ran(t, "remote")' <=> Ran(t, "remote")
                        /\ Ran(t, "local")' <=> Ran(t, "local")
    BY <1>1 DEF Underway, Ran
  <1>3. OneToken'
    BY <1>1 DEF RInv, OneToken
  <1>4. TokenSpent' /\ LocalOnce'
    BY <1>2 DEF RInv, TokenSpent, Unsent, LocalOnce, LocalAhead, Ever
  <1>5. AtMostOneRun'
    BY DEF RInv, AtMostOneRun
  <1> QED
    BY <1>3, <1>4, <1>5 DEF RInv

\* A query moves, and neither sends nor runs anything.
LEMMA MovesKeep ==
    ASSUME RInv, NEW t \in Task, UNCHANGED <<queue, listener, job, runs>>,
           \A u \in Task \ {t} : query'[u] = query[u],
           Unsent(t)' => Unsent(t), LocalAhead(t)' => LocalAhead(t)
    PROVE  RInv'
  <1>1. \A u \in Task : /\ Underway(u)' <=> Underway(u)
                        /\ Ran(u, "remote")' <=> Ran(u, "remote")
                        /\ Ran(u, "local")' <=> Ran(u, "local")
                        /\ Unsent(u)' => Unsent(u)
                        /\ LocalAhead(u)' => LocalAhead(u)
    BY DEF Underway, Queued, Running, Popped, Ran, Unsent, LocalAhead, Ever
  <1>2. OneToken' /\ AtMostOneRun'
    BY DEF RInv, OneToken, AtMostOneRun, Queued, Popped, Running
  <1>3. TokenSpent' /\ LocalOnce'
    BY <1>1 DEF RInv, TokenSpent, LocalOnce
  <1> QED
    BY <1>2, <1>3 DEF RInv

\* The caller sends its id at most once, and runs task_fn itself at most once.
LEMMA CallerRuns ==
    ASSUME TInv, FInv, RInv, NEW t \in Task, Query(t) \/ Call(t)
    PROVE  RInv'
  <1>0. /\ query \in Queries /\ queue \in Seq(Task) /\ runs \in Runs
    BY TypeParts
  <1>1. CASE Query(t)
    <2>1. /\ query[t].pc = "new" /\ query'[t].pc \in {"local", "store"}
          /\ query'[t].pc = "local" => query'[t].policy # "RemoteFirst"
          /\ \A u \in Task \ {t} : query'[u] = query[u]
      BY <1>0, <1>1 DEF Query, Queries
    <2>2. UNCHANGED <<queue, listener, job, runs>>
      BY <1>1 DEF Query, server, worker
    <2> QED
      BY <2>1, <2>2, MovesKeep DEF Unsent, LocalAhead
  <1>2. CASE LocalReports(t)
    <2>1. UNCHANGED <<query, queue, listener, job, runs>>
      BY <1>2 DEF LocalReports, worker
    <2> QED
      BY <2>1, LosesKeep DEF Popped, Running
  <1>3. CASE Store(t) \/ StoreFails(t)
    <2>1. /\ query[t].pc = "store" /\ query'[t].pc \in {"push", "done"}
          /\ query'[t].policy = query[t].policy
          /\ \A u \in Task \ {t} : query'[u] = query[u]
      BY <1>3, GotoTyped DEF Store, StoreFails, Pcs
    <2>2. UNCHANGED <<queue, listener, job, runs>>
      BY <1>3 DEF Store, StoreFails, server, worker
    <2> QED
      BY <2>1, <2>2, MovesKeep DEF Unsent, LocalAhead
  <1>4. CASE Poll(t) \/ DeleteResult(t) \/ TimesOut(t)
    <2>1. "remote" \in Place
      BY DEF Place
    <2>2. PICK pc \in {"delete", "local", "done"} :
             Goto(t, pc) /\ (pc = "local" => query[t].policy = "RemoteFirst")
      <3>1. ASSUME NEW failed \in BOOLEAN
            PROVE  /\ After(t, "remote", failed) \in {"local", "done"}
                   /\ After(t, "remote", failed) = "local" => query[t].policy = "RemoteFirst"
        BY <2>1, AfterTyped DEF Place
      <3>2. (stored[t].error # Nil) \in BOOLEAN /\ (answer[t].kind = "error") \in BOOLEAN
        OBVIOUS
      <3> QED
        BY <1>4, <3>1, <3>2 DEF Poll, DeleteResult, TimesOut
    <2>3. /\ query[t].pc \in {"poll", "delete"} /\ query'[t].pc = pc
          /\ query'[t].policy = query[t].policy
          /\ \A u \in Task \ {t} : query'[u] = query[u]
      BY <1>4, <2>2, GotoTyped DEF Poll, DeleteResult, TimesOut, Pcs
    <2>4. UNCHANGED <<queue, listener, job, runs>>
      BY <1>4 DEF Poll, DeleteResult, TimesOut, server, worker
    <2>5. LocalAhead(t)' => LocalAhead(t)
      BY <2>2, <2>3 DEF LocalAhead
    <2>6. ~Unsent(t)'
      <3>1. CASE query[t].policy # "LocalFirst"
        <4>1. ~Ran(t, "local")'
          BY <2>3, <2>4, <3>1 DEF RInv, LocalOnce, LocalAhead, Ran
        <4> QED
          BY <2>2, <2>3, <3>1, <4>1 DEF Unsent
      <3>2. CASE query[t].policy = "LocalFirst"
        <4>1. LocalFell(t) => Ever(t, "local", "error")
          BY DEF FInv
        <4>2. LocalFell(t)
          BY <2>3, <3>2 DEF LocalFell, Waiting
        <4>3. Ever(t, "local", "error")'
          BY <2>4, <4>1, <4>2 DEF Ever
        <4> QED
          BY <2>2, <2>3, <3>2, <4>3 DEF Unsent
      <3> QED
        BY <3>1, <3>2
    <2> QED
      BY <2>3, <2>4, <2>5, <2>6, MovesKeep
  <1>5. CASE Push(t)
    <2>1. /\ query[t].pc = "push" /\ query'[t].pc = "poll"
          /\ query'[t].policy = query[t].policy
          /\ \A u \in Task \ {t} : query'[u] = query[u]
      BY <1>5, GotoTyped DEF Push, Pcs
    <2>2. queue' = Append(queue, t) /\ UNCHANGED <<listener, job, runs>>
      BY <1>5 DEF Push, worker
    <2>3. ~Underway(t) /\ ~Ran(t, "remote")
      BY <2>1 DEF RInv, TokenSpent, Unsent
    <2>4. /\ \A i, j \in 1 .. Len(queue)' : queue'[i] = queue'[j] => i = j
          /\ \A x : Queued(x)' <=> Queued(x) \/ x = t
      BY <1>0, <2>2, <2>3, PushFacts DEF RInv, OneToken, Underway
    <2>5. OneToken'
      BY <2>2, <2>3, <2>4 DEF RInv, OneToken, Underway, Popped, Running
    <2>6. TokenSpent'
      <3> SUFFICES ASSUME NEW u \in Task
                   PROVE  /\ Ran(u, "remote")' => ~Underway(u)'
                          /\ Unsent(u)' => ~Underway(u)' /\ ~Ran(u, "remote")'
        BY DEF TokenSpent
      <3>1. CASE u = t
        BY <2>1, <2>2, <2>3, <3>1 DEF Ran, Unsent
      <3>2. CASE u # t
        <4>1. Underway(u)' <=> Underway(u)
          BY <2>2, <2>4, <3>2 DEF Underway, Popped, Running
        <4>2. (Unsent(u)' <=> Unsent(u)) /\ (Ran(u, "remote")' <=> Ran(u, "remote"))
          BY <2>1, <2>2, <3>2 DEF Unsent, Ran, Ever
        <4> QED
          BY <4>1, <4>2 DEF RInv, TokenSpent
      <3> QED
        BY <3>1, <3>2
    <2>7. LocalOnce' /\ AtMostOneRun'
      BY <2>1, <2>2 DEF RInv, LocalOnce, LocalAhead, AtMostOneRun, Ran
    <2> QED
      BY <2>5, <2>6, <2>7 DEF RInv
  <1>6. CASE LocalEnds(t)
    <2>1. PICK o \in Outcomes, failed \in BOOLEAN :
             Goto(t, After(t, "local", failed)) /\ Record(t, "local", o)
      <3>1. PICK o \in Outcomes :
               /\ \E kind : Goto(t, After(t, "local", kind \in {"error", "unsaved"}))
               /\ Record(t, "local", o)
        BY <1>6 DEF LocalEnds
      <3>2. PICK kind : Goto(t, After(t, "local", kind \in {"error", "unsaved"}))
        BY <3>1
      <3>3. (kind \in {"error", "unsaved"}) \in BOOLEAN
        OBVIOUS
      <3> QED
        BY <3>1, <3>2, <3>3
    <2>2. "local" \in Place /\ "remote" \in Place
      BY DEF Place
    <2>3. /\ query[t].pc = "local" /\ query'[t].pc \in {"store", "done"}
          /\ query'[t].pc = "store" => query[t].policy = "LocalFirst"
          /\ query'[t].policy = query[t].policy
          /\ \A u \in Task \ {t} : query'[u] = query[u]
      <3>1. /\ After(t, "local", failed) \in {"store", "done"}
            /\ After(t, "local", failed) = "store" => query[t].policy = "LocalFirst"
        BY <2>2, AfterTyped
      <3> QED
        BY <1>6, <2>1, <3>1, GotoTyped DEF LocalEnds, Pcs
    <2>4. /\ runs'[t]["local"] = Append(runs[t]["local"], o)
          /\ \A u \in Task, q \in Place : u # t \/ q # "local" => runs'[u][q] = runs[u][q]
      BY <2>1, <2>2, RecordTyped
    <2>5. UNCHANGED <<queue, listener, job>>
      BY <1>6 DEF LocalEnds, worker
    <2>6. /\ \A u \in Task : Underway(u)' <=> Underway(u)
          /\ \A u \in Task : Ran(u, "remote")' <=> Ran(u, "remote")
          /\ \A u \in Task \ {t} : Ran(u, "local")' <=> Ran(u, "local")
      BY <2>2, <2>4, <2>5 DEF Underway, Queued, Running, Popped, Ran
    <2>7. OneToken'
      BY <2>5 DEF RInv, OneToken, Queued, Popped, Running
    <2>8. TokenSpent'
      <3>1. Unsent(t)' => Unsent(t)
        BY <2>3 DEF Unsent
      <3>2. \A u \in Task \ {t} : Unsent(u)' <=> Unsent(u)
        BY <2>2, <2>3, <2>4, <2>6 DEF Unsent, Ever
      <3> QED
        BY <2>6, <3>1, <3>2 DEF RInv, TokenSpent
    <2>9. LocalOnce'
      BY <2>3, <2>6 DEF RInv, LocalOnce, LocalAhead
    <2>10. AtMostOneRun'
      <3>1. runs[t]["local"] = <<>>
        BY <2>3 DEF RInv, LocalOnce, LocalAhead, Ran
      <3>2. Len(runs'[t]["local"]) = 1
        BY <2>4, <3>1, EmptySeq, AppendProperties
      <3> QED
        BY <2>4, <3>2 DEF RInv, AtMostOneRun
    <2> QED
      BY <2>7, <2>8, <2>9, <2>10 DEF RInv
  <1> QED
    BY <1>1, <1>2, <1>3, <1>4, <1>5, <1>6 DEF Call

\* A listener takes an id out of the list, and a worker runs it once.
LEMMA WorkerRuns ==
    ASSUME TInv, RInv,
           \/ Work \/ AnnouncementExpires
           \/ \E t \in Task : ResultExpires(t)
           \/ \E l \in Listener : Listen(l) \/ Crash(l)
    PROVE  RInv'
  <1>0. /\ queue \in Seq(Task) /\ runs \in Runs /\ listener \in Loops /\ job \in Jobs
        /\ PoppedTyped /\ UNCHANGED query
    BY TypeParts DEF Work, AnnouncementExpires, ResultExpires, Listen, Crash, Pop, Fetch,
       PopFindsNothing, Announce, JobReports, JobEnds, caller
  <1>1. ASSUME NEW l \in Listener, Pop(l) PROVE RInv'
    <2>1. /\ queue # <<>> /\ queue' = Tail(queue) /\ At(l, "fetch", Head(queue))
          /\ UNCHANGED <<job, runs>> /\ listener[l].pc = "pop"
      BY <1>1 DEF Pop
    <2> DEFINE t == Head(queue)
    <2>2. /\ \A i, j \in 1 .. Len(queue)' : queue'[i] = queue'[j] => i = j
          /\ \A x : Queued(x)' <=> Queued(x) /\ x # t
          /\ t \in Task /\ Queued(t)
      BY <1>0, <2>1, PopFacts DEF RInv, OneToken
    <2>3. /\ listener'[l].pc = "fetch" /\ listener'[l].id = t
          /\ \A m \in Listener \ {l} : listener'[m] = listener[m]
      BY <2>1, <2>2, AtTyped
    <2> HIDE DEF t
    <2>4. /\ ~Running(t) /\ \A m \in Listener : ~Popped(m, t)
          /\ Underway(t)
      BY <2>2 DEF RInv, OneToken, Underway
    <2>5. \A m \in Listener, u \in Task : Popped(m, u)' <=> IF m = l THEN u = t ELSE Popped(m, u)
      BY <2>3 DEF Popped
    <2>6. OneToken'
      BY <2>1, <2>2, <2>4, <2>5 DEF RInv, OneToken, Running
    <2>7. \A u \in Task : Underway(u)' => Underway(u)
      BY <2>1, <2>2, <2>4, <2>5 DEF Underway, Running
    <2>8. TokenSpent' /\ LocalOnce' /\ AtMostOneRun'
      BY <1>0, <2>1, <2>7
      DEF RInv, TokenSpent, LocalOnce, LocalAhead, AtMostOneRun, Unsent, Ran, Ever
    <2> QED
      BY <2>6, <2>8 DEF RInv
  <1>2. ASSUME NEW l \in Listener, Fetch(l) PROVE RInv'
    <2> DEFINE t == listener[l].id
    <2>1. /\ listener[l].pc = "fetch" /\ t \in Task /\ Popped(l, t)
          /\ UNCHANGED <<queue, runs>> /\ At(l, "pop", Nil)
      BY <1>0, <1>2 DEF Fetch, PoppedTyped, Popped, server
    <2>2. /\ listener'[l].pc = "pop"
          /\ \A m \in Listener \ {l} : listener'[m] = listener[m]
      BY <2>1, AtTyped
    <2>3. \A u \in Task \ {t} : job'[u] = job[u]
      BY <1>0, <1>2 DEF Fetch, Jobs
    <2> HIDE DEF t
    <2>4. \A m \in Listener, u \in Task : Popped(m, u)' <=> m # l /\ Popped(m, u)
      BY <2>2 DEF Popped
    <2>5. ~Queued(t) /\ \A m \in Listener \ {l} : ~Popped(m, t)
      BY <2>1 DEF RInv, OneToken
    <2>6. OneToken'
      BY <2>1, <2>3, <2>4, <2>5 DEF RInv, OneToken, Queued, Running
    <2>7. \A u \in Task : Underway(u)' => Underway(u)
      BY <2>1, <2>3, <2>4 DEF Underway, Queued, Running
    <2>8. TokenSpent' /\ LocalOnce' /\ AtMostOneRun'
      BY <1>0, <2>1, <2>7
      DEF RInv, TokenSpent, LocalOnce, LocalAhead, AtMostOneRun, Unsent, Ran, Ever
    <2> QED
      BY <2>6, <2>8 DEF RInv
  <1>3. ASSUME NEW l \in Listener, NEW pc \in {"pop", "announce", "down"}, At(l, pc, Nil),
               UNCHANGED <<queue, runs>>, \A t \in Task : Running(t)' => Running(t)
        PROVE  RInv'
    <2>1. \A m \in Listener, t \in Task : Popped(m, t)' => Popped(m, t)
      BY <1>3, AtTyped DEF Popped
    <2> QED
      BY <1>0, <1>3, <2>1, LosesKeep
  <1>4. ASSUME NEW l \in Listener, PopFindsNothing(l) \/ Announce(l) \/ Listen(l) PROVE RInv'
    BY <1>3, <1>4 DEF PopFindsNothing, Announce, Listen, server, Running
  <1>5. ASSUME NEW l \in Listener, Crash(l) PROVE RInv'
    <2>1. \A t \in Task : Running(t)' => Running(t)
      BY <1>5 DEF Crash, Running, NoJob
    <2> QED
      BY <1>3, <1>5, <2>1 DEF Crash, server
  <1>6. ASSUME NEW t \in Task, JobReports(t) \/ ResultExpires(t) PROVE RInv'
    <2>1. UNCHANGED <<queue, listener, runs>> /\ \A u \in Task : job'[u].host = job[u].host
      BY <1>0, <1>6 DEF JobReports, ResultExpires, worker, Saved, Jobs
    <2> QED
      BY <1>0, <2>1, LosesKeep DEF Popped, Running
  <1>7. CASE AnnouncementExpires
    BY <1>0, <1>7, LosesKeep DEF AnnouncementExpires, worker, Popped, Running
  <1>8. ASSUME NEW t \in Task, JobEnds(t) PROVE RInv'
    <2>1. PICK o \in Outcomes : Record(t, "remote", o)
      BY <1>8 DEF JobEnds
    <2>2. "local" \in Place /\ "remote" \in Place
      BY DEF Place
    <2>3. /\ runs[t]["remote"] \in Seq(Outcomes)
          /\ runs'[t]["remote"] = Append(runs[t]["remote"], o)
          /\ \A u \in Task, q \in Place : u # t \/ q # "remote" => runs'[u][q] = runs[u][q]
      BY <2>1, <2>2, RecordTyped
    <2>4. /\ Running(t) /\ UNCHANGED <<queue, listener>> /\ ~Running(t)'
          /\ \A u \in Task \ {t} : job'[u] = job[u]
      BY <1>0, <1>8 DEF JobEnds, Running, NoJob, Jobs
    <2>5. Underway(t) /\ ~Queued(t) /\ \A l \in Listener : ~Popped(l, t)
      BY <2>4 DEF RInv, OneToken, Underway
    <2>6. /\ \A u \in Task : Underway(u)' => Underway(u) /\ u # t
          /\ \A u \in Task : Ran(u, "local")' <=> Ran(u, "local")
          /\ \A u \in Task \ {t} : Ran(u, "remote")' <=> Ran(u, "remote")
      BY <2>2, <2>3, <2>4, <2>5 DEF Underway, Queued, Running, Popped, Ran
    <2>7. OneToken'
      BY <2>4 DEF RInv, OneToken, Queued, Popped, Running
    <2>8. ~Unsent(t) /\ \A u \in Task : Unsent(u)' <=> Unsent(u)
      BY <1>0, <2>2, <2>3, <2>5, <2>6 DEF RInv, TokenSpent, Unsent, Ever
    <2>9. TokenSpent' /\ LocalOnce'
      BY <1>0, <2>6, <2>8 DEF RInv, TokenSpent, LocalOnce, LocalAhead
    <2>10. AtMostOneRun'
      <3>1. runs[t]["remote"] = <<>>
        BY <2>5 DEF RInv, TokenSpent, Ran
      <3>2. Len(runs'[t]["remote"]) = 1
        BY <2>3, <3>1, EmptySeq, AppendProperties
      <3> QED
        BY <2>3, <3>2 DEF RInv, AtMostOneRun
    <2> QED
      BY <2>7, <2>9, <2>10 DEF RInv
  <1> QED
    BY <1>1, <1>2, <1>4, <1>5, <1>6, <1>7, <1>8 DEF Work

\* The places of a task are inductive beside its types and its way.
THEOREM QueueRunsInductive == TQSpec => [](TInv /\ FInv /\ RInv)
  <1>1. TQInit => TInv /\ FInv /\ RInv
    BY QueueInitTyped, QueueInitRuns DEF TQInit, FInv, LocalFell, Waiting
  <1>2. TInv /\ FInv /\ RInv /\ [TQNext]_tvars => RInv'
    <2> SUFFICES ASSUME TInv, FInv, RInv, [TQNext]_tvars PROVE RInv'
      OBVIOUS
    <2>1. CASE UNCHANGED tvars
      BY <2>1, LosesKeep DEF tvars, Popped, Running
    <2>2. CASE TQNext
      BY <2>2, CallerRuns, WorkerRuns DEF TQNext
    <2> QED
      BY <2>1, <2>2
  <1> QED
    BY <1>1, <1>2, FallbackStep, QueueTypes, PTL DEF TQSpec

\* However many listeners pop one list, die and start again, task_fn runs at most
\* once at each place, and at both only under a policy with a fallback.
THEOREM RunsOnce == TQSpec => []RunsAtMostOnce
  <1>1. TInv /\ RInv => RunsAtMostOnce
    <2> SUFFICES ASSUME TInv, RInv, NEW t \in Task, Ran(t, "local"), Ran(t, "remote")
                 PROVE  query[t].policy \in {"LocalFirst", "RemoteFirst"}
      BY DEF RInv, AtMostOneRun, RunsAtMostOnce
    <2> QED
      BY DEF RInv, TokenSpent, Unsent, LocalOnce, LocalAhead
  <1> QED
    BY <1>1, QueueRunsInductive, PTL

-----------------------------------------------------------------------------

\* The caller's object is not read any more: what could not be pickled is in it.
Unread(t) ==
    \/ query[t].pc = "done"
    \/ query[t].pc = "store" /\ answer[t].kind = "unsaved"

StoredBacked == \A t \in Task : Backed(t, stored[t].result, stored[t].error)
JobsBacked   == \A t \in Task : Backed(t, job[t].result, job[t].error)
MineBacked   == \A t \in Task : Unread(t) \/ Backed(t, mine[t].result, mine[t].error)
AnswerBacked ==
    \A t \in Task :
        /\ answer[t].kind = "error" => Ever(t, answer[t].from, "error")
        /\ answer[t].kind = "value" =>
              \/ Ever(t, answer[t].from, "value")
              \/ answer[t].from = "local" /\ Ever(t, "local", "unpicklable")

EInv == StoredBacked /\ JobsBacked /\ MineBacked /\ AnswerBacked

\* Nobody has an outcome.
LEMMA QueueInitBacked == TQInit => EInv
  <1> SUFFICES ASSUME TQInit PROVE EInv
    OBVIOUS
  <1>1. \A t \in Task : /\ stored[t].result = Nil /\ stored[t].error = Nil
                        /\ job[t].result = Nil /\ job[t].error = Nil
                        /\ mine[t].result = Nil /\ mine[t].error = Nil
                        /\ answer[t].kind = "none"
    BY DEF TQInit, Absent, NoJob, NewTask
  <1> QED
    BY <1>1 DEF EInv, StoredBacked, JobsBacked, MineBacked, AnswerBacked, Backed

\* What is not written stays backed.
LEMMA BackedStays ==
    ASSUME TInv, EInv, TQNext
    PROVE  /\ UNCHANGED stored => StoredBacked'
           /\ UNCHANGED job => JobsBacked'
           /\ UNCHANGED mine /\ (\A t \in Task : Unread(t) => Unread(t)') => MineBacked'
           /\ UNCHANGED answer => AnswerBacked'
  <1>1. /\ stored \in Stores /\ job \in Jobs /\ mine \in Mines /\ answer \in [Task -> Answers]
        /\ \A t \in Task, r \in Field, e \in Field : Backed(t, r, e) => Backed(t, r, e)'
        /\ \A t \in Task, p \in Place : \A o : Ever(t, p, o) => Ever(t, p, o)'
    BY TypeParts, EverStays
  <1>2. ASSUME UNCHANGED stored PROVE StoredBacked'
    BY <1>1, <1>2 DEF EInv, StoredBacked, Stores
  <1>3. ASSUME UNCHANGED job PROVE JobsBacked'
    BY <1>1, <1>3 DEF EInv, JobsBacked, Jobs
  <1>4. ASSUME UNCHANGED mine, \A t \in Task : Unread(t) => Unread(t)' PROVE MineBacked'
    BY <1>1, <1>4 DEF EInv, MineBacked, Mines
  <1>5. ASSUME UNCHANGED answer PROVE AnswerBacked'
    <2> SUFFICES ASSUME NEW t \in Task
                 PROVE  /\ answer[t].kind = "error" => Ever(t, answer[t].from, "error")'
                        /\ answer[t].kind = "value" =>
                              \/ Ever(t, answer[t].from, "value")'
                              \/ answer[t].from = "local" /\ Ever(t, "local", "unpicklable")'
      BY <1>5 DEF AnswerBacked
    <2>1. answer[t].kind \in {"value", "error"} => answer[t].from \in Place
      BY <1>1 DEF Answers
    <2> DEFINE p == answer[t].from
    <2>2. p' = p
      BY <1>5
    <2> QED
      BY <1>1, <2>1, <2>2 DEF EInv, AnswerBacked, Place
  <1> QED
    BY <1>2, <1>3, <1>4, <1>5

\* A write to one task's key, object or answer that its outcomes back.
LEMMA WriteBacked ==
    ASSUME TInv, EInv, TQNext, NEW t \in Task
    PROVE  /\ /\ \E r \in Field, e \in Field : /\ Backed(t, r, e)'
                                             /\ stored'[t].result = r /\ stored'[t].error = e
              /\ \A u \in Task \ {t} : stored'[u] = stored[u]
              => StoredBacked'
           /\ /\ Unread(t)' \/ \E r \in Field, e \in Field :
                                   /\ Backed(t, r, e)'
                                   /\ mine'[t].result = r /\ mine'[t].error = e
              /\ \A u \in Task \ {t} : mine'[u] = mine[u] /\ (Unread(u) => Unread(u)')
              => MineBacked'
           /\ /\ answer'[t].kind = "error" =>
                    \E p \in Place : p = answer'[t].from /\ Ever(t, p, "error")'
              /\ answer'[t].kind = "value" =>
                    \E p \in Place : /\ p = answer'[t].from
                                    /\ \/ Ever(t, p, "value")'
                                       \/ p = "local" /\ Ever(t, "local", "unpicklable")'
              /\ \A u \in Task \ {t} : answer'[u] = answer[u]
              => AnswerBacked'
  <1>0. /\ mine \in Mines /\ stored \in Stores /\ answer \in [Task -> Answers]
        /\ StoredBacked /\ MineBacked /\ AnswerBacked
        /\ \A u \in Task, r \in Field, e \in Field : Backed(u, r, e) => Backed(u, r, e)'
        /\ \A u \in Task, p \in Place : \A o : Ever(u, p, o) => Ever(u, p, o)'
    BY TypeParts, EverStays DEF EInv
  <1>1. ASSUME NEW r \in Field, NEW e \in Field, Backed(t, r, e)',
               stored'[t].result = r, stored'[t].error = e,
               \A u \in Task \ {t} : stored'[u] = stored[u]
        PROVE  StoredBacked'
    <2> SUFFICES ASSUME NEW u \in Task
                 PROVE  Backed(u, stored[u].result, stored[u].error)'
      BY DEF StoredBacked
    <2>1. CASE u = t
      BY <1>1, <2>1 DEF Backed
    <2>2. CASE u # t
      <3>1. Backed(u, stored[u].result, stored[u].error) /\ stored'[u] = stored[u]
            /\ stored[u].result \in Field /\ stored[u].error \in Field
        BY <1>0, <1>1, <2>2 DEF StoredBacked, Stores
      <3> QED
        BY <1>0, <3>1
    <2> QED
      BY <2>1, <2>2
  <1>2. ASSUME Unread(t)' \/ \E r \in Field, e \in Field :
                                /\ Backed(t, r, e)'
                                /\ mine'[t].result = r /\ mine'[t].error = e,
               \A u \in Task \ {t} : mine'[u] = mine[u] /\ (Unread(u) => Unread(u)')
        PROVE  MineBacked'
    <2> SUFFICES ASSUME NEW u \in Task, ~Unread(u)'
                 PROVE  Backed(u, mine[u].result, mine[u].error)'
      BY DEF MineBacked
    <2>1. CASE u = t
      <3>1. PICK r \in Field, e \in Field :
               Backed(t, r, e)' /\ mine'[t].result = r /\ mine'[t].error = e
        BY <1>2, <2>1
      <3> QED
        BY <2>1, <3>1
    <2>2. CASE u # t
      <3>1. Backed(u, mine[u].result, mine[u].error) /\ mine'[u] = mine[u]
            /\ mine[u].result \in Field /\ mine[u].error \in Field
        BY <1>0, <1>2, <2>2 DEF MineBacked, Mines
      <3> QED
        BY <1>0, <3>1
    <2> QED
      BY <2>1, <2>2
  <1>3. ASSUME answer'[t].kind = "error" =>
                  \E p \in Place : p = answer'[t].from /\ Ever(t, p, "error")',
               answer'[t].kind = "value" =>
                  \E p \in Place : /\ p = answer'[t].from
                                  /\ \/ Ever(t, p, "value")'
                                     \/ p = "local" /\ Ever(t, "local", "unpicklable")',
               \A u \in Task \ {t} : answer'[u] = answer[u]
        PROVE  AnswerBacked'
    <2> SUFFICES ASSUME NEW u \in Task
                 PROVE  /\ answer'[u].kind = "error" => Ever(u, answer[u].from, "error")'
                        /\ answer'[u].kind = "value" =>
                              \/ Ever(u, answer[u].from, "value")'
                              \/ answer'[u].from = "local" /\ Ever(u, "local", "unpicklable")'
      BY DEF AnswerBacked
    <2>1. CASE u = t
      BY <1>3, <2>1
    <2>2. CASE u # t
      <3>1. /\ answer'[u] = answer[u]
            /\ answer[u].kind \in {"value", "error"} => answer[u].from \in Place
            /\ "local" \in Place
        BY <1>0, <1>3, <2>2 DEF Answers, Place
      <3>2. /\ answer[u].kind = "error" => Ever(u, answer[u].from, "error")
            /\ answer[u].kind = "value" =>
                  \/ Ever(u, answer[u].from, "value")
                  \/ answer[u].from = "local" /\ Ever(u, "local", "unpicklable")
        BY <1>0 DEF AnswerBacked
      <3> QED
        BY <1>0, <3>1, <3>2
    <2> QED
      BY <2>1, <2>2
  <1> QED
    BY <1>1, <1>2, <1>3

\* The caller writes what it produced, and answers with what it found.
LEMMA CallerBacked ==
    ASSUME TInv, EInv, TQNext, NEW t \in Task, Query(t) \/ Call(t)
    PROVE  EInv'
  <1>0. /\ query \in Queries /\ mine \in Mines /\ stored \in Stores
        /\ mine[t] \in [result : Field, error : Field, saves : BOOLEAN]
        /\ StoredBacked /\ MineBacked
        /\ \A u \in Task, r \in Field, e \in Field : Backed(u, r, e) => Backed(u, r, e)'
    BY TypeParts, EverStays DEF EInv, Mines
  <1>1. JobsBacked'
    <2>1. UNCHANGED job
      BY DEF Query, Call, LocalReports, LocalEnds, Store, StoreFails, Push, Poll, DeleteResult,
             TimesOut, worker
    <2> QED
      BY <2>1, BackedStays
  <1>2. ASSUME ~Unread(t), SetTask(t, mine[t]), mine' = [mine EXCEPT ![t] = Saved(@)],
               UNCHANGED answer, \A u \in Task \ {t} : query'[u] = query[u]
        PROVE  EInv'
    <2>1. PICK r \in Field, e \in Field :
             r = mine[t].result /\ e = mine[t].error /\ Backed(t, r, e)'
      BY <1>0, <1>2 DEF MineBacked
    <2>2. /\ stored'[t].result = r /\ stored'[t].error = e
          /\ \A u \in Task \ {t} : stored'[u] = stored[u]
      <3> DEFINE obj == mine[t]
      <3>1. obj.result = r /\ obj.error = e /\ SetTask(t, obj)
        BY <1>2, <2>1
      <3> HIDE DEF obj
      <3>2. stored'[t] = [result |-> obj.result, error |-> obj.error, there |-> TRUE]
            /\ \A u \in Task \ {t} : stored'[u] = stored[u]
        BY <3>1, SetTaskTyped
      <3> QED
        BY <3>1, <3>2
    <2>3. /\ mine'[t].result = r /\ mine'[t].error = e
          /\ \A u \in Task \ {t} : mine'[u] = mine[u] /\ (Unread(u) => Unread(u)')
      BY <1>0, <1>2, <2>1 DEF Saved, Mines, Unread
    <2>4. StoredBacked' /\ MineBacked' /\ AnswerBacked'
      BY <1>2, <2>1, <2>2, <2>3, WriteBacked, BackedStays
    <2> QED
      BY <1>1, <2>4 DEF EInv
  <1>3. ASSUME ~Unread(t) \/ Unread(t)', UNCHANGED mine,
               \A u \in Task \ {t} : query'[u] = query[u] /\ answer'[u] = answer[u]
        PROVE  MineBacked'
    BY <1>3, BackedStays DEF Unread
  <1>4. CASE Query(t)
    <2>1. /\ ~Unread(t) /\ UNCHANGED <<mine, answer, stored>>
          /\ \A u \in Task \ {t} : query'[u] = query[u]
      BY <1>0, <1>4 DEF Query, server, Unread, Queries
    <2> QED
      BY <1>1, <1>3, <2>1, BackedStays DEF EInv
  <1>5. CASE LocalReports(t)
    BY <1>2, <1>5 DEF LocalReports, Unread
  <1>6. CASE LocalEnds(t)
    <2>1. PICK o \in Outcomes :
             LET obj  == Ended(mine[t], "local", o)
                 kind == IF SaveFails(obj, o) THEN "unsaved"
                         ELSE IF o = "unpicklable" THEN "value" ELSE o
             IN  /\ IF SaveFails(obj, o) THEN UNCHANGED stored ELSE Save(t, obj)
                 /\ mine' = [mine EXCEPT ![t] = Saved(obj)]
                 /\ Reply(t, kind, IF kind \in {"value", "error"} THEN "local" ELSE Nil)
                 /\ Goto(t, After(t, "local", kind \in {"error", "unsaved"}))
                 /\ Record(t, "local", o)
      BY <1>6 DEF LocalEnds
    <2> DEFINE obj  == Ended(mine[t], "local", o)
               kept == SaveFails(obj, o)
               kind == IF kept THEN "unsaved" ELSE IF o = "unpicklable" THEN "value" ELSE o
               from == IF kind \in {"value", "error"} THEN "local" ELSE Nil
               fail == kind \in {"error", "unsaved"}
    <2>2. /\ "local" \in Place /\ fail \in BOOLEAN
          /\ o \in {"value", "nothing", "error", "unpicklable"}
      BY QueueConstantsAreValid DEF Place
    <2>3. /\ obj.saves = mine[t].saves /\ obj.result \in Field /\ obj.error \in Field
          /\ o = "error" => obj.result = mine[t].result /\ obj.error = "local"
          /\ o \in {"value", "unpicklable"} => obj.result = "local" /\ obj.error = mine[t].error
          /\ o = "nothing" => obj.result = Nil /\ obj.error = mine[t].error
          /\ obj \in [result : Field, error : Field, saves : BOOLEAN]
      BY <1>0, <2>2, EndedTyped
    <2>4. [kind |-> kind, from |-> from] \in Answers
      BY <2>2 DEF Answers, Place
    <2>5. /\ IF kept THEN UNCHANGED stored ELSE Save(t, obj)
          /\ mine' = [mine EXCEPT ![t] = Saved(obj)]
          /\ Reply(t, kind, from)
          /\ Goto(t, After(t, "local", fail))
          /\ Record(t, "local", o)
      BY <2>1
    <2>6. kept <=> o = "unpicklable" /\ mine[t].saves
      BY <2>3 DEF SaveFails
    <2>7. /\ kept => kind = "unsaved"
          /\ kind = "value" => o \in {"value", "unpicklable"}
          /\ kind = "error" => o = "error"
          /\ kind \in {"value", "error"} => from = "local"
          /\ fail <=> kind \in {"error", "unsaved"}
      BY <2>2
    <2> HIDE DEF obj, kept, kind, from, fail
    <2>8. Ever(t, "local", o)'
      BY <2>2, <2>5, EverRecorded
    <2>9. PICK r \in Field, e \in Field :
             r = mine[t].result /\ e = mine[t].error /\ Backed(t, r, e)'
      BY <1>0, <1>6 DEF MineBacked, LocalEnds, Unread
    <2>10. o # "unpicklable" => \E x \in Field, y \in Field :
              Backed(t, x, y)' /\ x = obj.result /\ y = obj.error
      BY <2>2, <2>3, <2>8, <2>9 DEF Backed, Field
    <2>11. /\ query' \in Queries /\ query'[t].pc = After(t, "local", fail)
           /\ \A u \in Task \ {t} : query'[u] = query[u]
           /\ After(t, "local", fail) \in {"store", "done"}
           /\ After(t, "local", fail) = "store" => fail
      <3>1. /\ After(t, "local", fail) \in {"store", "local", "done"}
            /\ After(t, "local", fail) # "local"
            /\ After(t, "local", fail) = "store" => fail
        BY <2>2, AfterTyped
      <3> QED
        BY <2>5, <3>1, GotoTyped DEF Pcs
    <2>12. /\ answer'[t].kind = kind /\ answer'[t].from = from
           /\ \A u \in Task \ {t} : answer'[u] = answer[u]
      BY <2>4, <2>5, ReplyTyped
    <2>13. StoredBacked'
      <3>1. \/ stored' = stored
            \/ /\ ~kept /\ obj.saves
               /\ stored'[t] = [result |-> obj.result, error |-> obj.error, there |-> TRUE]
               /\ \A u \in Task \ {t} : stored'[u] = stored[u]
        BY <2>3, <2>5, SaveTyped
      <3>2. CASE stored' = stored
        BY <3>2, BackedStays
      <3>3. CASE /\ ~kept /\ obj.saves
                 /\ stored'[t] = [result |-> obj.result, error |-> obj.error, there |-> TRUE]
                 /\ \A u \in Task \ {t} : stored'[u] = stored[u]
        BY <2>3, <2>6, <2>10, <3>3, WriteBacked
      <3> QED
        BY <3>1, <3>2, <3>3
    <2>14. MineBacked'
      <3>1. /\ mine'[t].result = obj.result /\ mine'[t].error = obj.error
            /\ \A u \in Task \ {t} : mine'[u] = mine[u] /\ (Unread(u) => Unread(u)')
        BY <1>0, <2>3, <2>5, <2>11, <2>12 DEF Saved, Mines, Unread
      <3>2. Unread(t)' \/ o # "unpicklable"
        BY <2>7, <2>11, <2>12 DEF Unread
      <3> QED
        BY <2>10, <3>1, <3>2, WriteBacked
    <2>15. AnswerBacked'
      BY <2>2, <2>7, <2>8, <2>12, WriteBacked
    <2> QED
      BY <1>1, <2>13, <2>14, <2>15 DEF EInv
  <1>7. CASE Store(t)
    <2>1. \A u \in Task \ {t} : query'[u] = query[u]
      BY <1>7, GotoTyped DEF Store, Pcs
    <2> QED
      BY <1>2, <1>7, <2>1 DEF Store, Unread
  <1>8. CASE StoreFails(t) \/ Push(t)
    <2>1. /\ UNCHANGED <<mine, answer, stored>>
          /\ ~Unread(t) \/ Unread(t)'
          /\ \A u \in Task \ {t} : query'[u] = query[u]
      BY <1>8, GotoTyped DEF StoreFails, Push, server, Pcs, Unread
    <2> QED
      BY <1>1, <1>3, <2>1, BackedStays DEF EInv
  <1>9. CASE Poll(t) \/ DeleteResult(t) \/ TimesOut(t)
    <2>1. /\ UNCHANGED mine /\ ~Unread(t)
          /\ \A u \in Task \ {t} : query'[u] = query[u] /\ answer'[u] = answer[u]
      <3>1. PICK pc \in Pcs : Goto(t, pc)
        <4>1. ASSUME NEW failed \in BOOLEAN
              PROVE  After(t, "remote", failed) \in Pcs
          BY AfterTyped DEF Place, Pcs
        <4>2. (stored[t].error # Nil) \in BOOLEAN /\ (answer[t].kind = "error") \in BOOLEAN
          OBVIOUS
        <4> QED
          BY <1>9, <4>1, <4>2 DEF Poll, DeleteResult, TimesOut, Pcs
      <3>2. \A u \in Task \ {t} : query'[u] = query[u]
        BY <3>1, GotoTyped
      <3>3. \A u \in Task \ {t} : answer'[u] = answer[u]
        BY <1>9, TypeParts DEF Poll, DeleteResult, TimesOut, Reply
      <3> QED
        BY <1>9, <3>2, <3>3 DEF Poll, DeleteResult, TimesOut, Unread
    <2>2. MineBacked'
      BY <1>3, <2>1
    <2>3. StoredBacked'
      <3>1. CASE Poll(t) \/ TimesOut(t)
        BY <3>1, BackedStays DEF Poll, TimesOut, server
      <3>2. CASE DeleteResult(t)
        <4>1. /\ stored'[t].result = Nil /\ stored'[t].error = Nil
              /\ \A u \in Task \ {t} : stored'[u] = stored[u]
          <5>1. /\ stored'[t] = Absent
                /\ \A u \in Task \ {t} : stored'[u] = stored[u]
            BY <3>2, AbsentTyped DEF DeleteResult
          <5> QED
            BY <5>1 DEF Absent
        <4>2. Backed(t, Nil, Nil)' /\ Nil \in Field
          BY DEF Backed, Field
        <4> QED
          BY <4>1, <4>2, WriteBacked
      <3> QED
        BY <1>9, <3>1, <3>2
    <2>4. AnswerBacked'
      <3>1. CASE Poll(t)
        <4>1. PICK r \in Field, e \in Field :
                 r = stored[t].result /\ e = stored[t].error /\ Backed(t, r, e)'
          BY <1>0 DEF StoredBacked, Stores
        <4>2. r # Nil \/ e # Nil
          BY <3>1, <4>1 DEF Poll, Decided, Pending
        <4>3. CASE e # Nil
          <5>1. e \in Place /\ Ever(t, e, "error")' /\ Reply(t, "error", e)
            BY <3>1, <4>1, <4>3 DEF Poll, Backed, Field
          <5>2. answer'[t].kind = "error" /\ answer'[t].from = e
            BY <5>1, ReplyTyped DEF Answers
          <5> QED
            BY <2>1, <5>1, <5>2, WriteBacked
        <4>4. CASE e = Nil
          <5>1. r \in Place /\ Ever(t, r, "value")' /\ Reply(t, "value", r)
            BY <3>1, <4>1, <4>2, <4>4 DEF Poll, Backed, Field
          <5>2. answer'[t].kind = "value" /\ answer'[t].from = r
            BY <5>1, ReplyTyped DEF Answers
          <5> QED
            BY <2>1, <5>1, <5>2, WriteBacked
        <4> QED
          BY <4>3, <4>4
      <3>2. CASE DeleteResult(t)
        BY <3>2, BackedStays DEF DeleteResult
      <3>3. CASE TimesOut(t)
        <4>1. answer'[t].kind = "timeout"
          BY <3>3, ReplyTyped DEF TimesOut, Answers
        <4> QED
          BY <2>1, <4>1, WriteBacked
      <3> QED
        BY <1>9, <3>1, <3>2, <3>3
    <2> QED
      BY <1>1, <2>2, <2>3, <2>4 DEF EInv
  <1> QED
    BY <1>4, <1>5, <1>6, <1>7, <1>8, <1>9 DEF Call

\* The worker hands on what it read, or writes what task_fn just gave it.
LEMMA WorkerBacked ==
    ASSUME TInv, EInv, TQNext,
           \/ Work \/ AnnouncementExpires
           \/ \E t \in Task : ResultExpires(t)
           \/ \E l \in Listener : Listen(l) \/ Crash(l)
    PROVE  EInv'
  <1>0. /\ stored \in Stores /\ job \in Jobs /\ PoppedTyped /\ UNCHANGED caller
        /\ StoredBacked /\ JobsBacked /\ "remote" \in Place
        /\ \A u \in Task, r \in Field, e \in Field : Backed(u, r, e) => Backed(u, r, e)'
    BY TypeParts, EverStays
    DEF EInv, Place, Work, AnnouncementExpires, ResultExpires, Listen, Crash, Pop, Fetch,
        PopFindsNothing, Announce, JobReports, JobEnds
  <1>1. MineBacked' /\ AnswerBacked'
    BY <1>0, BackedStays DEF caller, Unread
  <1>2. ASSUME \A u \in Task : \E r \in Field, e \in Field :
                  Backed(u, r, e) /\ job'[u].result = r /\ job'[u].error = e
        PROVE  JobsBacked'
    <2> SUFFICES ASSUME NEW u \in Task
                 PROVE  Backed(u, job[u].result, job[u].error)'
      BY DEF JobsBacked
    <2>1. PICK r \in Field, e \in Field :
             Backed(u, r, e) /\ job'[u].result = r /\ job'[u].error = e
      BY <1>2
    <2> QED
      BY <1>0, <2>1
  <1>3. \A u \in Task :
           /\ \E r \in Field, e \in Field :
                 Backed(u, r, e) /\ job[u].result = r /\ job[u].error = e
           /\ \E r \in Field, e \in Field :
                 Backed(u, r, e) /\ stored[u].result = r /\ stored[u].error = e
    BY <1>0 DEF StoredBacked, JobsBacked, Stores, Jobs
  <1>4. \A u \in Task : Backed(u, Nil, Nil) /\ Backed(u, Nil, Nil)'
    BY DEF Backed
  <1>5. ASSUME NEW l \in Listener, Fetch(l) PROVE EInv'
    <2> DEFINE t == listener[l].id
    <2>1. /\ t \in Task /\ UNCHANGED stored
          /\ \A u \in Task : \/ job'[u].result = job[u].result /\ job'[u].error = job[u].error
                             \/ /\ job'[u].result = stored[u].result
                                /\ job'[u].error = stored[u].error
      BY <1>0, <1>5 DEF Fetch, PoppedTyped, Jobs, server
    <2>2. JobsBacked'
      BY <1>2, <1>3, <2>1
    <2> QED
      BY <1>1, <2>1, <2>2, BackedStays DEF EInv
  <1>6. ASSUME NEW l \in Listener, Crash(l) PROVE EInv'
    <2>1. /\ UNCHANGED stored
          /\ \A u \in Task : job'[u] = job[u] \/ (job'[u].result = Nil /\ job'[u].error = Nil)
      BY <1>6 DEF Crash, NoJob, server
    <2>2. JobsBacked'
      BY <1>2, <1>3, <1>4, <2>1 DEF Field
    <2> QED
      BY <1>1, <2>1, <2>2, BackedStays DEF EInv
  <1>7. ASSUME NEW t \in Task, ResultExpires(t) PROVE EInv'
    <2>1. /\ stored'[t] = Absent /\ UNCHANGED job
          /\ \A u \in Task \ {t} : stored'[u] = stored[u]
      BY <1>7, AbsentTyped DEF ResultExpires, worker
    <2>2. stored'[t].result = Nil /\ stored'[t].error = Nil /\ Nil \in Field
      BY <2>1 DEF Absent, Field
    <2> QED
      BY <1>1, <1>4, <2>1, <2>2, WriteBacked, BackedStays DEF EInv
  <1>8. ASSUME NEW t \in Task, JobReports(t) PROVE EInv'
    <2> DEFINE obj == job[t]
    <2>1. obj \in [host : Listener \cup {Nil}, result : Field, error : Field, saves : BOOLEAN]
      BY <1>0 DEF Jobs
    <2>2. /\ SetTask(t, obj) /\ job' = [job EXCEPT ![t] = Saved(obj)]
      BY <1>8 DEF JobReports
    <2>3. PICK r \in Field, e \in Field : Backed(t, r, e) /\ obj.result = r /\ obj.error = e
      BY <1>3
    <2> HIDE DEF obj
    <2>4. /\ stored'[t] = [result |-> r, error |-> e, there |-> TRUE]
          /\ \A u \in Task \ {t} : stored'[u] = stored[u]
      BY <2>1, <2>2, <2>3, SetTaskTyped
    <2>5. \A u \in Task : IF u = t THEN job'[u].result = r /\ job'[u].error = e
                          ELSE job'[u] = job[u]
      BY <1>0, <2>1, <2>2, <2>3 DEF Jobs, Saved
    <2>6. JobsBacked'
      BY <1>2, <1>3, <2>3, <2>5
    <2>7. StoredBacked'
      BY <1>0, <2>3, <2>4, WriteBacked
    <2> QED
      BY <1>1, <2>6, <2>7 DEF EInv
  <1>9. ASSUME NEW t \in Task, JobEnds(t) PROVE EInv'
    <2>1. PICK o \in Outcomes :
             /\ IF SaveFails(job[t], o) THEN UNCHANGED stored
                ELSE Save(t, Ended(job[t], "remote", o))
             /\ Record(t, "remote", o)
      BY <1>9 DEF JobEnds
    <2> DEFINE obj  == Ended(job[t], "remote", o)
               kept == SaveFails(job[t], o)
    <2>2. /\ obj.result \in Field /\ obj.error \in Field /\ obj.saves = job[t].saves
          /\ o = "error" => obj.result = job[t].result /\ obj.error = "remote"
          /\ o \in {"value", "unpicklable"} => obj.result = "remote" /\ obj.error = job[t].error
          /\ o = "nothing" => obj.result = Nil /\ obj.error = job[t].error
          /\ job[t].saves \in BOOLEAN
          /\ o \in {"value", "nothing", "error", "unpicklable"}
      BY <1>0, EndedTyped, QueueConstantsAreValid DEF Jobs
    <2>3. kept <=> o = "unpicklable" /\ job[t].saves
      BY DEF SaveFails
    <2>4. IF kept THEN UNCHANGED stored ELSE Save(t, obj)
      BY <2>1
    <2> HIDE DEF obj, kept
    <2>5. Ever(t, "remote", o)'
      BY <1>0, <2>1, EverRecorded
    <2>6. PICK r \in Field, e \in Field :
             Backed(t, r, e)' /\ job[t].result = r /\ job[t].error = e
      BY <1>0, <1>3
    <2>7. o # "unpicklable" => \E x \in Field, y \in Field :
              Backed(t, x, y)' /\ x = obj.result /\ y = obj.error
      BY <2>2, <2>5, <2>6 DEF Backed, Field
    <2>8. \/ stored' = stored
          \/ /\ ~kept /\ obj.saves
             /\ stored'[t] = [result |-> obj.result, error |-> obj.error, there |-> TRUE]
             /\ \A u \in Task \ {t} : stored'[u] = stored[u]
      BY <2>2, <2>4, SaveTyped
    <2>9. StoredBacked'
      <3>1. CASE stored' = stored
        BY <3>1, BackedStays
      <3>2. CASE /\ ~kept /\ obj.saves
                 /\ stored'[t] = [result |-> obj.result, error |-> obj.error, there |-> TRUE]
                 /\ \A u \in Task \ {t} : stored'[u] = stored[u]
        BY <2>2, <2>3, <2>7, <3>2, WriteBacked
      <3> QED
        BY <2>8, <3>1, <3>2
    <2>10. \A u \in Task : \/ u # t /\ job'[u] = job[u]
                           \/ u = t /\ job'[u].result = Nil /\ job'[u].error = Nil
      BY <1>0, <1>9 DEF JobEnds, NoJob, Jobs
    <2>11. JobsBacked'
      BY <1>2, <1>3, <1>4, <2>10 DEF Field
    <2> QED
      BY <1>1, <2>9, <2>11 DEF EInv
  <1>10. ASSUME UNCHANGED <<stored, job>> PROVE EInv'
    BY <1>1, <1>10, BackedStays DEF EInv
  <1> QED
    BY <1>5, <1>6, <1>7, <1>8, <1>9, <1>10
    DEF Work, Pop, PopFindsNothing, Announce, Listen, AnnouncementExpires, server, worker

\* Every object a query, its key or its worker holds was produced by task_fn.
THEOREM QueueBackedInductive == TQSpec => [](TInv /\ EInv)
  <1>1. TQInit => TInv /\ EInv
    BY QueueInitTyped, QueueInitBacked
  <1>2. TInv /\ EInv /\ [TQNext]_tvars => EInv'
    <2> SUFFICES ASSUME TInv, EInv, [TQNext]_tvars PROVE EInv'
      OBVIOUS
    <2>1. CASE UNCHANGED tvars
      <3>1. UNCHANGED <<query, mine, stored, job, answer, runs>>
        BY <2>1 DEF tvars
      <3> QED
        BY <3>1 DEF EInv, StoredBacked, JobsBacked, MineBacked, AnswerBacked, Backed, Ever, Unread
    <2>2. CASE TQNext
      BY <2>2, CallerBacked, WorkerBacked DEF TQNext
    <2> QED
      BY <2>1, <2>2
  <1> QED
    BY <1>1, <1>2, QueueTypes, PTL DEF TQSpec

\* Whatever crashes, expires or overtakes, a query returns or raises an outcome
\* task_fn had for this very task at the place the answer names.
THEOREM AnswersGenuine == TQSpec => []AnswersAreGenuine
  <1>1. TInv /\ EInv => AnswersAreGenuine
    <2> SUFFICES ASSUME TInv, EInv, NEW t \in Task, answer[t].kind \in {"value", "error"}
                 PROVE  \E p \in Place :
                           /\ p = answer[t].from
                           /\ \E i \in DOMAIN runs[t][p] :
                                 \/ runs[t][p][i] = answer[t].kind
                                 \/ /\ runs[t][p][i] = "unpicklable"
                                    /\ p = "local" /\ answer[t].kind = "value"
      BY DEF AnswersAreGenuine
    <2>1. answer[t].from \in Place
      BY TypeParts DEF Answers
    <2> QED
      BY <2>1 DEF EInv, AnswerBacked, Ever
  <1> QED
    BY <1>1, QueueBackedInductive, PTL

-----------------------------------------------------------------------------

\* Without trouble, RemoteFirst comes here with an error from there.
RemoteFell(t) ==
    /\ query[t].policy = "RemoteFirst" /\ ~trouble
    /\ \/ query[t].pc = "local"
       \/ Ran(t, "local")
       \/ query[t].pc = "delete" /\ answer[t].kind = "error"

GInv == \A t \in Task : RemoteFell(t) => Ever(t, "remote", "error")

\* What a caller reads from the key as an error, the remote run left there: it did
\* not run the task itself.
LEMMA RemoteErrorFound ==
    ASSUME TInv, RInv, EInv, NEW t \in Task, query[t].pc = "poll",
           query[t].policy = "RemoteFirst", stored[t].error # Nil
    PROVE  Ever(t, "remote", "error")
  <1>1. ~Ran(t, "local")
    BY DEF RInv, LocalOnce, LocalAhead
  <1>2. stored[t].error \in Place
    BY TypeParts DEF Stores, Field
  <1>3. Ever(t, stored[t].error, "error")
    BY DEF EInv, StoredBacked, Backed
  <1>4. stored[t].error # "local"
    BY <1>1, <1>3, EmptySeq DEF Ever, Ran
  <1> QED
    BY <1>2, <1>3, <1>4 DEF Place

\* It comes here by an error it read, or not without trouble.
LEMMA RemoteFellStep ==
    TInv /\ RInv /\ EInv /\ GInv /\ [TQNext]_tvars => GInv'
  <1> SUFFICES ASSUME TInv, RInv, EInv, GInv, [TQNext]_tvars, NEW u \in Task, RemoteFell(u)'
               PROVE  Ever(u, "remote", "error")'
    BY DEF GInv
  <1>0. Ever(u, "remote", "error") => Ever(u, "remote", "error")'
    <2>1. CASE UNCHANGED tvars
      BY <2>1 DEF tvars, Ever
    <2>2. CASE TQNext
      BY <2>2, EverStays DEF Place
    <2> QED
      BY <2>1, <2>2
  <1>1. trouble' = trouble /\ query \in Queries /\ runs \in Runs /\ "local" \in Place
    BY TypeParts DEF TQNext, tvars, Query, Call, LocalReports, LocalEnds, Store, StoreFails, Push,
       Poll, DeleteResult, TimesOut, Work, Pop, Fetch, PopFindsNothing, Announce, JobReports,
       JobEnds, Listen, Crash, ResultExpires, AnnouncementExpires, Place
  <1>2. CASE RemoteFell(u)
    BY <1>0, <1>2 DEF GInv
  <1>3. CASE ~RemoteFell(u)
    <2>1. ASSUME NEW t \in Task, Query(t) \/ Call(t) PROVE Ever(u, "remote", "error")'
      <3>1. CASE t # u
        <4>1. query'[u] = query[u] /\ answer'[u] = answer[u]
          BY <2>1, <3>1, OthersStay
        <4>2. Ran(u, "local")' <=> Ran(u, "local")
          BY <1>1, <2>1, <3>1
          DEF Query, Call, LocalReports, LocalEnds, Store, StoreFails, Push, Poll, DeleteResult,
              TimesOut, Record, Runs, Ran
        <4> QED
          BY <1>1, <1>3, <4>1, <4>2 DEF RemoteFell
      <3>2. CASE t = u /\ (Query(t) \/ LocalReports(t) \/ Store(t) \/ StoreFails(t) \/ Push(t))
        <4>1. /\ query'[u].pc = "local" => query'[u].policy # "RemoteFirst" \/ query[u].pc = "local"
              /\ query'[u].pc # "delete"
              /\ Ran(u, "local")' <=> Ran(u, "local")
              /\ Ran(u, "local") => query[u].pc # "new" /\ query'[u].policy = query[u].policy
              /\ query[u].pc = "local" => query'[u].policy = query[u].policy
          <5>1. CASE Query(u)
            BY <1>1, <3>2, <5>1 DEF Query, Queries, Ran, RInv, LocalOnce, LocalAhead
          <5>2. CASE LocalReports(u)
            BY <3>2, <5>2 DEF LocalReports, Ran, RInv, LocalOnce, LocalAhead
          <5>3. CASE Store(u) \/ StoreFails(u) \/ Push(u)
            BY <3>2, <5>3, GotoTyped DEF Store, StoreFails, Push, Pcs, Ran
          <5> QED
            BY <3>2, <5>1, <5>2, <5>3
        <4> QED
          BY <1>1, <1>3, <4>1 DEF RemoteFell
      <3>3. CASE t = u /\ LocalEnds(t)
        <4>1. query[u].pc = "local" /\ query'[u].policy = query[u].policy
          BY <3>3, LocalEndsLeaves DEF LocalEnds
        <4> QED
          BY <1>1, <1>3, <4>1 DEF RemoteFell
      <3>4. CASE t = u /\ Poll(t)
        <4>1. /\ query[u].pc = "poll" /\ query'[u].policy = query[u].policy
              /\ UNCHANGED runs
          BY <3>4, RemoteAnswerLeads DEF Poll
        <4>2. stored[u].error # Nil
          <5>1. SUFFICES ASSUME stored[u].error = Nil PROVE FALSE
            OBVIOUS
          <5>2. /\ Reply(u, "value", stored[u].result)
                /\ Goto(u, IF query[u].once THEN "delete" ELSE After(u, "remote", FALSE))
            BY <3>4, <5>1 DEF Poll
          <5>3. answer'[u].kind = "value"
            BY <5>2, TypeParts DEF Reply
          <5>4. After(u, "remote", FALSE) = "done"
            BY DEF After
          <5>5. query'[u].pc \in {"delete", "done"}
            BY <5>2, <5>4, GotoTyped DEF Pcs
          <5>6. ~Ran(u, "local")'
            BY <1>1, <4>1 DEF RemoteFell, Ran, RInv, LocalOnce, LocalAhead
          <5> QED
            BY <5>3, <5>5, <5>6 DEF RemoteFell
        <4>3. query[u].policy = "RemoteFirst"
          BY <4>1 DEF RemoteFell
        <4> QED
          BY <1>0, <4>1, <4>2, <4>3, RemoteErrorFound
      <3>5. CASE t = u /\ DeleteResult(t)
        <4>1. /\ query[u].pc = "delete" /\ query'[u].policy = query[u].policy
              /\ UNCHANGED <<runs, answer>>
          BY <3>5, RemoteAnswerLeads DEF DeleteResult
        <4>2. answer[u].kind # "error" => query'[u].pc = "done"
          <5>1. CASE answer[u].kind # "error"
            <6>1. Goto(u, After(u, "remote", FALSE))
              BY <3>5, <5>1 DEF DeleteResult
            <6>2. After(u, "remote", FALSE) = "done"
              BY DEF After
            <6> QED
              BY <6>1, <6>2, GotoTyped DEF Pcs
          <5> QED
            BY <5>1
        <4>3. query'[u].pc # "delete"
          BY <3>5, <4>1, RemoteAnswerLeads DEF Poll
        <4> QED
          BY <1>1, <1>3, <4>1, <4>2, <4>3 DEF RemoteFell, Ran
      <3>6. CASE t = u /\ TimesOut(t)
        BY <1>1, <3>6 DEF TimesOut, RemoteFell
      <3> QED
        BY <2>1, <3>1, <3>2, <3>3, <3>4, <3>5, <3>6 DEF Call
    <2>2. CASE UNCHANGED caller
      <3>1. Ran(u, "local")' <=> Ran(u, "local")
        <4>0. ASSUME NEW t \in Task, LocalEnds(t) PROVE FALSE
          BY <2>2, <4>0, LocalEndsLeaves DEF LocalEnds, caller
        <4>1. UNCHANGED runs \/ \E t \in Task : JobEnds(t)
          BY <4>0 DEF TQNext, tvars, Query, Call, LocalReports, Store, StoreFails, Push,
             Poll, DeleteResult, TimesOut, Work, Pop, Fetch, PopFindsNothing, Announce, JobReports,
             Listen, Crash, ResultExpires, AnnouncementExpires
        <4>2. ASSUME NEW t \in Task, JobEnds(t) PROVE runs'[u]["local"] = runs[u]["local"]
          BY <1>1, <4>2 DEF JobEnds, Record, Runs
        <4> QED
          BY <4>1, <4>2 DEF Ran
      <3> QED
        BY <1>1, <1>3, <2>2, <3>1 DEF RemoteFell, caller
    <2>3. UNCHANGED caller \/ \E t \in Task : Query(t) \/ Call(t)
      BY DEF TQNext, tvars, caller, ResultExpires, Work, Pop, Fetch, PopFindsNothing, Announce,
             JobReports, JobEnds, Listen, Crash, AnnouncementExpires
    <2> QED
      BY <2>1, <2>2, <2>3
  <1> QED
    BY <1>2, <1>3

\* The other place of a fallback policy is asked only after task_fn failed at the
\* first, or a deadline passed; and RemoteFirst raises the local error only.
THEOREM FallbacksFollow == TQSpec => []FallbacksFollowFailures
  <1>1. TQInit => GInv
    <2> SUFFICES ASSUME TQInit, NEW t \in Task PROVE ~RemoteFell(t)
      BY DEF GInv
    <2>1. query[t].policy = Nil /\ query[t].pc = "new" /\ ~Ran(t, "local")
      BY DEF TQInit, Ran, Place
    <2> QED
      BY <2>1 DEF RemoteFell, TQInit
  <1>2. TInv /\ FInv /\ RInv /\ GInv => FallbacksFollowFailures
    <2> SUFFICES ASSUME TInv, FInv, RInv, GInv, NEW t \in Task
                 PROVE  /\ query[t].policy = "LocalFirst" /\ Ran(t, "remote") => Failed(t, "local")
                        /\ query[t].policy = "RemoteFirst" /\ Ran(t, "local")
                              => trouble \/ Failed(t, "remote")
                        /\ /\ query[t].policy = "RemoteFirst" /\ query[t].pc = "done"
                           /\ answer[t].kind = "error"
                           => answer[t].from = "local"
      BY DEF FallbacksFollowFailures
    <2>1. ASSUME query[t].policy = "LocalFirst", Ran(t, "remote") PROVE Failed(t, "local")
      <3>1. ~Unsent(t)
        BY <2>1 DEF RInv, TokenSpent
      <3>2. query[t].pc \in Pcs
        BY TypeParts DEF Queries
      <3> QED
        BY <2>1, <3>1, <3>2 DEF Unsent, Pcs, FInv, LocalFell, Waiting, Failed, Ever
    <2>2. ASSUME query[t].policy = "RemoteFirst", Ran(t, "local"), ~trouble
          PROVE  Failed(t, "remote")
      BY <2>2 DEF GInv, RemoteFell, Failed, Ever
    <2>3. ASSUME query[t].policy = "RemoteFirst", query[t].pc = "done", answer[t].kind = "error"
          PROVE  answer[t].from = "local"
      BY <2>3 DEF FInv
    <2> QED
      BY <2>1, <2>2, <2>3
  <1> QED
    BY <1>1, <1>2, RemoteFellStep, QueueRunsInductive, QueueBackedInductive, PTL DEF TQSpec

-----------------------------------------------------------------------------

\* A caller that still executes, stores or waits has no result in its object.
Resultless(t) ==
    \/ query[t].pc \in {"new", "local"} \/ Waiting(t)
    \/ query[t].pc = "store" /\ answer[t].kind # "unsaved"
    => mine[t].result = Nil

\* As long as the task did not run remotely, key and job hold what the caller put
\* there: no result, and the error of a local attempt.
Untouched(t) ==
    Waiting(t) /\ ~Ran(t, "remote") =>
        /\ stored[t].there => stored[t].result = Nil /\ stored[t].error = mine[t].error
        /\ Running(t) => job[t].result = Nil /\ job[t].error = mine[t].error

\* Once an outcome was seen, whatever is written to the key is an outcome.
OutcomeSeen(t) ==
    query[t].pc = "delete" => IF Ran(t, "remote") THEN ~Pending(t) ELSE mine[t].error # Nil

DInv == \A t \in Task : Resultless(t) /\ Untouched(t) /\ OutcomeSeen(t)

\* Before any query.
LEMMA QueueInitUntouched == TQInit => DInv
  <1> SUFFICES ASSUME TQInit, NEW t \in Task
               PROVE  Resultless(t) /\ Untouched(t) /\ OutcomeSeen(t)
    BY DEF DInv
  <1>1. query[t].pc = "new" /\ mine[t].result = Nil
    BY DEF TQInit, NewTask
  <1>2. ~Waiting(t) /\ query[t].pc # "delete"
    BY <1>1 DEF Waiting
  <1> QED
    BY <1>1, <1>2 DEF Resultless, Untouched, OutcomeSeen

\* A task nothing was done to, but perhaps that its job is gone.
LEMMA UntouchedStays ==
    ASSUME DInv, NEW u \in Task,
           query'[u].pc = query[u].pc, answer'[u].kind = answer[u].kind,
           mine'[u].result = mine[u].result, mine'[u].error = mine[u].error,
           stored'[u] = stored[u], runs'[u]["remote"] = runs[u]["remote"],
           job'[u] = job[u] \/ ~Running(u)'
    PROVE  Resultless(u)' /\ Untouched(u)' /\ OutcomeSeen(u)'
  <1>1. (Pending(u)' <=> Pending(u)) /\ (Ran(u, "remote")' <=> Ran(u, "remote"))
        /\ (Waiting(u)' <=> Waiting(u)) /\ (Running(u)' => Running(u) /\ job'[u] = job[u])
    BY DEF Pending, Ran, Waiting, Running
  <1>2. Resultless(u)'
    BY <1>1 DEF DInv, Resultless
  <1>3. Untouched(u)'
    BY <1>1 DEF DInv, Untouched
  <1>4. OutcomeSeen(u)'
    BY <1>1 DEF DInv, OutcomeSeen
  <1> QED
    BY <1>2, <1>3, <1>4

\* The caller stores its object before it waits, and only deletes an outcome.
LEMMA CallerUntouched ==
    ASSUME TInv, RInv, DInv, NEW t \in Task, Query(t) \/ Call(t)
    PROVE  DInv'
  <1>0. /\ query \in Queries /\ mine \in Mines /\ stored \in Stores /\ job' = job
        /\ mine[t] \in [result : Field, error : Field, saves : BOOLEAN]
        /\ Resultless(t) /\ Untouched(t) /\ OutcomeSeen(t)
    BY TypeParts, OthersStay
    DEF DInv, Mines, Query, Call, LocalReports, LocalEnds, Store, StoreFails, Push, Poll,
        DeleteResult, TimesOut, worker
  <1> SUFFICES Resultless(t)' /\ Untouched(t)' /\ OutcomeSeen(t)'
    <2>1. ASSUME NEW u \in Task, u # t
          PROVE  Resultless(u)' /\ Untouched(u)' /\ OutcomeSeen(u)'
      BY <2>1, OthersStay, UntouchedStays
    <2> QED
      BY <2>1 DEF DInv
  <1>1. CASE Query(t)
    <2>1. query[t].pc = "new" /\ query'[t].pc \in {"local", "store"} /\ mine' = mine
      BY <1>0, <1>1 DEF Query, Queries
    <2> QED
      BY <1>0, <2>1 DEF Resultless, Untouched, OutcomeSeen, Waiting
  <1>2. CASE LocalReports(t)
    <2>1. query[t].pc = "local" /\ query' = query /\ mine'[t].result = mine[t].result
      BY <1>0, <1>2 DEF LocalReports, Saved, Mines
    <2> QED
      BY <1>0, <2>1 DEF Resultless, Untouched, OutcomeSeen, Waiting
  <1>3. CASE LocalEnds(t)
    <2>1. query[t].pc = "local"
      BY <1>3 DEF LocalEnds
    <2> QED
      BY <1>0, <1>3, <2>1, LocalEndsLeaves DEF Resultless, Untouched, OutcomeSeen, Waiting
  <1>4. CASE Store(t)
    <2>1. query'[t].pc = "push"
      BY <1>4, GotoTyped DEF Store, Pcs
    <2>2. ~Running(t)
      BY <1>4 DEF Store, RInv, TokenSpent, Unsent, Underway
    <2>3. mine'[t].result = mine[t].result /\ mine'[t].error = mine[t].error
      BY <1>0, <1>4 DEF Store, Saved, Mines
    <2>4. stored'[t].result = mine[t].result /\ stored'[t].error = mine[t].error
      BY <1>0, <1>4 DEF Store, SetTask, Stores
    <2>5. mine[t].result = Nil
      BY <1>0, <1>4 DEF Store, Resultless
    <2> QED
      BY <1>0, <2>1, <2>2, <2>3, <2>4, <2>5
      DEF Resultless, Untouched, OutcomeSeen, Waiting, Running
  <1>5. CASE StoreFails(t)
    <2>1. query'[t].pc = "done"
      BY <1>5, GotoTyped DEF StoreFails, Pcs
    <2> QED
      BY <2>1 DEF Resultless, Untouched, OutcomeSeen, Waiting
  <1>6. CASE Push(t)
    <2>1. query[t].pc = "push" /\ query'[t].pc = "poll" /\ UNCHANGED <<mine, stored, runs>>
      BY <1>6, GotoTyped DEF Push, Pcs
    <2> QED
      BY <1>0, <2>1 DEF Resultless, Untouched, OutcomeSeen, Waiting, Ran, Running
  <1>7. CASE Poll(t) \/ DeleteResult(t) \/ TimesOut(t)
    <2>1. /\ query'[t].pc \in {"delete", "local", "done"}
          /\ query'[t].pc = "delete" => Poll(t)
          /\ Waiting(t) /\ UNCHANGED <<mine, runs>>
      BY <1>7, RemoteAnswerLeads DEF Poll, DeleteResult, TimesOut, Waiting
    <2>2. Resultless(t)'
      BY <1>0, <2>1 DEF Resultless
    <2>3. ASSUME Poll(t) PROVE stored' = stored /\ Decided(t) /\ stored[t].there
      BY <2>3 DEF Poll, server, Decided
    <2>4. Untouched(t)'
      <3>1. CASE query'[t].pc = "delete"
        <4>1. /\ stored' = stored /\ job' = job /\ mine' = mine
              /\ Waiting(t) /\ (Ran(t, "remote")' <=> Ran(t, "remote"))
              /\ (Running(t)' <=> Running(t))
          BY <1>0, <2>1, <2>3, <3>1 DEF Ran, Running
        <4> QED
          BY <1>0, <4>1 DEF Untouched
      <3>2. CASE query'[t].pc # "delete"
        BY <2>1, <3>2 DEF Untouched, Waiting
      <3> QED
        BY <3>1, <3>2
    <2>5. OutcomeSeen(t)'
      <3> SUFFICES ASSUME Poll(t)
                   PROVE  IF Ran(t, "remote") THEN ~Pending(t) ELSE mine[t].error # Nil
        BY <2>1, <2>3 DEF OutcomeSeen, Ran, Pending
      <3> QED
        BY <1>0, <2>1, <2>3 DEF Decided, Pending, Untouched
    <2> QED
      BY <2>2, <2>4, <2>5
  <1> QED
    BY <1>1, <1>2, <1>3, <1>4, <1>5, <1>6, <1>7 DEF Call

\* The worker writes back what it read, until it writes an outcome.
LEMMA WorkerUntouched ==
    ASSUME TInv, RInv, DInv,
           \/ Work \/ AnnouncementExpires
           \/ \E t \in Task : ResultExpires(t)
           \/ \E l \in Listener : Listen(l) \/ Crash(l)
    PROVE  DInv'
  <1>0. /\ stored \in Stores /\ job \in Jobs /\ runs \in Runs /\ PoppedTyped
        /\ UNCHANGED <<query, mine, answer>> /\ "remote" \in Place
        /\ \A u \in Task : Resultless(u) /\ Untouched(u) /\ OutcomeSeen(u)
    BY TypeParts
    DEF DInv, Place, Work, AnnouncementExpires, ResultExpires, Listen, Crash, Pop, Fetch,
        PopFindsNothing, Announce, JobReports, JobEnds, caller
  <1>1. ASSUME UNCHANGED <<stored, runs>>, \A u \in Task : job'[u] = job[u] \/ ~Running(u)'
        PROVE  DInv'
    <2> SUFFICES ASSUME NEW u \in Task
                 PROVE  Resultless(u)' /\ Untouched(u)' /\ OutcomeSeen(u)'
      BY DEF DInv
    <2> QED
      BY <1>0, <1>1, UntouchedStays
  <1>2. ASSUME NEW t \in Task, Untouched(t)', OutcomeSeen(t)',
               \A u \in Task \ {t} : /\ stored'[u] = stored[u] /\ job'[u] = job[u]
                                     /\ runs'[u]["remote"] = runs[u]["remote"]
        PROVE  DInv'
    <2> SUFFICES ASSUME NEW u \in Task
                 PROVE  Resultless(u)' /\ Untouched(u)' /\ OutcomeSeen(u)'
      BY DEF DInv
    <2>1. CASE u = t
      BY <1>0, <1>2, <2>1 DEF Resultless, Waiting
    <2>2. CASE u # t
      BY <1>0, <1>2, <2>2, UntouchedStays
    <2> QED
      BY <2>1, <2>2
  <1>3. ASSUME NEW l \in Listener, Fetch(l) PROVE DInv'
    <2>1. PICK t \in Task :
             /\ UNCHANGED <<stored, runs>>
             /\ \A u \in Task \ {t} : job'[u] = job[u]
             /\ \/ job'[t] = job[t]
                \/ /\ stored[t].there
                   /\ job'[t].result = stored[t].result /\ job'[t].error = stored[t].error
      BY <1>0, <1>3 DEF Fetch, PoppedTyped, Jobs, server
    <2>2. Untouched(t)'
      BY <1>0, <2>1 DEF Untouched, Waiting, Ran, Running
    <2>3. OutcomeSeen(t)'
      BY <1>0, <2>1 DEF OutcomeSeen, Ran, Pending
    <2> QED
      BY <1>2, <2>1, <2>2, <2>3
  <1>4. ASSUME NEW l \in Listener, Crash(l) PROVE DInv'
    BY <1>1, <1>4 DEF Crash, Running, NoJob, server
  <1>5. ASSUME NEW t \in Task, JobReports(t) PROVE DInv'
    <2>1. /\ Running(t) /\ UNCHANGED runs
          /\ \A u \in Task \ {t} : stored'[u] = stored[u] /\ job'[u] = job[u]
          /\ stored'[t].result = job[t].result /\ stored'[t].error = job[t].error
          /\ job'[t].result = job[t].result /\ job'[t].error = job[t].error
      BY <1>0, <1>5 DEF JobReports, SetTask, Saved, Stores, Jobs
    <2>2. ~Ran(t, "remote")
      BY <2>1 DEF RInv, TokenSpent, Underway
    <2>3. Untouched(t)' /\ OutcomeSeen(t)'
      BY <1>0, <2>1, <2>2 DEF Untouched, OutcomeSeen, Waiting, Ran
    <2> QED
      BY <1>2, <2>1, <2>3
  <1>6. ASSUME NEW t \in Task, JobEnds(t) PROVE DInv'
    <2>1. PICK o \in Outcomes :
             /\ IF SaveFails(job[t], o) THEN UNCHANGED stored
                ELSE Save(t, Ended(job[t], "remote", o))
             /\ Record(t, "remote", o)
      BY <1>6 DEF JobEnds
    <2>2. /\ Running(t) /\ \A u \in Task \ {t} : job'[u] = job[u]
      BY <1>0, <1>6 DEF JobEnds, Jobs
    <2>3. /\ Ran(t, "remote")' /\ ~Ran(t, "remote")
          /\ \A u \in Task \ {t} : runs'[u]["remote"] = runs[u]["remote"]
      <3>1. /\ runs[t]["remote"] \in Seq(Outcomes)
            /\ runs'[t]["remote"] = Append(runs[t]["remote"], o)
            /\ \A u \in Task, q \in Place : u # t \/ q # "remote" => runs'[u][q] = runs[u][q]
        BY <1>0, <2>1, RecordTyped
      <3>2. runs'[t]["remote"] # <<>>
        BY <3>1, AppendProperties
      <3> QED
        BY <1>0, <2>2, <3>1, <3>2 DEF Ran, RInv, TokenSpent, Underway
    <2> DEFINE obj  == Ended(job[t], "remote", o)
               kept == SaveFails(job[t], o)
    <2>4. /\ obj.result \in Field /\ obj.error \in Field /\ obj.saves \in BOOLEAN
          /\ obj.error \in {"remote", job[t].error}
      BY <1>0, EndedTyped, QueueConstantsAreValid DEF Jobs
    <2>5. IF kept THEN UNCHANGED stored ELSE Save(t, obj)
      BY <2>1
    <2> HIDE DEF obj, kept
    <2>6. \/ stored' = stored
          \/ /\ stored'[t] = [result |-> obj.result, error |-> obj.error, there |-> TRUE]
             /\ \A u \in Task \ {t} : stored'[u] = stored[u]
      BY <2>4, <2>5, SaveTyped
    <2>7. Untouched(t)'
      BY <2>3 DEF Untouched
    <2>8. ASSUME query[t].pc = "delete" PROVE ~Pending(t)'
      <3>1. /\ mine[t].error # Nil /\ job[t].error = mine[t].error
            /\ stored[t].there => stored[t].error = mine[t].error
        BY <1>0, <2>2, <2>3, <2>8 DEF OutcomeSeen, Untouched, Waiting
      <3>2. "remote" # Nil
        BY QueueConstantsAreValid
      <3> QED
        BY <2>4, <2>6, <3>1, <3>2 DEF Pending
    <2>9. OutcomeSeen(t)'
      BY <1>0, <2>3, <2>8 DEF OutcomeSeen
    <2> QED
      BY <1>2, <2>2, <2>3, <2>6, <2>7, <2>9
  <1>7. ASSUME NEW t \in Task, ResultExpires(t) PROVE DInv'
    <2>1. /\ ~stored'[t].there /\ UNCHANGED <<job, runs>>
          /\ \A u \in Task \ {t} : stored'[u] = stored[u]
      BY <1>7, AbsentTyped DEF ResultExpires, worker
    <2>2. Untouched(t)' /\ OutcomeSeen(t)'
      BY <1>0, <2>1 DEF Untouched, OutcomeSeen, Waiting, Ran, Running, Pending
    <2> QED
      BY <1>2, <2>1, <2>2
  <1> QED
    BY <1>1, <1>3, <1>4, <1>5, <1>6, <1>7
    DEF Work, Pop, PopFindsNothing, Announce, Listen, AnnouncementExpires, server, worker

\* What a waiting caller, its key and its worker hold is inductive beside the
\* places of the task and the types.
THEOREM QueueUntouchedInductive == TQSpec => [](TInv /\ RInv /\ DInv)
  <1>1. TQInit => DInv
    BY QueueInitUntouched
  <1>2. TInv /\ RInv /\ DInv /\ [TQNext]_tvars => DInv'
    <2> SUFFICES ASSUME TInv, RInv, DInv, [TQNext]_tvars PROVE DInv'
      OBVIOUS
    <2>1. CASE UNCHANGED tvars
      <3> SUFFICES ASSUME NEW u \in Task
                   PROVE  Resultless(u)' /\ Untouched(u)' /\ OutcomeSeen(u)'
        BY DEF DInv
      <3> QED
        BY <2>1, UntouchedStays DEF tvars
    <2>2. CASE TQNext
      BY <2>2, CallerUntouched, WorkerUntouched DEF TQNext
    <2> QED
      BY <2>1, <2>2
  <1> QED
    BY <1>1, <1>2, QueueRunsInductive, PTL DEF TQSpec

\* once=True removes a result key only after an outcome was in it: state a worker
\* still needs goes only when the key expires.
THEOREM PendingSurvives == TQSpec => PendingStateSurvives
  <1>1. ASSUME TInv, DInv, TQNext, NEW t \in Task, Pending(t), ~stored'[t].there
        PROVE  ResultExpires(t)
    <2>0. stored \in Stores /\ stored[t].there /\ ~Decided(t)
      BY <1>1, TypeParts DEF Pending, Decided
    <2>1. ASSUME NEW u \in Task, Query(u) \/ Call(u) PROVE FALSE
      <3>1. u = t
        BY <1>1, <2>0, <2>1, OthersStay
      <3>2. CASE DeleteResult(t)
        <4>1. query[t].pc = "delete" /\ ~Ran(t, "remote")
          BY <1>1, <3>2 DEF DeleteResult, DInv, OutcomeSeen
        <4>2. mine[t].error # Nil /\ stored[t].error = mine[t].error
          BY <1>1, <2>0, <3>2, <4>1 DEF DeleteResult, DInv, OutcomeSeen, Untouched, Waiting
        <4> QED
          BY <1>1, <4>2 DEF Pending
      <3>3. CASE ~DeleteResult(t)
        <4>1. stored' = stored \/ \E obj : SetTask(t, obj)
          BY <2>1, <3>1, <3>3
          DEF Query, Call, LocalReports, LocalEnds, Store, StoreFails, Push, Poll, TimesOut,
              Save, server
        <4> QED
          BY <1>1, <2>0, <4>1 DEF SetTask, Stores
      <3> QED
        BY <3>2, <3>3
    <2>2. ASSUME NEW u \in Task, ResultExpires(u) PROVE u = t
      BY <1>1, <2>0, <2>2 DEF ResultExpires, Stores
    <2>3. ASSUME \/ Work \/ AnnouncementExpires
                 \/ \E l \in Listener : Listen(l) \/ Crash(l)
          PROVE  FALSE
      <3>1. stored' = stored \/ \E u \in Task : \E obj : SetTask(u, obj)
        BY <2>3
        DEF Work, AnnouncementExpires, Listen, Crash, Pop, Fetch, PopFindsNothing, Announce,
            JobReports, JobEnds, Save, server
      <3> QED
        BY <1>1, <2>0, <3>1 DEF SetTask, Stores
    <2> QED
      BY <1>1, <2>1, <2>2, <2>3 DEF TQNext
  <1>2. TInv /\ DInv /\ [TQNext]_tvars =>
           [\A t \in Task : Pending(t) /\ ~stored[t].there' => ResultExpires(t)]_tvars
    BY <1>1
  <1> QED
    BY <1>2, QueueUntouchedInductive, PTL DEF TQSpec, PendingStateSurvives
=============================================================================
