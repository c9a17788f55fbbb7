---------------------------- MODULE ThreadLockProofs ----------------------------
(* ThreadLock, for any number of threads, timeouts and calls: its types    *)
(* whatever the threads do, and that it implements Lock for careful ones.  *)
EXTENDS ThreadLock, TLAPS

Entries == [there : BOOLEAN, value : Owner \cup {Nil}, left : Timeouts \cup Nat]
Threads == [pc : {"out", "check", "default", "write"}, call : Calls \cup {"look"},
            op : Comparisons \cup {"=="}, v : Owner \cup {Nil}, n : Timeouts \cup {-1}]

\* The steps of one thread.
Steps(t) == \/ Enter(t) \/ Check(t) \/ StoreDefault(t) \/ Write(t)
            \/ Update(t) \/ Unlock(t) \/ Look(t)

\* A thread is between `with self._lock` and the end of its call.
Inside(t) ==
    \/ thread[t].pc \in {"check", "write"}
    \/ thread[t].pc = "default" /\ thread[t].call # "look"

\* The arguments of a call under way are those of its kind.
ArgumentsFit ==
    \A t \in Owner : Inside(t) =>
        /\ thread[t].call \in Calls \cap Guarded /\ thread[t].v \in Owner
        /\ thread[t].call # "del" => thread[t].n \in Timeouts
        /\ thread[t].call \in {"lock", "rlock"} => thread[t].v = t
        /\ thread[t].call \in {"set", "del"} => thread[t].op \in Comparisons

TInv == THTypeOK /\ ArgumentsFit

\* What is stored in the dictionary.
LEMMA EntryTyped ==
    /\ NoData \in Entries /\ Default \in Entries
    /\ \A v \in Owner, n \in Timeouts : Data(v, n) \in Entries
  BY DEF NoData, Default, Data, Entries

\* A thread that moves keeps its arguments, and leaves the others alone.
LEMMA GotoTyped ==
    ASSUME thread \in [Owner -> Threads], NEW t \in Owner,
           NEW pc \in {"out", "check", "default", "write"}, Goto(t, pc)
    PROVE  /\ thread' \in [Owner -> Threads] /\ thread'[t].pc = pc
           /\ thread'[t].call = thread[t].call /\ thread'[t].op = thread[t].op
           /\ thread'[t].v = thread[t].v /\ thread'[t].n = thread[t].n
           /\ \A u \in Owner \ {t} : thread'[u] = thread[u]
  BY DEF Goto, Threads

\* A call that ends.
LEMMA LeaveTyped ==
    ASSUME thread \in [Owner -> Threads], NEW t \in Owner, Leave(t)
    PROVE  /\ thread' \in [Owner -> Threads] /\ thread'[t].pc = "out" /\ mutex' = Nil
           /\ \A u \in Owner \ {t} : thread'[u] = thread[u]
  <1>1. Resting \in Threads /\ Resting.pc = "out"
    BY DEF Resting, Threads
  <1> QED
    BY <1>1 DEF Leave

\* What a call returns.
LEMMA ReturnsTyped ==
    ASSUME result \in [Owner -> Spec!Results], NEW t \in Owner,
           NEW r \in {"none", "true", "false"}, Returns(t, r)
    PROVE  result' \in [Owner -> Spec!Results]
  BY DEF Returns, Spec!Results

\* A call that begins has the mutex and arguments of its kind.
LEMMA EnterTyped ==
    ASSUME thread \in [Owner -> Threads], NEW t \in Owner, Enter(t)
    PROVE  /\ thread' \in [Owner -> Threads] /\ mutex' = t /\ thread'[t].pc = "check"
           /\ thread'[t].call \in Calls \cap Guarded /\ thread'[t].v \in Owner
           /\ thread'[t].call # "del" => thread'[t].n \in Timeouts
           /\ thread'[t].call \in {"lock", "rlock"} => thread'[t].v = t
           /\ thread'[t].call \in {"set", "del"} => thread'[t].op \in Comparisons
           /\ \A u \in Owner \ {t} : thread'[u] = thread[u]
  <1>1. PICK c \in Calls \cap Guarded, op \in Comparisons, v \in Owner, n \in Timeouts :
           thread' = [thread EXCEPT ![t] = [pc |-> "check", call |-> c,
              op |-> IF c \in {"set", "del"} THEN op ELSE "==",
              v  |-> IF c = "set" THEN v ELSE t,
              n  |-> IF c = "del" THEN -1 ELSE n]]
    BY DEF Enter
  <1> DEFINE r == [pc |-> "check", call |-> c,
                   op |-> IF c \in {"set", "del"} THEN op ELSE "==",
                   v  |-> IF c = "set" THEN v ELSE t,
                   n  |-> IF c = "del" THEN -1 ELSE n]
  <1>2. /\ r \in Threads /\ r.pc = "check" /\ r.call \in Calls \cap Guarded /\ r.v \in Owner
        /\ r.call # "del" => r.n \in Timeouts
        /\ r.call \in {"lock", "rlock"} => r.v = t
        /\ r.call \in {"set", "del"} => r.op \in Comparisons
    BY DEF Threads
  <1>3. thread' = [thread EXCEPT ![t] = r]
    BY <1>1
  <1> HIDE DEF r
  <1> QED
    BY <1>2, <1>3 DEF Enter

\* A read of a missing key that begins.
LEMMA LookTyped ==
    ASSUME thread \in [Owner -> Threads], NEW t \in Owner, Look(t)
    PROVE  /\ thread' \in [Owner -> Threads]
           /\ thread'[t].pc = "default" /\ thread'[t].call = "look"
           /\ \A u \in Owner \ {t} : thread'[u] = thread[u]
  <1> DEFINE r == [Resting EXCEPT !.pc = "default"]
  <1>1. r \in Threads /\ r.pc = "default" /\ r.call = "look"
    BY DEF Resting, Threads
  <1>2. thread' = [thread EXCEPT ![t] = r]
    BY DEF Look
  <1> HIDE DEF r
  <1> QED
    BY <1>1, <1>2

\* The types are inductive beside the arguments.
LEMMA TypeStep == TInv /\ [THNext]_thvars => THTypeOK'
  <1> SUFFICES ASSUME THTypeOK, ArgumentsFit, [THNext]_thvars PROVE THTypeOK'
    BY DEF TInv
  <1>0. /\ entry \in Entries /\ mutex \in Owner \cup {Nil} /\ thread \in [Owner -> Threads]
        /\ result \in [Owner -> Spec!Results]
    BY DEF THTypeOK, Entries, Threads
  <1>1. ASSUME entry' \in Entries, mutex' \in Owner \cup {Nil}, thread' \in [Owner -> Threads],
               result' \in [Owner -> Spec!Results]
        PROVE  THTypeOK'
    BY <1>1 DEF THTypeOK, Entries, Threads, Spec!Results
  <1>2. ASSUME NEW t \in Owner, Enter(t) PROVE THTypeOK'
    <2>1. UNCHANGED <<entry, result>>
      BY <1>2 DEF Enter
    <2> QED
      BY <1>0, <1>1, <1>2, <2>1, EnterTyped
  <1>3. ASSUME NEW t \in Owner, Check(t) PROVE THTypeOK'
    <2>1. CASE UNCHANGED <<entry, mutex, result>> /\ (Goto(t, "default") \/ Goto(t, "write"))
      BY <1>0, <1>1, <2>1, GotoTyped
    <2>2. CASE UNCHANGED entry /\ Returns(t, "false") /\ Leave(t)
      BY <1>0, <1>1, <2>2, LeaveTyped, ReturnsTyped
    <2> QED
      BY <1>3, <2>1, <2>2 DEF Check
  <1>4. ASSUME NEW t \in Owner, StoreDefault(t) PROVE THTypeOK'
    <2>1. Goto(t, "out") \/ Goto(t, "write")
      BY <1>4 DEF StoreDefault
    <2>2. entry' = Default /\ UNCHANGED <<mutex, result>>
      BY <1>4 DEF StoreDefault
    <2> QED
      BY <1>0, <1>1, <2>1, <2>2, GotoTyped, EntryTyped
  <1>5. ASSUME NEW t \in Owner, Write(t) PROVE THTypeOK'
    <2>1. Returns(t, "true") /\ Leave(t)
      BY <1>5 DEF Write
    <2>2. entry' \in Entries
      BY <1>0, <1>5, EntryTyped DEF Write, ArgumentsFit, Inside
    <2> QED
      BY <1>0, <1>1, <2>1, <2>2, LeaveTyped, ReturnsTyped
  <1>6. ASSUME NEW t \in Owner, Update(t) \/ Unlock(t) PROVE THTypeOK'
    <2>1. entry' \in Entries /\ UNCHANGED <<mutex, thread>>
      BY <1>0, <1>6, EntryTyped DEF Update, Unlock
    <2>2. Returns(t, "none") \/ Returns(t, "true") \/ Returns(t, "false")
      BY <1>6 DEF Update, Unlock
    <2> QED
      BY <1>0, <1>1, <2>1, <2>2, ReturnsTyped
  <1>7. ASSUME NEW t \in Owner, Look(t) PROVE THTypeOK'
    <2>1. UNCHANGED <<entry, mutex, result>>
      BY <1>7 DEF Look
    <2> QED
      BY <1>0, <1>1, <1>7, <2>1, LookTyped
  <1>8. CASE Tick
    <2>1. entry' \in Entries
      <3>1. CASE entry.left = 1
        BY <1>8, <3>1, EntryTyped DEF Tick
      <3>2. CASE entry.left # 1
        <4>1. entry' = [entry EXCEPT !.left = @ - 1] /\ entry.left - 1 \in Nat
          BY <1>0, <1>8, <3>2, ThreadLockConstantsAreValid DEF Tick, Entries
        <4> QED
          BY <1>0, <4>1 DEF Entries
      <3> QED
        BY <3>1, <3>2
    <2> QED
      BY <1>0, <1>1, <1>8, <2>1 DEF Tick
  <1>9. CASE UNCHANGED thvars
    BY <1>0, <1>1, <1>9 DEF thvars
  <1> QED
    BY <1>2, <1>3, <1>4, <1>5, <1>6, <1>7, <1>8, <1>9 DEF THNext

\* A call keeps its arguments to its end.
LEMMA ArgumentsStep == TInv /\ [THNext]_thvars => ArgumentsFit'
  <1> SUFFICES ASSUME TInv, [THNext]_thvars PROVE ArgumentsFit'
    OBVIOUS
  <1>0. thread \in [Owner -> Threads] /\ ArgumentsFit
    BY DEF TInv, THTypeOK, Threads
  <1>1. ASSUME NEW t \in Owner, \A u \in Owner \ {t} : thread'[u] = thread[u],
               \/ ~Inside(t)'
               \/ /\ Inside(t) /\ thread'[t].call = thread[t].call
                  /\ thread'[t].op = thread[t].op /\ thread'[t].v = thread[t].v
                  /\ thread'[t].n = thread[t].n
        PROVE  ArgumentsFit'
    BY <1>0, <1>1 DEF ArgumentsFit, Inside
  <1>2. ASSUME NEW t \in Owner, Enter(t) PROVE ArgumentsFit'
    BY <1>0, <1>2, EnterTyped DEF ArgumentsFit, Inside
  <1>3. ASSUME NEW t \in Owner, Check(t) PROVE ArgumentsFit'
    <2>1. CASE Goto(t, "default") \/ Goto(t, "write")
      BY <1>0, <1>1, <1>3, <2>1, GotoTyped DEF Check, Inside
    <2>2. CASE Leave(t)
      BY <1>0, <1>1, <2>2, LeaveTyped DEF Inside
    <2> QED
      BY <1>3, <2>1, <2>2 DEF Check
  <1>4. ASSUME NEW t \in Owner, StoreDefault(t) PROVE ArgumentsFit'
    <2>1. CASE thread[t].call = "look"
      BY <1>0, <1>1, <1>4, <2>1, GotoTyped DEF StoreDefault, Inside
    <2>2. CASE thread[t].call # "look"
      BY <1>0, <1>1, <1>4, <2>2, GotoTyped DEF StoreDefault, Inside
    <2> QED
      BY <2>1, <2>2
  <1>5. ASSUME NEW t \in Owner, Write(t) PROVE ArgumentsFit'
    BY <1>0, <1>1, <1>5, LeaveTyped DEF Write, Inside
  <1>6. ASSUME NEW t \in Owner, Look(t) PROVE ArgumentsFit'
    BY <1>0, <1>1, <1>6, LookTyped DEF Inside
  <1>7. ASSUME UNCHANGED thread PROVE ArgumentsFit'
    BY <1>0, <1>7 DEF ArgumentsFit, Inside
  <1> QED
    BY <1>2, <1>3, <1>4, <1>5, <1>6, <1>7 DEF THNext, thvars, Update, Unlock, Tick

\* Threads, arguments and entries keep their form.
THEOREM ThreadLockTypes == THSpec => []TInv
  <1>1. THInit => TInv
    <2>1. Resting \in Threads /\ Resting.pc = "out"
      BY DEF Resting, Threads
    <2>2. [answer |-> "none", flip |-> FALSE] \in Spec!Results
      BY DEF Spec!Results
    <2>3. THInit => thread \in [Owner -> Threads] /\ result \in [Owner -> Spec!Results]
      BY <2>1, <2>2 DEF THInit
    <2>4. THInit => ArgumentsFit
      BY <2>1 DEF THInit, ArgumentsFit, Inside
    <2> QED
      BY <2>3, <2>4, EntryTyped DEF THInit, TInv, THTypeOK, Entries, Threads
  <1>2. TInv /\ [THNext]_thvars => TInv'
    BY TypeStep, ArgumentsStep DEF TInv
  <1> QED
    BY <1>1, <1>2, PTL DEF THSpec

\* Whatever threads race, careful or not, the dictionary, the mutex and the calls
\* under way keep their form.
THEOREM ThreadLockTypeCorrect == THSpec => []THTypeOK
  BY ThreadLockTypes, PTL DEF TInv

-----------------------------------------------------------------------------

Looking(t) == thread[t].pc = "default" /\ thread[t].call = "look"

\* What careful threads keep: one of them is inside; nobody is while a read stores
\* a default; a default is stored where nothing is, and the entry a call has
\* read still lets it write when it does.
SafeInv ==
    /\ \A t \in Owner : Inside(t) => mutex = t
    /\ \A t \in Owner : Looking(t) => \A u \in Owner \ {t} : thread[u].pc = "out"
    /\ \A t \in Owner : thread[t].pc = "default" => ~entry.there
    /\ \A t \in Owner : thread[t].pc = "write" => Passes(t)
    /\ entry.left # 0 => entry.there /\ entry.value \in Owner

\* The facts about a state the step proofs use.
LEMMA SafeParts ==
    ASSUME TInv, SafeInv
    PROVE  /\ entry \in Entries /\ mutex \in Owner \cup {Nil} /\ thread \in [Owner -> Threads]
           /\ result \in [Owner -> Spec!Results] /\ Nil \notin Owner
           /\ Live <=> entry.left # 0
           /\ Live => entry.there /\ entry.value \in Owner
           /\ \A t \in Owner : thread[t].pc \in {"out", "check", "default", "write"}
           /\ \A t \in Owner : thread[t].pc # "out" <=> Inside(t) \/ Looking(t)
           /\ \A t, u \in Owner : thread[t].pc # "out" /\ thread[u].pc # "out" => t = u
  <1>1. /\ entry \in Entries /\ mutex \in Owner \cup {Nil} /\ thread \in [Owner -> Threads]
        /\ result \in [Owner -> Spec!Results] /\ Nil \notin Owner
    BY ThreadLockConstantsAreValid DEF TInv, THTypeOK, Entries, Threads
  <1>2. \A t \in Owner : thread[t].pc \in {"out", "check", "default", "write"}
    BY <1>1 DEF Threads
  <1>3. \A t \in Owner : thread[t].pc # "out" <=> Inside(t) \/ Looking(t)
    BY <1>2 DEF Inside, Looking
  <1>4. \A t, u \in Owner : thread[t].pc # "out" /\ thread[u].pc # "out" => t = u
    BY <1>3 DEF SafeInv
  <1>5. /\ Live <=> entry.left # 0
        /\ Live => entry.there /\ entry.value \in Owner
    BY DEF SafeInv, Live
  <1> QED
    BY <1>1, <1>2, <1>3, <1>4, <1>5

\* One thread inside, and a mutex that is its own: what the rest of the invariant
\* needs of a step that moves a thread.
LEMMA MoveKeeps ==
    ASSUME TInv, SafeInv, NEW t \in Owner,
           \A u \in Owner \ {t} : thread'[u] = thread[u] /\ thread[u].pc = "out",
           Inside(t)' => mutex' = t,
           thread'[t].pc = "default" => ~entry'.there,
           thread'[t].pc = "write" => Passes(t)',
           entry'.left # 0 => entry'.there /\ entry'.value \in Owner
    PROVE  SafeInv'
  <1>1. \A u \in Owner \ {t} : ~Inside(u)' /\ ~Looking(u)' /\ thread'[u].pc = "out"
    BY DEF Inside, Looking
  <1> QED
    BY <1>1 DEF SafeInv

\* Every step of careful threads.
LEMMA SafeStep == Careful /\ TInv /\ SafeInv /\ [THNext]_thvars => SafeInv'
  <1> SUFFICES ASSUME Careful, TInv, SafeInv, [THNext]_thvars PROVE SafeInv'
    OBVIOUS
  <1>0. /\ entry \in Entries /\ mutex \in Owner \cup {Nil} /\ thread \in [Owner -> Threads]
        /\ Nil \notin Owner
        /\ Live <=> entry.left # 0
        /\ Live => entry.there /\ entry.value \in Owner
        /\ \A t \in Owner : thread[t].pc # "out" <=> Inside(t) \/ Looking(t)
        /\ \A t, u \in Owner : thread[t].pc # "out" /\ thread[u].pc # "out" => t = u
    BY SafeParts
  <1>1. ASSUME NEW t \in Owner, Enter(t) PROVE SafeInv'
    <2>1. mutex = Nil /\ NoLookUnder /\ UNCHANGED entry
      BY <1>1 DEF Enter
    <2>2. \A u \in Owner : thread[u].pc = "out"
      BY <1>0, <2>1 DEF SafeInv, NoLookUnder, Looking
    <2> QED
      BY <1>0, <1>1, <2>1, <2>2, EnterTyped, MoveKeeps DEF SafeInv
  <1>2. ASSUME NEW t \in Owner, Check(t) PROVE SafeInv'
    <2>1. thread[t].pc = "check" /\ UNCHANGED entry /\ Inside(t) /\ mutex = t
      BY <1>2 DEF Check, Inside, SafeInv
    <2>2. CASE ~entry.there /\ Goto(t, "default") /\ UNCHANGED mutex
      BY <1>0, <2>1, <2>2, GotoTyped, MoveKeeps DEF SafeInv
    <2>3. CASE entry.there /\ Passes(t) /\ Goto(t, "write") /\ UNCHANGED mutex
      <3>1. Passes(t)'
        BY <1>0, <2>1, <2>3, GotoTyped DEF Passes, Live
      <3> QED
        BY <1>0, <2>1, <2>3, <3>1, GotoTyped, MoveKeeps DEF SafeInv
    <2>4. CASE Leave(t)
      BY <1>0, <2>1, <2>4, LeaveTyped, MoveKeeps DEF SafeInv, Inside
    <2> QED
      BY <1>2, <2>2, <2>3, <2>4 DEF Check
  <1>3. ASSUME NEW t \in Owner, StoreDefault(t) PROVE SafeInv'
    <2>1. /\ thread[t].pc = "default" /\ UNCHANGED mutex /\ entry' = Default
          /\ thread[t].call # "look" => Inside(t) /\ mutex = t
      BY <1>3 DEF StoreDefault, Inside, SafeInv
    <2>2. entry'.there /\ entry'.left = 0 /\ Passes(t)'
      BY <2>1 DEF Default, Data, Passes, Live
    <2>3. CASE thread[t].call = "look"
      BY <1>0, <1>3, <2>1, <2>2, <2>3, GotoTyped, MoveKeeps DEF StoreDefault, Inside
    <2>4. CASE thread[t].call # "look"
      BY <1>0, <1>3, <2>1, <2>2, <2>4, GotoTyped, MoveKeeps DEF StoreDefault, Inside
    <2> QED
      BY <2>3, <2>4
  <1>4. ASSUME NEW t \in Owner, Write(t) PROVE SafeInv'
    <2>1. thread[t].pc = "write" /\ Leave(t) /\ Inside(t)
      BY <1>4 DEF Write, Inside
    <2>2. \/ entry' = NoData
          \/ entry' = Data(thread[t].v, thread[t].n) /\ thread[t].v \in Owner
      BY <1>4, <2>1 DEF Write, TInv, ArgumentsFit
    <2>3. entry'.left # 0 => entry'.there /\ entry'.value \in Owner
      BY <2>2 DEF NoData, Data
    <2> QED
      BY <1>0, <2>1, <2>3, LeaveTyped, MoveKeeps DEF Inside
  <1>5. ASSUME UNCHANGED <<mutex, thread>>, \A t \in Owner : thread[t].pc # "default",
               entry'.left # 0 => entry'.there /\ entry'.value \in Owner,
               Live' => Live, \A t \in Owner : thread[t].pc = "write" /\ Live' =>
                                   entry'.value = entry.value
        PROVE  SafeInv'
    <2>1. ASSUME NEW t \in Owner, thread[t].pc = "write" PROVE Passes(t)'
      BY <1>5, <2>1 DEF SafeInv, Passes
    <2> QED
      BY <1>5, <2>1 DEF SafeInv, Inside, Looking
  <1>6. ASSUME NEW t \in Owner, Update(t) \/ Unlock(t) PROVE SafeInv'
    <2>1. Live /\ entry.value = t /\ UNCHANGED <<mutex, thread>> /\ entry.there
      BY <1>6 DEF Update, Unlock, Owns, Live
    <2>2. \A u \in Owner : thread[u].pc # "default"
      BY <2>1 DEF SafeInv
    <2>3. (\E n \in Timeouts : entry' = Data(t, n)) \/ entry' = NoData
      BY <1>6 DEF Update, Unlock
    <2>4. entry'.left # 0 => entry'.there /\ entry'.value = t
      BY <2>3 DEF Data, NoData
    <2> QED
      BY <1>5, <2>1, <2>2, <2>4 DEF Live
  <1>7. ASSUME NEW t \in Owner, Look(t) PROVE SafeInv'
    <2>1. UNCHANGED <<entry, mutex>> /\ ~entry.there /\ \A u \in Owner : thread[u].pc = "out"
      BY <1>7 DEF Look
    <2> QED
      BY <1>0, <1>7, <2>1, LookTyped, MoveKeeps DEF Inside, SafeInv
  <1>8. CASE Tick
    <2>1. entry.left > 0 /\ UNCHANGED <<mutex, thread>> /\ Live /\ entry.there
      BY <1>0, <1>8 DEF Tick
    <2>2. \A u \in Owner : thread[u].pc # "default"
      BY <2>1 DEF SafeInv
    <2>3. entry'.left # 0 => entry'.there /\ entry'.value = entry.value
      BY <1>0, <1>8, <2>1 DEF Tick, Default, Data, Entries
    <2> QED
      BY <1>0, <1>5, <2>1, <2>2, <2>3 DEF Live
  <1>9. CASE UNCHANGED thvars
    BY <1>9 DEF thvars, SafeInv, Inside, Looking, Passes, Live
  <1> QED
    BY <1>1, <1>2, <1>3, <1>4, <1>6, <1>7, <1>8, <1>9 DEF THNext

\* Careful threads keep it.
THEOREM ThreadLockInductive ==
    ASSUME Careful
    PROVE  THSpec => [](TInv /\ SafeInv)
  <1>1. THInit => SafeInv
    BY DEF THInit, SafeInv, Inside, Looking, Resting, NoData
  <1> QED
    BY <1>1, ThreadLockTypes, SafeStep, PTL DEF THSpec

-----------------------------------------------------------------------------

\* What callers see of the dictionary: an expired entry is no entry.
Value == IF Live THEN entry.value ELSE Nil
Ttl   == IF Live THEN entry.left ELSE -2

\* What a write gives or takes.
LEMMA WritesSeen ==
    ASSUME Nil \notin Owner
    PROVE  /\ \A v \in Owner, n \in Timeouts : entry' = Data(v, n) => Spec!Give(v, n)
           /\ entry' = NoData \/ entry' = Default => Spec!Take
  <1>1. ASSUME NEW v \in Owner, NEW n \in Timeouts, entry' = Data(v, n)
        PROVE  Spec!Give(v, n)
    BY <1>1, ThreadLockConstantsAreValid DEF Data, Spec!Give, Live
  <1>2. ASSUME entry' = NoData \/ entry' = Default
        PROVE  Spec!Take
    BY <1>2 DEF NoData, Default, Data, Spec!Take, Live
  <1> QED
    BY <1>1, <1>2

\* Every step of a careful thread is a call of Lock, a tick of its clock, or
\* nothing a caller sees.
LEMMA StepRefines ==
    Careful /\ TInv /\ SafeInv /\ [THNext]_thvars => [Spec!LockNext]_(Spec!lvars)
  <1> SUFFICES ASSUME Careful, TInv, SafeInv, [THNext]_thvars
               PROVE  Spec!LockNext \/ UNCHANGED <<Value, Ttl, result>>
    BY DEF Spec!lvars, Value, Ttl
  <1>0. /\ entry \in Entries /\ thread \in [Owner -> Threads] /\ Nil \notin Owner
        /\ Live <=> entry.left # 0
        /\ Live => entry.there /\ entry.value \in Owner
    BY SafeParts
  <1>1. ASSUME UNCHANGED <<entry, result>> PROVE UNCHANGED <<Value, Ttl, result>>
    BY <1>1 DEF Value, Ttl, Live
  <1>2. ASSUME NEW t \in Owner, Write(t) PROVE Spec!LockNext
    <2>1. thread[t].pc = "write" /\ Returns(t, "true") /\ Passes(t) /\ Inside(t)
      BY <1>2 DEF Write, Inside, SafeInv
    <2>2. Spec!Returns(t, "true")
      BY <2>1 DEF Returns, Spec!Returns
    <2>3. PICK c \in Calls \cap Guarded, v \in Owner, n \in Timeouts \cup {-1},
               op \in Comparisons \cup {"=="} :
             /\ c = thread[t].call /\ v = thread[t].v /\ n = thread[t].n /\ op = thread[t].op
             /\ c # "del" => n \in Timeouts
             /\ c \in {"lock", "rlock"} => v = t
             /\ c \in {"set", "del"} => op \in Comparisons
      BY <1>0, <2>1 DEF TInv, ArgumentsFit, Threads
    <2>4. IF c = "del" THEN Spec!Take ELSE Spec!Give(v, n)
      BY <1>0, <1>2, <2>3, WritesSeen DEF Write
    <2>5. CASE c = "lock"
      BY <1>0, <2>1, <2>2, <2>3, <2>4, <2>5
      DEF Passes, Spec!LockNext, Spec!Call, Spec!TryLock
    <2>6. CASE c = "rlock"
      BY <1>0, <2>1, <2>2, <2>3, <2>4, <2>6
      DEF Passes, Spec!LockNext, Spec!Call, Spec!RLock
    <2>7. CASE c = "set"
      BY <1>0, <2>1, <2>2, <2>3, <2>4, <2>7
      DEF Passes, Spec!LockNext, Spec!Call, Spec!SetIf, Spec!Condition
    <2>8. CASE c = "del"
      BY <1>0, <2>1, <2>2, <2>3, <2>4, <2>8
      DEF Passes, Spec!LockNext, Spec!Call, Spec!DelIf, Spec!Condition
    <2> QED
      BY <2>3, <2>5, <2>6, <2>7, <2>8 DEF Guarded
  <1>3. ASSUME NEW t \in Owner, Check(t), ~UNCHANGED result PROVE Spec!LockNext
    <2>1. /\ thread[t].pc = "check" /\ Returns(t, "false") /\ ~Passes(t) /\ UNCHANGED entry
          /\ Inside(t)
      BY <1>3 DEF Check, Inside
    <2>2. Spec!Returns(t, "false") /\ Spec!Keep /\ Live
      BY <2>1 DEF Returns, Spec!Returns, Spec!Keep, Passes, Live
    <2>3. PICK c \in Calls \cap Guarded, v \in Owner, n \in Timeouts \cup {-1},
               op \in Comparisons \cup {"=="} :
             /\ c = thread[t].call /\ v = thread[t].v /\ n = thread[t].n /\ op = thread[t].op
             /\ c # "del" => n \in Timeouts
             /\ c \in {"lock", "rlock"} => v = t
             /\ c \in {"set", "del"} => op \in Comparisons
      BY <1>0, <2>1 DEF TInv, ArgumentsFit, Threads
    <2>4. CASE c = "lock"
      BY <1>0, <2>2, <2>3, <2>4 DEF Spec!LockNext, Spec!Call, Spec!TryLock
    <2>5. CASE c = "rlock"
      BY <1>0, <2>1, <2>2, <2>3, <2>5 DEF Passes, Spec!LockNext, Spec!Call, Spec!RLock
    <2>6. CASE c = "set"
      BY <1>0, <2>1, <2>2, <2>3, <2>6
      DEF Passes, Spec!LockNext, Spec!Call, Spec!SetIf, Spec!Condition
    <2>7. CASE c = "del"
      BY <1>0, <2>1, <2>2, <2>3, <2>7
      DEF Passes, Spec!LockNext, Spec!Call, Spec!DelIf, Spec!Condition
    <2> QED
      BY <2>3, <2>4, <2>5, <2>6, <2>7 DEF Guarded
  <1>4. ASSUME NEW t \in Owner, StoreDefault(t) PROVE UNCHANGED <<Value, Ttl, result>>
    <2>1. ~Live /\ entry' = Default /\ UNCHANGED result
      BY <1>4 DEF StoreDefault, SafeInv, Live
    <2> QED
      BY <2>1 DEF Value, Ttl, Live, Default, Data
  <1>5. ASSUME NEW t \in Owner, Update(t) PROVE Spec!LockNext
    <2>1. PICK n \in Timeouts : entry' = Data(t, n)
      BY <1>5 DEF Update
    <2>2. Spec!Give(t, n) /\ Spec!Returns(t, "none") /\ "update" \in Calls
      BY <1>0, <1>5, <2>1, WritesSeen DEF Update, Returns, Spec!Returns
    <2> QED
      BY <2>2 DEF Spec!LockNext, Spec!Call, Spec!Update
  <1>6. ASSUME NEW t \in Owner, Unlock(t) PROVE Spec!LockNext
    <2>1. Live /\ entry.there /\ entry.value = t
      BY <1>6 DEF Unlock, Owns, Live
    <2>2. Spec!Take /\ Spec!Returns(t, "true") /\ "unlock" \in Calls
      BY <1>0, <1>6, <2>1, WritesSeen DEF Unlock, Returns, Spec!Returns
    <2> QED
      BY <1>0, <2>1, <2>2 DEF Spec!LockNext, Spec!Call, Spec!Unlock
  <1>7. CASE Tick
    <2>1. Live /\ entry.left > 0 /\ UNCHANGED result
      BY <1>0, <1>7 DEF Tick
    <2>2. CASE entry.left = 1
      <3>1. Spec!Take
        BY <1>0, <1>7, <2>2, WritesSeen DEF Tick
      <3> QED
        BY <2>1, <2>2, <3>1 DEF Spec!LockNext, Spec!Tick
    <2>3. CASE entry.left # 1
      <3>1. /\ entry.left \in Nat /\ entry'.there /\ entry'.value = entry.value
            /\ entry'.left = entry.left - 1 /\ entry'.left # 0
        BY <1>0, <1>7, <2>1, <2>3, ThreadLockConstantsAreValid DEF Tick, Entries
      <3>2. Spec!Give(entry.value, entry.left - 1)
        BY <3>1 DEF Spec!Give, Live
      <3> QED
        BY <2>1, <2>3, <3>2 DEF Spec!LockNext, Spec!Tick
    <2> QED
      BY <2>2, <2>3
  <1>8. ASSUME NEW t \in Owner, Enter(t) \/ Look(t) PROVE UNCHANGED <<entry, result>>
    BY <1>8 DEF Enter, Look
  <1>9. ASSUME NEW t \in Owner, Check(t) PROVE UNCHANGED entry
    BY <1>9 DEF Check
  <1> QED
    BY <1>1, <1>2, <1>3, <1>4, <1>5, <1>6, <1>7, <1>8, <1>9 DEF THNext, thvars

\* However careful threads interleave, every call takes effect at once and returns
\* what it would return if it ran alone, of a lock whose rlock renews.
THEOREM ThreadLockRefinesLock ==
    ASSUME Careful
    PROVE  THSpec => RefinesLock
  <1>1. THInit => Spec!LockInit
    BY DEF THInit, NoData, Live, Spec!LockInit
  <1> QED
    BY <1>1, StepRefines, ThreadLockInductive, PTL DEF THSpec, RefinesLock, Spec!LockSpec
=============================================================================
