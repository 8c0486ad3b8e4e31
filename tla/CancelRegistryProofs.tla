----------------------- MODULE CancelRegistryProofs -----------------------
(* Theorems about CancelRegistry.                                           *)
EXTENDS CancelRegistry, TLAPS

-----------------------------------------------------------------------------
(* Types.                                                                   *)

\* An attempt's record together with what its next step takes out of it.
Sound(x) == /\ x \in Attempt
            /\ x.pc = "storeAgain" => x.pre
            /\ x.pc \in Finalizing => x.held \in Attempts
            /\ x.pc \in {"exec", "doneWrite"} => x.seen \in Record

SoundAtts == att \in [Attempts -> Attempt] /\ \A a \in Attempts : Sound(att[a])

SoundReqs == /\ req \in [Cancels -> Request]
             /\ \A c \in Cancels :
                   req[c].pc \in {"store", "apply"} => req[c].seen \in Record

TypeInv == TypeOK /\ ControlInv

LEMMA TypeInvParts == TypeInv <=> TypeOK /\ SoundAtts /\ SoundReqs
<1>1. TypeInv => TypeOK /\ SoundAtts /\ SoundReqs
  BY DEF TypeInv, TypeOK, ControlInv, SoundAtts, SoundReqs, Sound
<1>2. TypeOK /\ SoundAtts /\ SoundReqs => TypeInv
  BY DEF TypeInv, TypeOK, ControlInv, SoundAtts, SoundReqs, Sound
<1> QED BY <1>1, <1>2

\* One attempt moves on to a sound record.
LEMMA SoundNext ==
    ASSUME SoundAtts, NEW a \in Attempts, NEW x, Sound(x), Continue(a, x)
    PROVE  SoundAtts'
<1>1. x \in Attempt BY DEF Sound
<1>2. att' = [att EXCEPT ![a] = x] BY DEF Continue
<1>3. att' \in [Attempts -> Attempt] BY <1>1, <1>2 DEF SoundAtts
<1>4. ASSUME NEW b \in Attempts PROVE Sound(att'[b])
  <2>1. att'[b] = IF b = a THEN x ELSE att[b] BY <1>2 DEF SoundAtts
  <2>2. Sound(att[b]) BY DEF SoundAtts
  <2> QED BY <2>1, <2>2
<1> QED BY <1>3, <1>4 DEF SoundAtts, Sound

\* A step to a location where nothing is taken out of the record.
Plain == Steps \ (Finalizing \cup {"storeAgain", "doneWrite"})

LEMMA SoundPc ==
    ASSUME NEW x \in Attempt, NEW p \in Plain
    PROVE  Sound([x EXCEPT !.pc = p])
BY DEF Sound, Attempt, Plain, Finalizing

LEMMA SoundPlain ==
    ASSUME NEW x \in Attempt, x.pc \in Plain PROVE  Sound(x)
BY DEF Sound, Plain, Finalizing

LEMMA OutcomeType ==
    ASSUME NEW x \in Attempt, NEW o \in {"none", "completed", "stopped", "error"}
    PROVE  [x EXCEPT !.outcome = o] \in Attempt
BY DEF Attempt

LEMMA ErrorType ==
    ASSUME NEW x \in Attempt PROVE ErrorFrame(x) \in Attempt
BY DEF Attempt, ErrorFrame

LEMMA ErrorFields ==
    ASSUME NEW x \in Attempt
    PROVE  /\ ErrorFrame(x).persisted = x.persisted
           /\ ErrorFrame(x).outcome = "error"
BY DEF Attempt, ErrorFrame

LEMMA UnregisterType ==
    ASSUME TypeOK, SoundAtts, NEW a \in Attempts, NEW x \in Attempt, Unregister(a, x)
    PROVE  /\ SoundAtts'
           /\ localRuns' \in [Instances -> [Runs -> Attempts \cup {NoAttempt}]]
<1>1. "delete" \in Plain
  BY DEF Plain, Steps, Finalizing
<1>2. Sound([x EXCEPT !.pc = "delete"]) BY <1>1, SoundPc
<1>3. Continue(a, [x EXCEPT !.pc = "delete"]) BY DEF Unregister
<1>4. SoundAtts' BY <1>2, <1>3, SoundNext
<1>5. localRuns' \in [Instances -> [Runs -> Attempts \cup {NoAttempt}]]
  BY ConstantsAssumption DEF Unregister, TypeOK, ConstantsAssumption
<1> QED BY <1>4, <1>5

LEMMA StoreType ==
    ASSUME TypeOK, NEW r \in Runs, NEW rec \in Record \cup {NoRecord}, Store(r, rec)
    PROVE  /\ record' \in [Runs -> Record \cup {NoRecord}]
           /\ watching' \in SUBSET Attempts
BY DEF Store, TypeOK

LEMMA NewRecordType ==
    ASSUME NEW a \in Attempts, NEW flag \in BOOLEAN
    PROVE  NewRecord(a, flag) \in Record
BY ConstantsAssumption DEF ConstantsAssumption, NewRecord, Record, Phases

LEMMA PhaseType ==
    ASSUME NEW rec \in Record, NEW p \in Phases
    PROVE  [rec EXCEPT !.phase = p] \in Record
BY DEF Record

LEMMA FaultType ==
    ASSUME TypeOK, Fault PROVE faults' \in 0..MaxFaults
<1>1. MaxFaults \in Nat BY ConstantsAssumption DEF ConstantsAssumption
<1>2. faults \in 0..MaxFaults BY DEF TypeOK
<1>3. faults < MaxFaults /\ faults' = faults + 1 BY DEF Fault
<1> QED BY <1>1, <1>2, <1>3

LEMMA RegPhaseType ==
    ASSUME NEW b \in Attempts, NEW p \in Phases, reg \in [Attempts -> Registration]
    PROVE  [reg EXCEPT ![b].phase = p] \in [Attempts -> Registration]
BY DEF Registration

LEMMA RegFlagType ==
    ASSUME NEW b \in Attempts, NEW f \in BOOLEAN, reg \in [Attempts -> Registration]
    PROVE  [reg EXCEPT ![b].cancelled = f] \in [Attempts -> Registration]
BY DEF Registration

LEMMA LocalCancelType ==
    ASSUME TypeOK, SoundAtts, NEW i, NEW r, ApplyLocalCancel(i, r)
    PROVE  SoundAtts' /\ reg' \in [Attempts -> Registration]
<1> DEFINE b == localRuns[i][r]
<1>1. CASE ~(b \in Attempts /\ ~reg[b].cancelled)
  BY <1>1 DEF ApplyLocalCancel, SoundAtts, Sound, TypeOK
<1>2. CASE b \in Attempts /\ ~reg[b].cancelled
  <2>1. reg' = [reg EXCEPT ![b].cancelled = TRUE] BY <1>2 DEF ApplyLocalCancel
  <2>2. reg' \in [Attempts -> Registration] BY <2>1, <1>2, RegFlagType DEF TypeOK
  <2>3. att' = att \/ Continue(b, [att[b] EXCEPT !.interrupted = "cancel"])
    BY <1>2 DEF ApplyLocalCancel, Continue, SoundAtts
  <2>4. att' = att => SoundAtts' BY DEF SoundAtts, Sound
  <2>5. Sound(att[b]) BY <1>2 DEF SoundAtts
  <2>6. Sound([att[b] EXCEPT !.interrupted = "cancel"])
    BY <2>5 DEF Sound, Attempt
  <2> QED BY <2>2, <2>3, <2>4, <2>6, <1>2, SoundNext
<1> QED BY <1>1, <1>2

\* The variables beside att and req, as a step of an attempt leaves them.
Others ==
    /\ record \in [Runs -> Record \cup {NoRecord}]
    /\ tombstone \in [Runs -> Users \cup {NoUser}]
    /\ channel \in [Instances -> SUBSET Runs]
    /\ localRuns \in [Instances -> [Runs -> Attempts \cup {NoAttempt}]]
    /\ reg \in [Attempts -> Registration]
    /\ watching \in SUBSET Attempts
    /\ expiries \in 0..MaxExpiries
    /\ faults \in 0..MaxFaults
    /\ told \in [Attempts -> {"never", "before read", "after read",
                              "recorded", "too late"}]

LEMMA TypeInvOthers == TypeInv <=> Others /\ SoundAtts /\ SoundReqs
BY TypeInvParts DEF TypeOK, Others, SoundAtts, SoundReqs

LEMMA RequestsKept == ASSUME SoundReqs, req' = req PROVE SoundReqs'
BY DEF SoundReqs

LEMMA AttemptsKept == ASSUME SoundAtts, att' = att PROVE SoundAtts'
BY DEF SoundAtts, Sound

LEMMA RunOfType == ASSUME NEW a \in Attempts PROVE RunOf[a] \in Runs
BY ConstantsAssumption DEF ConstantsAssumption

LEMMA RegisterType ==
    ASSUME TypeInv, NEW a \in Attempts, Register(a) \/ RegisterFails(a)
    PROVE  Others' /\ SoundAtts' /\ req' = req
<1> USE TypeInvParts, TypeInvOthers
<1>0. att[a] \in Attempt /\ RunOf[a] \in Runs BY RunOfType DEF SoundAtts
<1>p. {"readTombstone", "dropTombstone", "storeRecord", "install", "generating",
       "ended"} \subseteq Plain
  BY DEF Plain, Steps, Registering, Finalizing
<1>1. CASE Start(a)
  <2>1. SoundAtts' BY <1>0, <1>p, <1>1, SoundPc, SoundNext DEF Start
  <2> QED BY <2>1, <1>1 DEF Start, Others
<1>2. CASE ReadTombstone(a)
  <2>0. PreCancelled(a) \in BOOLEAN BY DEF PreCancelled
  <2> DEFINE x == [att[a] EXCEPT !.pre = PreCancelled(a),
                  !.pc = IF PreCancelled(a) THEN "dropTombstone" ELSE "storeRecord"]
  <2>1. x \in Attempt BY <1>0, <1>p, <2>0 DEF Attempt, Plain
  <2>2. x.pc \in Plain BY <1>0, <1>p DEF Attempt
  <2>3. Continue(a, x) BY <1>2 DEF ReadTombstone
  <2>4. SoundAtts' BY <2>1, <2>2, <2>3, SoundPlain, SoundNext
  <2> QED BY <2>4, <1>2 DEF ReadTombstone, Others
<1>3. CASE DropTombstone(a)
  <2>1. SoundAtts' BY <1>0, <1>p, <1>3, SoundPc, SoundNext DEF DropTombstone
  <2>2. tombstone' \in [Runs -> Users \cup {NoUser}]
    BY <1>3 DEF DropTombstone, Others
  <2> QED BY <2>1, <2>2, <1>3 DEF DropTombstone, Others
<1>4. CASE StoreRecord(a)
  <2>1. SoundAtts' BY <1>0, <1>p, <1>4, SoundPc, SoundNext DEF StoreRecord
  <2>2. att[a].pre \in BOOLEAN BY <1>0 DEF Attempt
  <2>3. NewRecord(a, att[a].pre) \in Record BY <2>2, NewRecordType
  <2>4. Store(RunOf[a], NewRecord(a, att[a].pre)) BY <1>4 DEF StoreRecord
  <2>5. record' \in [Runs -> Record \cup {NoRecord}] /\ watching' \in SUBSET Attempts
    BY <1>0, <2>3, <2>4, StoreType
  <2> QED BY <2>1, <2>5, <1>4 DEF StoreRecord, Others
<1>5. CASE Install(a)
  <2>0. att[a].pre \in BOOLEAN BY <1>0 DEF Attempt
  <2> DEFINE x == [att[a] EXCEPT
                      !.pc = IF att[a].pre THEN "storeAgain" ELSE "generating"]
  <2>1. x \in Attempt /\ x.pre = att[a].pre
        /\ x.pc = IF att[a].pre THEN "storeAgain" ELSE "generating"
    BY <1>0, <1>p DEF Attempt, Plain, Steps, Registering
  <2>2. Continue(a, x) BY <1>5 DEF Install
  <2>s. Sound(x) BY <2>1 DEF Sound, Finalizing
  <2>3. SoundAtts' BY <2>s, <2>2, SoundNext
  <2>4. reg' \in [Attempts -> Registration]
    BY <1>5, <2>0, RegFlagType DEF Install, Others
  <2>5. localRuns' \in [Instances -> [Runs -> Attempts \cup {NoAttempt}]]
    BY <1>5, ConstantsAssumption DEF Install, Others, ConstantsAssumption
  <2> QED BY <2>3, <2>4, <2>5, <1>5 DEF Install, Others
<1>6. CASE StoreAgain(a)
  <2>1. SoundAtts' BY <1>0, <1>p, <1>6, SoundPc, SoundNext DEF StoreAgain
  <2>2. NewRecord(a, TRUE) \in Record BY NewRecordType
  <2>3. Store(RunOf[a], NewRecord(a, TRUE)) BY <1>6 DEF StoreAgain
  <2>4. record' \in [Runs -> Record \cup {NoRecord}] /\ watching' \in SUBSET Attempts
    BY <1>0, <2>2, <2>3, StoreType
  <2> QED BY <2>1, <2>4, <1>6 DEF StoreAgain, Others
<1>7. CASE RegisterFails(a)
  <2>1. ErrorFrame(att[a]) \in Attempt BY <1>0, ErrorType
  <2>2. Continue(a, [ErrorFrame(att[a]) EXCEPT !.pc = "ended"])
    BY <1>7 DEF RegisterFails
  <2>3. SoundAtts' BY <2>1, <2>2, <1>p, SoundPc, SoundNext
  <2>4. faults' \in 0..MaxFaults BY <1>7, FaultType DEF RegisterFails
  <2> QED BY <2>3, <2>4, <1>7 DEF RegisterFails, Others
<1> QED BY <1>1, <1>2, <1>3, <1>4, <1>5, <1>6, <1>7
     DEF Register, Start, ReadTombstone, DropTombstone, StoreRecord, Install,
         StoreAgain, RegisterFails

LEMMA FoundType ==
    ASSUME TypeOK, NEW a \in Attempts PROVE Found(a) \in Attempts \cup {NoAttempt}
<1>1. InstOf[a] \in Instances /\ RunOf[a] \in Runs
  BY ConstantsAssumption DEF ConstantsAssumption
<1>2. localRuns[InstOf[a]] \in [Runs -> Attempts \cup {NoAttempt}]
  BY <1>1 DEF TypeOK
<1> QED BY <1>1, <1>2 DEF Found

LEMMA PollType ==
    ASSUME TypeOK, NEW b \in Attempts, MayPoll(b)
    PROVE  /\ [reg EXCEPT ![b].polls = @ + 1] \in [Attempts -> Registration]
           /\ [reg EXCEPT ![b].polls = @ + 1, ![b].cancelled = TRUE]
                  \in [Attempts -> Registration]
<1>1. MaxPolls \in Nat BY ConstantsAssumption DEF ConstantsAssumption
<1>2. reg[b] \in Registration BY DEF TypeOK
<1>3. reg[b].polls \in 0..MaxPolls BY <1>2 DEF Registration
<1>4. reg[b].polls < MaxPolls BY DEF MayPoll
<1>5. reg[b].polls + 1 \in 0..MaxPolls BY <1>1, <1>3, <1>4
<1>6. [reg[b] EXCEPT !.polls = @ + 1] \in Registration
  BY <1>2, <1>5 DEF Registration
<1>7. [reg[b] EXCEPT !.polls = @ + 1, !.cancelled = TRUE] \in Registration
  BY <1>2, <1>5 DEF Registration
<1> QED BY <1>6, <1>7 DEF TypeOK

LEMMA ProducerType ==
    ASSUME TypeInv, NEW a \in Attempts,
           PollStops(a) \/ PollContinues(a) \/ ProducerFails(a)
    PROVE  Others' /\ SoundAtts' /\ req' = req
<1> USE TypeInvParts, TypeInvOthers
<1>0. att[a] \in Attempt BY DEF SoundAtts
<1>p. {"generating", "begin"} \subseteq Plain
  BY DEF Plain, Steps, Registering, Finalizing
<1>1. CASE PollStops(a)
  <2>1. [att[a] EXCEPT !.outcome = "stopped"] \in Attempt BY <1>0, OutcomeType
  <2>2. Unregister(a, [att[a] EXCEPT !.outcome = "stopped"])
    BY <1>1 DEF PollStops
  <2>3. SoundAtts' /\ localRuns' \in [Instances -> [Runs -> Attempts \cup {NoAttempt}]]
    BY <2>1, <2>2, UnregisterType
  <2>4. reg' \in [Attempts -> Registration]
    BY <1>1, PollType DEF PollStops, Others
  <2> QED BY <2>3, <2>4, <1>1 DEF PollStops, Others
<1>2. CASE PollContinues(a)
  <2>1. PICK next \in {"generating", "begin"} :
            Continue(a, [att[a] EXCEPT !.pc = next])
    BY <1>2 DEF PollContinues
  <2>2. SoundAtts' BY <2>1, <1>0, <1>p, SoundPc, SoundNext
  <2>c. \/ reg' = reg
        \/ /\ Found(a) \in Attempts /\ MayPoll(Found(a))
           /\ reg' = [reg EXCEPT ![Found(a)].polls = @ + 1]
    BY <1>2 DEF PollContinues
  <2>3. reg' \in [Attempts -> Registration]
    <3>1. reg \in [Attempts -> Registration] BY DEF Others
    <3>2. CASE reg' = reg BY <3>1, <3>2
    <3>3. CASE /\ Found(a) \in Attempts /\ MayPoll(Found(a))
               /\ reg' = [reg EXCEPT ![Found(a)].polls = @ + 1]
      BY <3>3, PollType
    <3> QED BY <2>c, <3>2, <3>3
  <2>4. faults' = faults \/ Fault BY <1>2 DEF PollContinues
  <2>5. faults' \in 0..MaxFaults BY <2>4, FaultType DEF Others
  <2> QED BY <2>2, <2>3, <2>5, <1>2 DEF PollContinues, Others
<1>3. CASE ProducerFails(a)
  <2>1. ErrorFrame(att[a]) \in Attempt BY <1>0, ErrorType
  <2>2. Unregister(a, ErrorFrame(att[a])) BY <1>3 DEF ProducerFails
  <2>3. SoundAtts' /\ localRuns' \in [Instances -> [Runs -> Attempts \cup {NoAttempt}]]
    BY <2>1, <2>2, UnregisterType
  <2>4. faults' \in 0..MaxFaults BY <1>3, FaultType DEF ProducerFails
  <2> QED BY <2>3, <2>4, <1>3 DEF ProducerFails, Others
<1> QED BY <1>1, <1>2, <1>3

\* begin_finalize gives up: the registration it holds generates again.
LEMMA RefusedType ==
    ASSUME TypeOK, SoundAtts, NEW a \in Attempts, NEW flag \in BOOLEAN,
           att[a].pc \in Finalizing, FinalizeRefused(a, flag)
    PROVE  /\ SoundAtts'
           /\ localRuns' \in [Instances -> [Runs -> Attempts \cup {NoAttempt}]]
           /\ reg' \in [Attempts -> Registration]
<1> DEFINE h == att[a].held
<1>1. h \in Attempts /\ att[a] \in Attempt BY DEF SoundAtts, Sound
<1>2. [att[a] EXCEPT !.outcome = "stopped", !.terminal = "open"] \in Attempt
  BY <1>1 DEF Attempt
<1>3. Unregister(a, [att[a] EXCEPT !.outcome = "stopped", !.terminal = "open"])
  BY DEF FinalizeRefused
<1>4. reg' = [reg EXCEPT ![h].phase = "generating", ![h].cancelled = @ \/ flag]
  BY DEF FinalizeRefused
<1>5. reg[h] \in Registration BY <1>1 DEF TypeOK
<1>6. [reg[h] EXCEPT !.phase = "generating", !.cancelled = @ \/ flag] \in Registration
  BY <1>5 DEF Registration, Phases
<1>7. reg' \in [Attempts -> Registration]
  BY <1>1, <1>4, <1>6 DEF TypeOK
<1> QED BY <1>2, <1>3, <1>7, UnregisterType

LEMMA FinalizeType ==
    ASSUME TypeInv, NEW a \in Attempts,
           BeginFinalize(a) \/ WatchRecord(a) \/ ExecSucceeds(a) \/ ExecAborts(a)
             \/ FinalizeFails(a)
    PROVE  Others' /\ SoundAtts' /\ req' = req
<1> USE TypeInvParts, TypeInvOthers
<1>0. att[a] \in Attempt /\ RunOf[a] \in Runs /\ Sound(att[a])
  BY RunOfType DEF SoundAtts
<1>n. FinalizeTries \in Nat \ {0} /\ "persist" \in Plain
  BY ConstantsAssumption DEF ConstantsAssumption, Plain, Steps, Committing, Finalizing
<1>1. CASE BeginFinalize(a)
  <2> DEFINE b == Found(a)
             refused == b = NoAttempt \/ (b \in Attempts /\ reg[b].cancelled)
  <2>1. CASE refused
    <3>1. Unregister(a, [att[a] EXCEPT !.outcome = "stopped"]) /\ reg' = reg
      BY <1>1, <2>1 DEF BeginFinalize
    <3>2. SoundAtts' /\ localRuns' \in [Instances -> [Runs -> Attempts \cup {NoAttempt}]]
      BY <1>0, <3>1, OutcomeType, UnregisterType
    <3> QED BY <3>1, <3>2, <1>1 DEF BeginFinalize, Others
  <2>2. CASE ~refused
    <3>1. b \in Attempts BY <2>2, FoundType
    <3> DEFINE x == [att[a] EXCEPT !.pc = "watch", !.held = b, !.terminal = "finalizing"]
    <3>2. Continue(a, x) /\ localRuns' = localRuns
          /\ reg' = [reg EXCEPT ![b].phase = "finalizing"]
      BY <1>1, <2>2 DEF BeginFinalize
    <3>3. reg' \in [Attempts -> Registration]
      BY <3>1, <3>2, RegPhaseType DEF Others, Phases
    <3>4. att[a].pc = "begin" BY <1>1 DEF BeginFinalize, At
    <3>5. x \in Attempt
      BY <1>0, <3>1 DEF Attempt, Steps, Finalizing
    <3>7. x.pc = "watch" /\ x.held = b BY <1>0 DEF Attempt
    <3>8. Sound(x) BY <3>1, <3>5, <3>7 DEF Sound
    <3>9. SoundAtts' BY <3>2, <3>8, SoundNext
    <3> QED BY <3>2, <3>3, <3>9, <1>1 DEF BeginFinalize, Others
  <2> QED BY <2>1, <2>2
<1>2. CASE WatchRecord(a)
  <2> DEFINE rec == record[RunOf[a]]
             gone == rec = NoRecord
  <2>0. att[a].pc = "watch" BY <1>2 DEF WatchRecord, At
  <2>1. CASE gone \/ (~gone /\ rec.cancelled)
    <3>1. FinalizeRefused(a, ~gone) /\ watching' = watching
      BY <1>2, <2>1 DEF WatchRecord
    <3>2. SoundAtts' /\ localRuns' \in [Instances -> [Runs -> Attempts \cup {NoAttempt}]]
          /\ reg' \in [Attempts -> Registration]
      BY <3>1, <2>0, RefusedType DEF Finalizing
    <3> QED BY <3>1, <3>2, <1>2 DEF WatchRecord, Others
  <2>2. CASE ~(gone \/ (~gone /\ rec.cancelled))
    <3> DEFINE x == [att[a] EXCEPT !.pc = "exec", !.seen = rec]
    <3>1. Continue(a, x) /\ watching' = watching \cup {a}
          /\ localRuns' = localRuns /\ reg' = reg
      BY <1>2, <2>2 DEF WatchRecord
    <3>2. rec \in Record BY <1>0, <2>2 DEF Others
    <3>3. att[a].held \in Attempts
      BY <1>0, <2>0 DEF Sound, Finalizing
    <3>4. x \in Attempt BY <1>0, <3>2 DEF Attempt, Steps, Finalizing
    <3>5. x.held = att[a].held /\ x.seen = rec
      BY <1>0 DEF Attempt
    <3>6. Sound(x) BY <3>2, <3>3, <3>4, <3>5 DEF Sound
    <3>7. SoundAtts' BY <3>1, <3>6, SoundNext
    <3> QED BY <3>1, <3>7, <1>2 DEF WatchRecord, Others
  <2> QED BY <2>1, <2>2
<1>3. CASE ExecSucceeds(a)
  <2>0. att[a].seen \in Record
    BY <1>0, <1>3 DEF ExecSucceeds, At, Sound
  <2>1. [att[a].seen EXCEPT !.phase = "finalizing"] \in Record
    BY <2>0, PhaseType DEF Phases
  <2>2. Store(RunOf[a], [att[a].seen EXCEPT !.phase = "finalizing"])
    BY <1>3 DEF ExecSucceeds
  <2>3. record' \in [Runs -> Record \cup {NoRecord}] /\ watching' \in SUBSET Attempts
    BY <1>0, <2>1, <2>2, StoreType
  <2>4. SoundAtts' BY <1>0, <1>n, <1>3, SoundPc, SoundNext DEF ExecSucceeds
  <2> QED BY <2>3, <2>4, <1>3 DEF ExecSucceeds, Others
<1>4. CASE ExecAborts(a)
  <2>0. att[a].pc = "exec" BY <1>4 DEF ExecAborts, At
  <2>1. CASE att[a].tries + 1 = FinalizeTries
    <3>1. FinalizeRefused(a, FALSE) BY <1>4, <2>1 DEF ExecAborts
    <3>2. SoundAtts' /\ localRuns' \in [Instances -> [Runs -> Attempts \cup {NoAttempt}]]
          /\ reg' \in [Attempts -> Registration]
      BY <3>1, <2>0, RefusedType DEF Finalizing
    <3> QED BY <3>2, <1>4 DEF ExecAborts, Others
  <2>2. CASE att[a].tries + 1 # FinalizeTries
    <3> DEFINE x == [att[a] EXCEPT !.pc = "watch", !.tries = @ + 1]
    <3>1. Continue(a, x) /\ localRuns' = localRuns /\ reg' = reg
      BY <1>4, <2>2 DEF ExecAborts
    <3>2. att[a].held \in Attempts
      BY <1>0, <2>0 DEF Sound, Finalizing
    <3>3. att[a].tries \in 0..(FinalizeTries - 1) BY <1>0 DEF Attempt
    <3>4. att[a].tries + 1 \in 0..(FinalizeTries - 1) BY <3>3, <2>2, <1>n
    <3>5. x \in Attempt BY <1>0, <3>4 DEF Attempt, Steps, Finalizing
    <3>6. x.held = att[a].held /\ x.pc = "watch"
      BY <1>0 DEF Attempt
    <3>7. Sound(x) BY <3>2, <3>5, <3>6 DEF Sound
    <3>8. SoundAtts' BY <3>1, <3>7, SoundNext
    <3> QED BY <3>1, <3>8, <1>4 DEF ExecAborts, Others
  <2> QED BY <2>1, <2>2
<1>5. CASE FinalizeFails(a)
  <2>1. ErrorFrame(att[a]) \in Attempt BY <1>0, ErrorType
  <2>2. Unregister(a, ErrorFrame(att[a])) BY <1>5 DEF FinalizeFails
  <2>3. SoundAtts' /\ localRuns' \in [Instances -> [Runs -> Attempts \cup {NoAttempt}]]
    BY <2>1, <2>2, UnregisterType
  <2>4. faults' \in 0..MaxFaults BY <1>5, FaultType DEF FinalizeFails
  <2>5. watching' \in SUBSET Attempts BY <1>5 DEF FinalizeFails, Others
  <2> QED BY <2>3, <2>4, <2>5, <1>5 DEF FinalizeFails, Others
<1> QED BY <1>1, <1>2, <1>3, <1>4, <1>5

LEMMA CommitType ==
    ASSUME TypeInv, NEW a \in Attempts,
           Persist(a) \/ PersistFails(a) \/ EmitDone(a) \/ TokenFails(a)
             \/ ReadForDone(a) \/ WriteDone(a) \/ MarkDoneFails(a) \/ DeleteRecord(a)
    PROVE  Others' /\ SoundAtts' /\ req' = req
<1> USE TypeInvParts, TypeInvOthers
<1>0. att[a] \in Attempt /\ RunOf[a] \in Runs /\ Sound(att[a])
  BY RunOfType DEF SoundAtts
<1>p. {"emit", "doneRead", "ended"} \subseteq Plain /\ "doneWrite" \in Steps
  BY DEF Plain, Steps, Committing, Finalizing
<1>c. [att[a] EXCEPT !.outcome = "completed"] \in Attempt BY <1>0, OutcomeType
<1>e. ErrorFrame(att[a]) \in Attempt BY <1>0, ErrorType
<1>1. CASE Persist(a)
  <2> DEFINE x == [att[a] EXCEPT !.pc = "emit", !.persisted = TRUE]
  <2>1. x \in Attempt BY <1>0, <1>p DEF Attempt, Plain
  <2>2. x.pc \in Plain BY <1>0, <1>p DEF Attempt
  <2>3. Continue(a, x) BY <1>1 DEF Persist
  <2>4. SoundAtts' BY <2>1, <2>2, <2>3, SoundPlain, SoundNext
  <2> QED BY <2>4, <1>1 DEF Persist, Others
<1>2. CASE PersistFails(a)
  <2> DEFINE y == [att[a] EXCEPT !.terminal = "open"]
  <2>1. y \in Attempt BY <1>0 DEF Attempt
  <2>2. ErrorFrame(y) \in Attempt BY <2>1, ErrorType
  <2>3. Unregister(a, ErrorFrame(y)) BY <1>2 DEF PersistFails
  <2>4. SoundAtts' /\ localRuns' \in [Instances -> [Runs -> Attempts \cup {NoAttempt}]]
    BY <2>2, <2>3, UnregisterType
  <2>5. faults' \in 0..MaxFaults BY <1>2, FaultType DEF PersistFails
  <2> QED BY <2>4, <2>5, <1>2 DEF PersistFails, Others
<1>3. CASE EmitDone(a)
  <2> DEFINE x == [att[a] EXCEPT !.pc = "doneRead", !.terminal = "done"]
             b == Found(a)
  <2>1. x \in Attempt BY <1>0, <1>p DEF Attempt, Plain
  <2>2. x.pc \in Plain BY <1>0, <1>p DEF Attempt
  <2>3. Continue(a, x) BY <1>3 DEF EmitDone
  <2>4. SoundAtts' BY <2>1, <2>2, <2>3, SoundPlain, SoundNext
  <2>5. reg' = reg \/ (b \in Attempts /\ reg' = [reg EXCEPT ![b].phase = "done"])
    BY <1>3 DEF EmitDone
  <2>6. reg' \in [Attempts -> Registration]
    BY <2>5, RegPhaseType DEF Others, Phases
  <2> QED BY <2>4, <2>6, <1>3 DEF EmitDone, Others
<1>4. CASE TokenFails(a)
  <2>1. Unregister(a, ErrorFrame(att[a])) BY <1>4 DEF TokenFails
  <2>2. SoundAtts' /\ localRuns' \in [Instances -> [Runs -> Attempts \cup {NoAttempt}]]
    BY <1>e, <2>1, UnregisterType
  <2>3. faults' \in 0..MaxFaults BY <1>4, FaultType DEF TokenFails
  <2> QED BY <2>2, <2>3, <1>4 DEF TokenFails, Others
<1>5. CASE ReadForDone(a)
  <2> DEFINE rec == record[RunOf[a]]
  <2>1. CASE rec = NoRecord
    <3>1. Unregister(a, [att[a] EXCEPT !.outcome = "completed"])
      BY <1>5, <2>1 DEF ReadForDone
    <3>2. SoundAtts' /\ localRuns' \in [Instances -> [Runs -> Attempts \cup {NoAttempt}]]
      BY <1>c, <3>1, UnregisterType
    <3> QED BY <3>2, <1>5 DEF ReadForDone, Others
  <2>2. CASE rec # NoRecord
    <3> DEFINE x == [att[a] EXCEPT !.pc = "doneWrite", !.seen = rec]
    <3>1. Continue(a, x) /\ localRuns' = localRuns
      BY <1>5, <2>2 DEF ReadForDone
    <3>2. rec \in Record BY <1>0, <2>2 DEF Others
    <3>3. x \in Attempt BY <1>0, <1>p, <3>2 DEF Attempt
    <3>4. x.pc = "doneWrite" /\ x.seen = rec BY <1>0 DEF Attempt
    <3>5. Sound(x) BY <3>2, <3>3, <3>4 DEF Sound, Finalizing
    <3>6. SoundAtts' BY <3>1, <3>5, SoundNext
    <3> QED BY <3>1, <3>6, <1>5 DEF ReadForDone, Others
  <2> QED BY <2>1, <2>2
<1>6. CASE WriteDone(a)
  <2>0. att[a].seen \in Record BY <1>0, <1>6 DEF WriteDone, At, Sound
  <2>1. [att[a].seen EXCEPT !.phase = "done"] \in Record
    BY <2>0, PhaseType DEF Phases
  <2>2. Store(RunOf[a], [att[a].seen EXCEPT !.phase = "done"])
        /\ Unregister(a, [att[a] EXCEPT !.outcome = "completed"])
    BY <1>6 DEF WriteDone
  <2>3. record' \in [Runs -> Record \cup {NoRecord}] /\ watching' \in SUBSET Attempts
    BY <1>0, <2>1, <2>2, StoreType
  <2>4. SoundAtts' /\ localRuns' \in [Instances -> [Runs -> Attempts \cup {NoAttempt}]]
    BY <1>c, <2>2, UnregisterType
  <2> QED BY <2>3, <2>4, <1>6 DEF WriteDone, Others
<1>7. CASE MarkDoneFails(a)
  <2>1. Unregister(a, [att[a] EXCEPT !.outcome = "completed"])
    BY <1>7 DEF MarkDoneFails
  <2>2. SoundAtts' /\ localRuns' \in [Instances -> [Runs -> Attempts \cup {NoAttempt}]]
    BY <1>c, <2>1, UnregisterType
  <2>3. faults' \in 0..MaxFaults BY <1>7, FaultType DEF MarkDoneFails
  <2> QED BY <2>2, <2>3, <1>7 DEF MarkDoneFails, Others
<1>8. CASE DeleteRecord(a)
  <2>1. SoundAtts' BY <1>0, <1>p, <1>8, SoundPc, SoundNext DEF DeleteRecord
  <2>2. \/ Store(RunOf[a], NoRecord) /\ faults' = faults
        \/ Fault /\ record' = record /\ watching' = watching
    BY <1>8 DEF DeleteRecord
  <2>3. /\ record' \in [Runs -> Record \cup {NoRecord}]
        /\ watching' \in SUBSET Attempts
        /\ faults' \in 0..MaxFaults
    <3>1. CASE Store(RunOf[a], NoRecord) /\ faults' = faults
      BY <3>1, <1>0, StoreType DEF Others
    <3>2. CASE Fault /\ record' = record /\ watching' = watching
      BY <3>2, FaultType DEF Others
    <3> QED BY <2>2, <3>1, <3>2
  <2> QED BY <2>1, <2>3, <1>8 DEF DeleteRecord, Others
<1> QED BY <1>1, <1>2, <1>3, <1>4, <1>5, <1>6, <1>7, <1>8

LEMMA InterruptType ==
    ASSUME TypeInv, NEW a \in Attempts, Interrupted(a) \/ Disconnect(a)
    PROVE  Others' /\ SoundAtts' /\ req' = req
<1> USE TypeInvParts, TypeInvOthers
<1>0. att[a] \in Attempt /\ Sound(att[a]) BY DEF SoundAtts
<1>p. "ended" \in Plain BY DEF Plain, Steps, Finalizing
<1>1. CASE Interrupted(a)
  <2> DEFINE y == [att[a] EXCEPT !.interrupted = "no", !.outcome = "stopped",
                      !.terminal = IF att[a].pc = "persist" THEN "open" ELSE @]
  <2>1. y \in Attempt BY <1>0 DEF Attempt
  <2>2. watching' \in SUBSET Attempts BY <1>1 DEF Interrupted, Others
  <2>3. CASE att[a].pc \in Registering \cup {"delete"}
    <3>1. Continue(a, [y EXCEPT !.pc = "ended"]) /\ localRuns' = localRuns
      BY <1>1, <2>3 DEF Interrupted
    <3>2. SoundAtts' BY <2>1, <3>1, <1>p, SoundPc, SoundNext
    <3> QED BY <2>2, <3>1, <3>2, <1>1 DEF Interrupted, Others
  <2>4. CASE att[a].pc \notin Registering \cup {"delete"}
    <3>1. Unregister(a, y) BY <1>1, <2>4 DEF Interrupted
    <3>2. SoundAtts' /\ localRuns' \in [Instances -> [Runs -> Attempts \cup {NoAttempt}]]
      BY <2>1, <3>1, UnregisterType
    <3> QED BY <2>2, <3>2, <1>1 DEF Interrupted, Others
  <2> QED BY <2>3, <2>4
<1>2. CASE Disconnect(a)
  <2> DEFINE x == [att[a] EXCEPT !.interrupted = "disconnect"]
  <2>1. Continue(a, x) BY <1>2 DEF Disconnect
  <2>2. x \in Attempt BY <1>0 DEF Attempt
  <2>3. x.pc = att[a].pc /\ x.pre = att[a].pre /\ x.held = att[a].held /\ x.seen = att[a].seen
    BY <1>0 DEF Attempt
  <2>4. Sound(x) BY <1>0, <2>2, <2>3 DEF Sound
  <2>5. SoundAtts' BY <2>1, <2>4, SoundNext
  <2> QED BY <2>5, <1>2 DEF Disconnect, Others
<1> QED BY <1>1, <1>2

\* One request moves on; what it took from Redis stays sound.
LEMMA ReqNext ==
    ASSUME SoundReqs, NEW c \in Cancels, NEW y \in Request,
           req' = [req EXCEPT ![c] = y],
           y.pc \in {"store", "apply"} => y.seen \in Record
    PROVE  SoundReqs'
<1>1. req' \in [Cancels -> Request] BY DEF SoundReqs
<1>2. ASSUME NEW d \in Cancels, req'[d].pc \in {"store", "apply"}
      PROVE  req'[d].seen \in Record
  <2>1. CASE d = c
    <3>1. req'[d] = y BY <2>1 DEF SoundReqs
    <3> QED BY <3>1, <1>2
  <2>2. CASE d # c
    <3>1. req'[d] = req[d] BY <2>2 DEF SoundReqs
    <3> QED BY <3>1, <1>2 DEF SoundReqs
  <2> QED BY <2>1, <2>2
<1> QED BY <1>1, <1>2 DEF SoundReqs

LEMMA ReqPcNext ==
    ASSUME SoundReqs, NEW c \in Cancels, req' = [req EXCEPT ![c].pc = "tombstone"]
                                   \/ req' = [req EXCEPT ![c].pc = "read"]
    PROVE  SoundReqs'
<1>1. req[c] \in Request BY DEF SoundReqs
<1>2. PICK p \in {"tombstone", "read"} : req' = [req EXCEPT ![c] = [req[c] EXCEPT !.pc = p]]
  BY DEF SoundReqs
<1>3. [req[c] EXCEPT !.pc = p] \in Request BY <1>1 DEF Request
<1>4. [req[c] EXCEPT !.pc = p].pc = p BY <1>1 DEF Request
<1> QED BY <1>2, <1>3, <1>4, ReqNext

LEMMA AnswerType ==
    ASSUME SoundReqs, NEW c \in Cancels, NEW ans \in {"true", "false", "raised"},
           Answer(c, ans)
    PROVE  SoundReqs'
<1>1. req[c] \in Request BY DEF SoundReqs
<1> DEFINE y == [req[c] EXCEPT !.pc = "answered", !.answer = ans]
<1>2. req' = [req EXCEPT ![c] = y] BY DEF Answer, SoundReqs
<1>3. y \in Request BY <1>1 DEF Request
<1>4. y.pc = "answered" BY <1>1 DEF Request
<1> QED BY <1>2, <1>3, <1>4, ReqNext

LEMMA NoteType ==
    ASSUME TypeOK, NEW r, NEW flag \in BOOLEAN, NoteCancel(r, flag)
    PROVE  told' \in [Attempts -> {"never", "before read", "after read",
                                   "recorded", "too late"}]
BY DEF NoteCancel, TypeOK

LEMMA RequestType ==
    ASSUME TypeInv, NEW c \in Cancels,
           StartCancel(c) \/ CancelStep(c) \/ CancelFails(c)
    PROVE  Others' /\ SoundAtts' /\ SoundReqs'
<1> USE TypeInvParts, TypeInvOthers
<1> DEFINE q == req[c]
<1>0. q \in Request /\ q.run \in Runs /\ q.user \in Users /\ q.inst \in Instances
  BY DEF SoundReqs, Request
<1>1. CASE StartCancel(c)
  <2>1. SoundReqs' BY <1>1, ReqPcNext DEF StartCancel
  <2>2. SoundAtts' BY <1>1, AttemptsKept DEF StartCancel
  <2> QED BY <2>1, <2>2, <1>1 DEF StartCancel, Others
<1>2. CASE ReadForCancel(c)
  <2> DEFINE rec == record[q.run]
  <2>1. SoundReqs'
    <3>1. \/ req' = [req EXCEPT ![c].pc = "tombstone"]
          \/ Answer(c, "false")
          \/ Answer(c, "true")
          \/ rec # NoRecord /\ req' = [req EXCEPT ![c].pc = "store", ![c].seen = rec]
      BY <1>2 DEF ReadForCancel
    <3>2. CASE rec # NoRecord /\ req' = [req EXCEPT ![c].pc = "store", ![c].seen = rec]
      <4> DEFINE y == [q EXCEPT !.pc = "store", !.seen = rec]
      <4>1. rec \in Record BY <1>0, <3>2 DEF Others
      <4>2. req' = [req EXCEPT ![c] = y] BY <3>2 DEF SoundReqs
      <4>3. y \in Request BY <1>0, <4>1 DEF Request
      <4>4. y.seen = rec BY <1>0 DEF Request
      <4> QED BY <4>1, <4>2, <4>3, <4>4, ReqNext
    <3> QED BY <3>1, <3>2, ReqPcNext, AnswerType
  <2>2. ApplyLocalCancel(q.inst, q.run) \/ (reg' = reg /\ att' = att)
    BY <1>2 DEF ReadForCancel
  <2>3. SoundAtts' /\ reg' \in [Attempts -> Registration]
    BY <2>2, LocalCancelType, AttemptsKept DEF Others
  <2> QED BY <2>1, <2>3, <1>2 DEF ReadForCancel, Others
<1>3. CASE StoreTombstone(c)
  <2>1. SoundReqs' BY <1>3, AnswerType DEF StoreTombstone
  <2>2. SoundAtts' BY <1>3, AttemptsKept DEF StoreTombstone
  <2>3. NoteCancel(q.run, TRUE) \/ told' = told BY <1>3 DEF StoreTombstone
  <2>4. told' \in [Attempts -> {"never", "before read", "after read",
                                "recorded", "too late"}]
    BY <2>3, NoteType DEF Others
  <2>5. tombstone' \in [Runs -> Users \cup {NoUser}]
    BY <1>0, <1>3 DEF StoreTombstone, Others
  <2> QED BY <2>1, <2>2, <2>4, <2>5, <1>3 DEF StoreTombstone, Others
<1>4. CASE StoreCancelled(c)
  <2>0. q.pc = "store" BY <1>4 DEF StoreCancelled
  <2>1. q.seen \in Record BY <2>0 DEF SoundReqs
  <2>2. [q.seen EXCEPT !.cancelled = TRUE] \in Record BY <2>1 DEF Record
  <2>3. Store(q.run, [q.seen EXCEPT !.cancelled = TRUE]) BY <1>4 DEF StoreCancelled
  <2>4. record' \in [Runs -> Record \cup {NoRecord}] /\ watching' \in SUBSET Attempts
    BY <1>0, <2>2, <2>3, StoreType
  <2>5. SoundReqs'
    <3> DEFINE y == [q EXCEPT !.pc = "apply"]
    <3>1. req' = [req EXCEPT ![c] = y] BY <1>4 DEF StoreCancelled, SoundReqs
    <3>2. y \in Request BY <1>0 DEF Request
    <3>3. y.seen = q.seen BY <1>0 DEF Request
    <3> QED BY <2>1, <3>1, <3>2, <3>3, ReqNext
  <2>6. NoteCancel(q.run, FALSE) BY <1>4 DEF StoreCancelled
  <2>7. told' \in [Attempts -> {"never", "before read", "after read",
                                "recorded", "too late"}]
    BY <2>6, NoteType
  <2>8. SoundAtts' BY <1>4, AttemptsKept DEF StoreCancelled
  <2> QED BY <2>4, <2>5, <2>7, <2>8, <1>4 DEF StoreCancelled, Others
<1>5. CASE ApplyCancel(c)
  <2>1. SoundReqs' BY <1>5, AnswerType DEF ApplyCancel
  <2>2. ApplyLocalCancel(q.inst, q.run) \/ (reg' = reg /\ att' = att)
    BY <1>5 DEF ApplyCancel
  <2>3. SoundAtts' /\ reg' \in [Attempts -> Registration]
    BY <2>2, LocalCancelType, AttemptsKept DEF Others
  <2>4. channel' \in [Instances -> SUBSET Runs]
    BY <1>0, <1>5 DEF ApplyCancel, Others
  <2> QED BY <2>1, <2>3, <2>4, <1>5 DEF ApplyCancel, Others
<1>6. CASE CancelFails(c)
  <2>1. SoundReqs' BY <1>6, AnswerType DEF CancelFails
  <2>2. SoundAtts' BY <1>6, AttemptsKept DEF CancelFails
  <2>3. faults' \in 0..MaxFaults BY <1>6, FaultType DEF CancelFails
  <2> QED BY <2>1, <2>2, <2>3, <1>6 DEF CancelFails, Others
<1> QED BY <1>1, <1>2, <1>3, <1>4, <1>5, <1>6 DEF CancelStep

LEMMA RedisType ==
    ASSUME TypeInv,
           \/ \E i \in Instances : Deliver(i) \/ Lose(i)
           \/ \E r \in Runs : Expire(r)
    PROVE  Others' /\ SoundAtts' /\ req' = req
<1> USE TypeInvParts, TypeInvOthers
<1>1. ASSUME NEW i \in Instances, Deliver(i) PROVE Others' /\ SoundAtts' /\ req' = req
  <2>1. PICK r \in channel[i] : ApplyLocalCancel(i, r) /\ channel' = [channel EXCEPT ![i] = @ \ {r}]
    BY <1>1 DEF Deliver
  <2>2. SoundAtts' /\ reg' \in [Attempts -> Registration] BY <2>1, LocalCancelType
  <2>3. channel' \in [Instances -> SUBSET Runs] BY <2>1 DEF Others
  <2> QED BY <2>2, <2>3, <1>1 DEF Deliver, Others
<1>2. ASSUME NEW i \in Instances, Lose(i) PROVE Others' /\ SoundAtts' /\ req' = req
  <2>1. Fault /\ att' = att BY <1>2 DEF Lose
  <2>2. channel' \in [Instances -> SUBSET Runs] BY <1>2 DEF Lose, Others
  <2>3. faults' \in 0..MaxFaults BY <2>1, FaultType
  <2>4. SoundAtts' BY <2>1, AttemptsKept
  <2> QED BY <2>2, <2>3, <2>4, <1>2 DEF Lose, Others
<1>3. ASSUME NEW r \in Runs, Expire(r) PROVE Others' /\ SoundAtts' /\ req' = req
  <2>1. expiries' \in 0..MaxExpiries
    <3>1. MaxExpiries \in Nat BY ConstantsAssumption DEF ConstantsAssumption
    <3>2. expiries \in 0..MaxExpiries BY DEF Others
    <3>3. expiries < MaxExpiries /\ expiries' = expiries + 1 BY <1>3 DEF Expire
    <3> QED BY <3>1, <3>2, <3>3
  <2>2. SoundAtts' BY <1>3, AttemptsKept DEF Expire
  <2>3. \/ Store(r, NoRecord) /\ tombstone' = tombstone
        \/ /\ tombstone' = [tombstone EXCEPT ![r] = NoUser]
           /\ record' = record /\ watching' = watching
    BY <1>3 DEF Expire
  <2>4. CASE Store(r, NoRecord) /\ tombstone' = tombstone
    <3>1. record' \in [Runs -> Record \cup {NoRecord}] /\ watching' \in SUBSET Attempts
      BY <2>4, StoreType
    <3> QED BY <2>1, <2>2, <2>4, <3>1, <1>3 DEF Expire, Others
  <2>5. CASE /\ tombstone' = [tombstone EXCEPT ![r] = NoUser]
             /\ record' = record /\ watching' = watching
    <3>1. tombstone' \in [Runs -> Users \cup {NoUser}] BY <2>5 DEF Others
    <3> QED BY <2>1, <2>2, <2>5, <3>1, <1>3 DEF Expire, Others
  <2> QED BY <2>3, <2>4, <2>5
<1> QED BY <1>1, <1>2, <1>3

LEMMA TypeInvInit == Init => TypeInv
<1> SUFFICES ASSUME Init PROVE TypeInv OBVIOUS
<1>1. Others
  <2>1. FreshRegistration \in Registration
    <3>1. MaxPolls \in Nat BY ConstantsAssumption DEF ConstantsAssumption
    <3>2. 0 \in 0..MaxPolls BY <3>1
    <3> QED BY <3>2 DEF FreshRegistration, Registration, Phases
  <2>2. 0 \in 0..MaxExpiries /\ 0 \in 0..MaxFaults
    BY ConstantsAssumption DEF ConstantsAssumption
  <2> QED BY <2>1, <2>2 DEF Init, Others
<1>2. SoundAtts
  <2>1. 0 \in 0..(FinalizeTries - 1)
    BY ConstantsAssumption DEF ConstantsAssumption
  <2>2. IdleAttempt \in Attempt BY <2>1 DEF IdleAttempt, Attempt, Steps
  <2>3. IdleAttempt.pc \in Plain
    BY DEF IdleAttempt, Plain, Steps, Finalizing
  <2>4. Sound(IdleAttempt) BY <2>2, <2>3, SoundPlain
  <2> QED BY <2>2, <2>4 DEF Init, SoundAtts
<1>3. SoundReqs
  <2>1. req \in [Cancels -> Request] BY DEF Init
  <2>2. \A c \in Cancels : req[c].pc = "idle" BY DEF Init
  <2> QED BY <2>1, <2>2 DEF SoundReqs
<1> QED BY <1>1, <1>2, <1>3, TypeInvOthers

LEMMA TypeInvStep == TypeInv /\ [Next]_vars => TypeInv'
<1> SUFFICES ASSUME TypeInv, [Next]_vars PROVE Others' /\ SoundAtts' /\ SoundReqs'
  BY TypeInvOthers DEF TypeInv, TypeOK, ControlInv, Others, SoundAtts, SoundReqs, Sound
<1>0. SoundReqs BY TypeInvParts
<1>1. ASSUME NEW a \in Attempts,
             Register(a) \/ PollStops(a) \/ PollContinues(a) \/ Finish(a)
               \/ Fails(a) \/ Interrupted(a) \/ Disconnect(a)
      PROVE  Others' /\ SoundAtts' /\ SoundReqs'
  <2>1. Others' /\ SoundAtts' /\ req' = req
    BY <1>1, RegisterType, ProducerType, FinalizeType, CommitType, InterruptType
       DEF Finish, Fails
  <2> QED BY <2>1, <1>0, RequestsKept
<1>2. ASSUME NEW c \in Cancels, StartCancel(c) \/ CancelStep(c) \/ CancelFails(c)
      PROVE  Others' /\ SoundAtts' /\ SoundReqs'
  BY <1>2, RequestType
<1>3. ASSUME \/ \E i \in Instances : Deliver(i) \/ Lose(i)
             \/ \E r \in Runs : Expire(r)
      PROVE  Others' /\ SoundAtts' /\ SoundReqs'
  BY <1>3, <1>0, RedisType, RequestsKept
<1>4. CASE UNCHANGED vars
  BY <1>4, TypeInvOthers DEF vars, Others, SoundAtts, SoundReqs, Sound
<1> QED BY <1>1, <1>2, <1>3, <1>4 DEF Next

\* Type correctness: every record, registration and request keeps its shape,
\* and a step finds what it needs (begin_finalize its registration, mark_done
\* and cancel_run the record they read).
THEOREM TypeCorrect == Spec => []TypeOK
<1>1. TypeInv => TypeOK BY DEF TypeInv
<1> QED BY TypeInvInit, TypeInvStep, <1>1, PTL DEF Spec
-----------------------------------------------------------------------------
(* The owner's request behind every cancellation.                           *)

\* Requests only move forward, and keep their run and their user.
Grow == \A c \in Cancels :
    /\ req'[c].run = req[c].run /\ req'[c].user = req[c].user
    /\ req[c].pc \notin {"idle", "read"} => req'[c].pc \notin {"idle", "read"}

LEMMA AskedGrows == ASSUME Grow, NEW r, Asked(r) PROVE Asked(r)'
BY DEF Grow, Asked

LEMMA SoundRecordGrows ==
    ASSUME Grow, NEW r, NEW rec, SoundRecord(r, rec)
    PROVE  rec \in Record => rec.user = UserOf[r] /\ (rec.cancelled => Asked(r)')
BY AskedGrows DEF SoundRecord

LEMMA OwnedAttemptGrows ==
    ASSUME Grow, NEW a, NEW x, OwnedAttempt(a, x)
    PROVE  /\ x.pre => Asked(RunOf[a])'
           /\ x.interrupted = "cancel" => Asked(RunOf[a])'
           /\ x.held \in Attempts => RunOf[x.held] = RunOf[a]
           /\ x.seen \in Record =>
                 x.seen.user = UserOf[RunOf[a]] /\ (x.seen.cancelled => Asked(RunOf[a])')
<1>1. SoundRecord(RunOf[a], x.seen) BY DEF OwnedAttempt
<1>2. x.seen \in Record =>
         x.seen.user = UserOf[RunOf[a]] /\ (x.seen.cancelled => Asked(RunOf[a])')
  BY <1>1, SoundRecordGrows
<1>3. Asked(RunOf[a]) => Asked(RunOf[a])' BY AskedGrows
<1> QED BY <1>2, <1>3 DEF OwnedAttempt

\* What a step leaves alone it also leaves owned.
LEMMA OwnerFrame ==
    ASSUME OwnerInv, Grow,
           record' = record \/ OwnRecord',
           tombstone' = tombstone \/ OwnTombstone',
           channel' = channel \/ OwnChannel',
           localRuns' = localRuns \/ OwnLocal',
           reg' = reg \/ OwnReg',
           att' = att \/ OwnAtt',
           req' = req \/ OwnReq'
    PROVE  OwnerInv'
<1>1. ASSUME record' = record PROVE OwnRecord'
  <2>1. \A r \in Runs : SoundRecord(r, record[r]) BY DEF OwnerInv, OwnRecord
  <2>2. \A r \in Runs : record[r] \in Record =>
            record[r].user = UserOf[r] /\ (record[r].cancelled => Asked(r)')
    BY <2>1, SoundRecordGrows
  <2> QED BY <1>1, <2>2 DEF OwnRecord, SoundRecord
<1>2. ASSUME tombstone' = tombstone PROVE OwnTombstone'
  BY <1>2, AskedGrows DEF OwnerInv, OwnTombstone
<1>3. ASSUME channel' = channel PROVE OwnChannel'
  BY <1>3, AskedGrows DEF OwnerInv, OwnChannel
<1>4. ASSUME localRuns' = localRuns PROVE OwnLocal'
  BY <1>4 DEF OwnerInv, OwnLocal
<1>5. ASSUME reg' = reg PROVE OwnReg'
  BY <1>5, AskedGrows DEF OwnerInv, OwnReg
<1>6. ASSUME att' = att PROVE OwnAtt'
  <2>1. \A a \in Attempts : OwnedAttempt(a, att[a]) BY DEF OwnerInv, OwnAtt
  <2>2. ASSUME NEW a \in Attempts PROVE OwnedAttempt(a, att[a])'
    <3>1. OwnedAttempt(a, att[a]) BY <2>1
    <3> QED BY <3>1, <1>6, OwnedAttemptGrows DEF OwnedAttempt, SoundRecord
  <2> QED BY <2>2 DEF OwnAtt
<1>7. ASSUME req' = req PROVE OwnReq'
  BY <1>7 DEF OwnerInv, OwnReq, OwnedRequest
<1> QED BY <1>1, <1>2, <1>3, <1>4, <1>5, <1>6, <1>7 DEF OwnerInv

LEMMA StoreOwn ==
    ASSUME TypeOK, OwnerInv, Grow, NEW r \in Runs, NEW rec, Store(r, rec),
           rec \in Record => rec.user = UserOf[r] /\ (rec.cancelled => Asked(r)')
    PROVE  OwnRecord'
<1>1. \A s \in Runs : record[s] \in Record =>
          record[s].user = UserOf[s] /\ (record[s].cancelled => Asked(s)')
  BY SoundRecordGrows DEF OwnerInv, OwnRecord
<1>2. \A s \in Runs : record'[s] = IF s = r THEN rec ELSE record[s]
  BY DEF Store, TypeOK
<1> QED BY <1>1, <1>2 DEF OwnRecord, SoundRecord

LEMMA AttemptOwn ==
    ASSUME SoundAtts, OwnerInv, Grow, NEW a \in Attempts, NEW x, Continue(a, x),
           OwnedAttempt(a, x)
    PROVE  OwnAtt'
<1>1. ASSUME NEW b \in Attempts PROVE OwnedAttempt(b, att[b])'
  <2>1. att'[b] = IF b = a THEN x ELSE att[b] BY DEF Continue, SoundAtts
  <2>2. OwnedAttempt(b, att'[b])
    BY <2>1 DEF OwnerInv, OwnAtt
  <2> QED BY <2>2, OwnedAttemptGrows DEF OwnedAttempt, SoundRecord
<1> QED BY <1>1 DEF OwnAtt

\* What an attempt claims lies in four fields of its record.
LEMMA ClaimsOwn ==
    ASSUME NEW a, NEW x, NEW y, OwnedAttempt(a, y),
           x.pre = y.pre, x.held = y.held, x.seen = y.seen,
           x.interrupted = "cancel" => y.interrupted = "cancel"
    PROVE  OwnedAttempt(a, x)
BY DEF OwnedAttempt

LEMMA UnregisterOwn ==
    ASSUME TypeOK, SoundAtts, OwnerInv, Grow, NEW a \in Attempts,
           NEW x \in Attempt, Unregister(a, x),
           x.pre = att[a].pre, x.held = att[a].held, x.seen = att[a].seen,
           x.interrupted = "cancel" => att[a].interrupted = "cancel"
    PROVE  OwnAtt' /\ OwnLocal'
<1> DEFINE y == [x EXCEPT !.pc = "delete"]
<1>1. y.pre = x.pre /\ y.held = x.held /\ y.seen = x.seen
      /\ y.interrupted = x.interrupted
  BY DEF Attempt
<1>2. OwnedAttempt(a, att[a]) BY DEF OwnerInv, OwnAtt
<1>3. OwnedAttempt(a, y) BY <1>1, <1>2, ClaimsOwn
<1>4. Continue(a, y) BY DEF Unregister
<1>5. OwnAtt' BY <1>3, <1>4, AttemptOwn
<1>6. OwnLocal'
  <2>1. InstOf[a] \in Instances /\ RunOf[a] \in Runs /\ NoAttempt \notin Attempts
    BY ConstantsAssumption DEF ConstantsAssumption
  <2>2. \A i \in Instances, r \in Runs :
           localRuns'[i][r] = localRuns[i][r] \/ localRuns'[i][r] = NoAttempt
    BY <2>1 DEF Unregister, TypeOK
  <2> QED BY <2>1, <2>2 DEF OwnerInv, OwnLocal
<1> QED BY <1>5, <1>6

LEMMA LocalCancelOwn ==
    ASSUME TypeOK, SoundAtts, OwnerInv, Grow, NEW i \in Instances, NEW r \in Runs,
           ApplyLocalCancel(i, r), Asked(r)'
    PROVE  OwnReg' /\ OwnAtt'
<1> DEFINE b == localRuns[i][r]
<1>1. OwnReg'
  <2>1. b \in Attempts => RunOf[b] = r BY DEF OwnerInv, OwnLocal
  <2>2. ASSUME NEW a \in Attempts, reg'[a].cancelled PROVE Asked(RunOf[a])'
    <3>1. CASE a = b BY <2>1, <3>1
    <3>2. CASE a # b
      <4>1. reg'[a] = reg[a] BY <3>2 DEF ApplyLocalCancel, TypeOK
      <4> QED BY <4>1, <2>2, AskedGrows DEF OwnerInv, OwnReg
    <3> QED BY <3>1, <3>2
  <2> QED BY <2>2 DEF OwnReg
<1>2. ASSUME NEW a \in Attempts PROVE OwnedAttempt(a, att[a])'
  <2>1. OwnedAttempt(a, att[a]) /\ att[a] \in Attempt
    BY DEF OwnerInv, OwnAtt, SoundAtts
  <2>2. \/ att'[a] = att[a]
        \/ a = b /\ att'[a] = [att[a] EXCEPT !.interrupted = "cancel"]
    BY DEF ApplyLocalCancel, SoundAtts
  <2>3. a = b => RunOf[a] = r BY DEF OwnerInv, OwnLocal
  <2>4. /\ att'[a].pre = att[a].pre /\ att'[a].held = att[a].held
        /\ att'[a].seen = att[a].seen
        /\ att'[a].interrupted = "cancel" => att[a].interrupted = "cancel" \/ RunOf[a] = r
    BY <2>1, <2>2, <2>3 DEF Attempt
  <2>5. /\ att[a].pre => Asked(RunOf[a])'
        /\ att[a].interrupted = "cancel" => Asked(RunOf[a])'
        /\ att[a].held \in Attempts => RunOf[att[a].held] = RunOf[a]
        /\ att[a].seen \in Record =>
                 /\ att[a].seen.user = UserOf[RunOf[a]]
                 /\ att[a].seen.cancelled => Asked(RunOf[a])'
    BY <2>1, OwnedAttemptGrows
  <2> QED BY <2>4, <2>5 DEF OwnedAttempt, SoundRecord
<1> QED BY <1>1, <1>2 DEF OwnAtt

LEMMA GrowKept == ASSUME req' = req PROVE Grow
BY DEF Grow

LEMMA RegisterOwn ==
    ASSUME TypeInv, OwnerInv, NEW a \in Attempts, Register(a) \/ RegisterFails(a)
    PROVE  OwnerInv'
<1> USE TypeInvParts
<1>0. att[a] \in Attempt /\ RunOf[a] \in Runs /\ Sound(att[a])
      /\ OwnedAttempt(a, att[a])
  BY RunOfType DEF SoundAtts, OwnerInv, OwnAtt
<1>g. Grow BY RegisterType, GrowKept
<1>m. ASSUME NEW p, Continue(a, [att[a] EXCEPT !.pc = p]) PROVE OwnAtt'
  <2>1. OwnedAttempt(a, [att[a] EXCEPT !.pc = p]) BY <1>0, ClaimsOwn DEF Attempt
  <2> QED BY <2>1, <1>m, <1>g, AttemptOwn
<1>1. CASE Start(a)
  <2>1. OwnAtt' BY <1>1, <1>m DEF Start
  <2> QED BY <2>1, <1>g, <1>1, OwnerFrame DEF Start
<1>2. CASE ReadTombstone(a)
  <2> DEFINE x == [att[a] EXCEPT !.pre = PreCancelled(a),
                  !.pc = IF PreCancelled(a) THEN "dropTombstone" ELSE "storeRecord"]
  <2>1. /\ x.pre = PreCancelled(a) /\ x.interrupted = att[a].interrupted
        /\ x.held = att[a].held /\ x.seen = att[a].seen
    BY <1>0 DEF Attempt
  <2>2. PreCancelled(a) => Asked(RunOf[a])
    BY <1>0 DEF PreCancelled, OwnerInv, OwnTombstone
  <2>3. OwnedAttempt(a, x) BY <1>0, <2>1, <2>2 DEF OwnedAttempt
  <2>4. Continue(a, x) BY <1>2 DEF ReadTombstone
  <2>5. OwnAtt' BY <2>3, <2>4, <1>g, AttemptOwn
  <2> QED BY <2>5, <1>g, <1>2, OwnerFrame DEF ReadTombstone
<1>3. CASE DropTombstone(a)
  <2>1. OwnAtt' BY <1>3, <1>m DEF DropTombstone
  <2>2. OwnTombstone'
    <3>1. ASSUME NEW r \in Runs, tombstone'[r] = UserOf[r] PROVE tombstone[r] = UserOf[r]
      <4>1. UserOf[r] # NoUser
        BY ConstantsAssumption DEF ConstantsAssumption
      <4> QED BY <4>1, <3>1, <1>3, <1>0 DEF DropTombstone, TypeOK
    <3> QED BY <3>1, <1>g, AskedGrows DEF OwnerInv, OwnTombstone
  <2> QED BY <2>1, <2>2, <1>g, <1>3, OwnerFrame DEF DropTombstone
<1>4. CASE StoreRecord(a)
  <2>1. OwnAtt' BY <1>4, <1>m DEF StoreRecord
  <2> DEFINE rec == NewRecord(a, att[a].pre)
  <2>2. rec.user = UserOf[RunOf[a]] /\ rec.cancelled = att[a].pre BY DEF NewRecord
  <2>3. att[a].pre => Asked(RunOf[a])' BY <1>0, <1>g, AskedGrows DEF OwnedAttempt
  <2>4. Store(RunOf[a], rec) BY <1>4 DEF StoreRecord
  <2>5. OwnRecord' BY <1>0, <1>g, <2>2, <2>3, <2>4, StoreOwn
  <2> QED BY <2>1, <2>5, <1>g, <1>4, OwnerFrame DEF StoreRecord
<1>5. CASE Install(a)
  <2>1. OwnAtt' BY <1>5, <1>m DEF Install
  <2>2. OwnReg'
    <3>1. ASSUME NEW b \in Attempts, reg'[b].cancelled PROVE Asked(RunOf[b])
      <4>1. reg'[b].cancelled = IF b = a THEN att[a].pre ELSE reg[b].cancelled
        BY <1>5 DEF Install, TypeOK, Registration
      <4> QED BY <4>1, <3>1, <1>0 DEF OwnedAttempt, OwnerInv, OwnReg
    <3> QED BY <3>1, <1>g, AskedGrows DEF OwnReg
  <2>3. OwnLocal'
    <3>1. \A i \in Instances, r \in Runs :
             localRuns'[i][r] = localRuns[i][r] \/ (r = RunOf[a] /\ localRuns'[i][r] = a)
      BY <1>5 DEF Install, TypeOK
    <3> QED BY <3>1 DEF OwnerInv, OwnLocal
  <2> QED BY <2>1, <2>2, <2>3, <1>g, <1>5, OwnerFrame DEF Install
<1>6. CASE StoreAgain(a)
  <2>1. OwnAtt' BY <1>6, <1>m DEF StoreAgain
  <2> DEFINE rec == NewRecord(a, TRUE)
  <2>2. rec.user = UserOf[RunOf[a]] BY DEF NewRecord
  <2>3. att[a].pre BY <1>0, <1>6 DEF Sound, StoreAgain, At
  <2>4. Asked(RunOf[a])' BY <2>3, <1>0, <1>g, AskedGrows DEF OwnedAttempt
  <2>5. Store(RunOf[a], rec) BY <1>6 DEF StoreAgain
  <2>6. OwnRecord' BY <1>0, <1>g, <2>2, <2>4, <2>5, StoreOwn
  <2> QED BY <2>1, <2>6, <1>g, <1>6, OwnerFrame DEF StoreAgain
<1>7. CASE RegisterFails(a)
  <2> DEFINE x == [ErrorFrame(att[a]) EXCEPT !.pc = "ended"]
  <2>1. /\ x.pre = att[a].pre /\ x.interrupted = att[a].interrupted
        /\ x.held = att[a].held /\ x.seen = att[a].seen
    BY <1>0 DEF ErrorFrame, Attempt
  <2>2. OwnedAttempt(a, x) BY <2>1, <1>0, ClaimsOwn
  <2>3. Continue(a, x) BY <1>7 DEF RegisterFails
  <2>4. OwnAtt' BY <2>2, <2>3, <1>g, AttemptOwn
  <2> QED BY <2>4, <1>g, <1>7, OwnerFrame DEF RegisterFails
<1> QED BY <1>1, <1>2, <1>3, <1>4, <1>5, <1>6, <1>7
     DEF Register, Start, ReadTombstone, DropTombstone, StoreRecord, Install,
         StoreAgain, RegisterFails

\* An error frame, like an outcome, claims nothing new.
LEMMA ErrorClaims ==
    ASSUME NEW x \in Attempt
    PROVE  /\ ErrorFrame(x) \in Attempt
           /\ ErrorFrame(x).pre = x.pre /\ ErrorFrame(x).held = x.held
           /\ ErrorFrame(x).seen = x.seen
           /\ ErrorFrame(x).interrupted = x.interrupted
BY DEF ErrorFrame, Attempt

LEMMA OutcomeClaims ==
    ASSUME NEW x \in Attempt, NEW o \in {"completed", "stopped"}
    PROVE  LET y == [x EXCEPT !.outcome = o] IN
           /\ y \in Attempt /\ y.pre = x.pre /\ y.held = x.held
           /\ y.seen = x.seen /\ y.interrupted = x.interrupted
BY DEF Attempt

LEMMA PollsClaims ==
    ASSUME TypeOK, NEW b \in Attempts, NEW n, NEW d \in Attempts
    PROVE  [reg EXCEPT ![b].polls = n][d].cancelled = reg[d].cancelled
BY DEF TypeOK, Registration

LEMMA TriesClaims ==
    ASSUME NEW a, NEW y \in Attempt, OwnedAttempt(a, y), NEW p, NEW n
    PROVE  OwnedAttempt(a, [y EXCEPT !.pc = p, !.tries = n])
<1> DEFINE x == [y EXCEPT !.pc = p, !.tries = n]
<1>1. /\ x.pre = y.pre /\ x.held = y.held /\ x.seen = y.seen
      /\ x.interrupted = y.interrupted
  BY DEF Attempt
<1> HIDE DEF x
<1>2. OwnedAttempt(a, x) BY <1>1, ClaimsOwn
<1> QED BY <1>2 DEF x

LEMMA ProducerOwn ==
    ASSUME TypeInv, OwnerInv, NEW a \in Attempts,
           PollStops(a) \/ PollContinues(a) \/ ProducerFails(a)
    PROVE  OwnerInv'
<1> USE TypeInvParts
<1>0. att[a] \in Attempt /\ RunOf[a] \in Runs /\ OwnedAttempt(a, att[a])
  BY RunOfType DEF SoundAtts, OwnerInv, OwnAtt
<1>g. Grow BY ProducerType, GrowKept
<1>f. Found(a) \in Attempts => RunOf[Found(a)] = RunOf[a]
  BY ConstantsAssumption DEF ConstantsAssumption, Found, OwnerInv, OwnLocal
<1>1. CASE PollStops(a)
  <2>1. Unregister(a, [att[a] EXCEPT !.outcome = "stopped"]) BY <1>1 DEF PollStops
  <2>2. OwnAtt' /\ OwnLocal' BY <2>1, <1>0, <1>g, OutcomeClaims, UnregisterOwn
  <2> DEFINE b == Found(a)
  <2>3. \/ reg' = reg
        \/ /\ b \in Attempts /\ record[RunOf[a]] # NoRecord
           /\ record[RunOf[a]].cancelled
           /\ reg' = [reg EXCEPT ![b].polls = @ + 1, ![b].cancelled = TRUE]
    BY <1>1 DEF PollStops
  <2>4. ASSUME b \in Attempts, record[RunOf[a]] # NoRecord,
               record[RunOf[a]].cancelled,
               reg' = [reg EXCEPT ![b].polls = @ + 1, ![b].cancelled = TRUE]
        PROVE  OwnReg'
    <3>1. record[RunOf[a]] \in Record BY <1>0, <2>4 DEF TypeOK
    <3>2. Asked(RunOf[b])
      BY <3>1, <2>4, <1>0, <1>f DEF OwnerInv, OwnRecord, SoundRecord
    <3>3. \A d \in Attempts : d # b => reg'[d] = reg[d]
      BY <2>4 DEF TypeOK
    <3>4. ASSUME NEW d \in Attempts, reg'[d].cancelled PROVE Asked(RunOf[d])
      <4>1. CASE d = b BY <4>1, <3>2
      <4>2. CASE d # b BY <4>2, <3>3, <3>4 DEF OwnerInv, OwnReg
      <4> QED BY <4>1, <4>2
    <3> QED BY <3>4, <1>g, AskedGrows DEF OwnReg
  <2>5. reg' = reg \/ OwnReg' BY <2>3, <2>4
  <2> QED BY <2>2, <2>5, <1>g, <1>1, OwnerFrame DEF PollStops
<1>2. CASE PollContinues(a)
  <2>1. PICK next \in {"generating", "begin"} :
            Continue(a, [att[a] EXCEPT !.pc = next])
    BY <1>2 DEF PollContinues
  <2>2. OwnedAttempt(a, [att[a] EXCEPT !.pc = next])
    BY <1>0, ClaimsOwn DEF Attempt
  <2>3. OwnAtt' BY <2>1, <2>2, <1>g, AttemptOwn
  <2> DEFINE b == Found(a)
             n == reg[b].polls + 1
  <2>4. reg' = reg \/ (b \in Attempts /\ reg' = [reg EXCEPT ![b].polls = n])
    BY <1>2 DEF PollContinues
  <2> HIDE DEF b, n
  <2>5. ASSUME NEW d \in Attempts PROVE reg'[d].cancelled = reg[d].cancelled
    <3>1. b \in Attempts => [reg EXCEPT ![b].polls = n][d].cancelled = reg[d].cancelled
      BY PollsClaims
    <3> QED BY <3>1, <2>4
  <2>6. OwnReg' BY <2>5, <1>g, AskedGrows DEF OwnerInv, OwnReg
  <2> QED BY <2>3, <2>6, <1>g, <1>2, OwnerFrame DEF PollContinues
<1>3. CASE ProducerFails(a)
  <2>1. Unregister(a, ErrorFrame(att[a])) BY <1>3 DEF ProducerFails
  <2>2. OwnAtt' /\ OwnLocal' BY <2>1, <1>0, <1>g, ErrorClaims, UnregisterOwn
  <2> QED BY <2>2, <1>g, <1>3, OwnerFrame DEF ProducerFails
<1> QED BY <1>1, <1>2, <1>3

LEMMA RefusedOwn ==
    ASSUME TypeInv, OwnerInv, Grow, NEW a \in Attempts, NEW flag \in BOOLEAN,
           att[a].pc \in Finalizing, FinalizeRefused(a, flag),
           flag => Asked(RunOf[a])
    PROVE  OwnAtt' /\ OwnLocal' /\ OwnReg'
<1> USE TypeInvParts
<1> DEFINE h == att[a].held
           x == [att[a] EXCEPT !.outcome = "stopped", !.terminal = "open"]
<1>0. att[a] \in Attempt /\ h \in Attempts /\ RunOf[h] = RunOf[a]
  BY DEF SoundAtts, Sound, OwnerInv, OwnAtt, OwnedAttempt
<1>1. /\ x \in Attempt /\ x.pre = att[a].pre /\ x.held = att[a].held
      /\ x.seen = att[a].seen /\ x.interrupted = att[a].interrupted
  BY <1>0 DEF Attempt
<1>2. Unregister(a, x) BY DEF FinalizeRefused
<1>3. OwnAtt' /\ OwnLocal' BY <1>1, <1>2, UnregisterOwn
<1>4. reg' = [reg EXCEPT ![h].phase = "generating", ![h].cancelled = @ \/ flag]
  BY DEF FinalizeRefused
<1>5. ASSUME NEW d \in Attempts, reg'[d].cancelled PROVE Asked(RunOf[d])
  <2>1. reg'[d].cancelled = IF d = h THEN reg[d].cancelled \/ flag ELSE reg[d].cancelled
    BY <1>4, <1>0 DEF TypeOK, Registration
  <2> QED BY <2>1, <1>5, <1>0 DEF OwnerInv, OwnReg
<1> QED BY <1>3, <1>5, AskedGrows DEF OwnReg

LEMMA FinalizeOwn ==
    ASSUME TypeInv, OwnerInv, NEW a \in Attempts,
           BeginFinalize(a) \/ WatchRecord(a) \/ ExecSucceeds(a) \/ ExecAborts(a)
             \/ FinalizeFails(a)
    PROVE  OwnerInv'
<1> USE TypeInvParts
<1>0. att[a] \in Attempt /\ RunOf[a] \in Runs /\ Sound(att[a])
      /\ OwnedAttempt(a, att[a])
  BY RunOfType DEF SoundAtts, OwnerInv, OwnAtt
<1>g. Grow BY FinalizeType, GrowKept
<1>f. Found(a) \in Attempts => RunOf[Found(a)] = RunOf[a]
  BY ConstantsAssumption DEF ConstantsAssumption, Found, OwnerInv, OwnLocal
<1>1. CASE BeginFinalize(a)
  <2> DEFINE b == Found(a)
             refused == b = NoAttempt \/ (b \in Attempts /\ reg[b].cancelled)
  <2>1. CASE refused
    <3>1. Unregister(a, [att[a] EXCEPT !.outcome = "stopped"]) /\ reg' = reg
      BY <1>1, <2>1 DEF BeginFinalize
    <3>2. OwnAtt' /\ OwnLocal' BY <3>1, <1>0, <1>g, OutcomeClaims, UnregisterOwn
    <3> QED BY <3>1, <3>2, <1>g, <1>1, OwnerFrame DEF BeginFinalize
  <2>2. CASE ~refused
    <3>1. b \in Attempts BY <2>2, FoundType
    <3> DEFINE x == [att[a] EXCEPT !.pc = "watch", !.held = b, !.terminal = "finalizing"]
    <3>2. Continue(a, x) /\ localRuns' = localRuns
          /\ reg' = [reg EXCEPT ![b].phase = "finalizing"]
      BY <1>1, <2>2 DEF BeginFinalize
    <3>3. /\ x.pre = att[a].pre /\ x.interrupted = att[a].interrupted
          /\ x.held = b /\ x.seen = att[a].seen
      BY <1>0 DEF Attempt
    <3>4. OwnedAttempt(a, x) BY <1>0, <1>f, <3>1, <3>3 DEF OwnedAttempt
    <3>5. OwnAtt' BY <3>2, <3>4, <1>g, AttemptOwn
    <3>6. \A d \in Attempts : reg'[d].cancelled = reg[d].cancelled
      BY <3>2 DEF TypeOK, Registration
    <3>7. OwnReg' BY <3>6, <1>g, AskedGrows DEF OwnerInv, OwnReg
    <3> QED BY <3>2, <3>5, <3>7, <1>g, <1>1, OwnerFrame DEF BeginFinalize
  <2> QED BY <2>1, <2>2
<1>2. CASE WatchRecord(a)
  <2> DEFINE rec == record[RunOf[a]]
             gone == rec = NoRecord
  <2>0. att[a].pc = "watch" BY <1>2 DEF WatchRecord, At
  <2>r. SoundRecord(RunOf[a], rec) /\ (~gone => rec \in Record)
    BY <1>0 DEF OwnerInv, OwnRecord, TypeOK
  <2>1. CASE gone \/ (~gone /\ rec.cancelled)
    <3>1. FinalizeRefused(a, ~gone) /\ watching' = watching
      BY <1>2, <2>1 DEF WatchRecord
    <3>2. ~gone => Asked(RunOf[a]) BY <2>r, <2>1 DEF SoundRecord
    <3>3. OwnAtt' /\ OwnLocal' /\ OwnReg'
      BY <3>1, <3>2, <2>0, <1>g, RefusedOwn DEF Finalizing
    <3> QED BY <3>3, <1>g, <1>2, OwnerFrame DEF WatchRecord
  <2>2. CASE ~(gone \/ (~gone /\ rec.cancelled))
    <3> DEFINE x == [att[a] EXCEPT !.pc = "exec", !.seen = rec]
    <3>1. Continue(a, x) /\ localRuns' = localRuns /\ reg' = reg
      BY <1>2, <2>2 DEF WatchRecord
    <3>2. /\ x.pre = att[a].pre /\ x.interrupted = att[a].interrupted
          /\ x.held = att[a].held /\ x.seen = rec
      BY <1>0 DEF Attempt
    <3>3. OwnedAttempt(a, x) BY <1>0, <2>r, <3>2 DEF OwnedAttempt
    <3>4. OwnAtt' BY <3>1, <3>3, <1>g, AttemptOwn
    <3> QED BY <3>1, <3>4, <1>g, <1>2, OwnerFrame DEF WatchRecord
  <2> QED BY <2>1, <2>2
<1>3. CASE ExecSucceeds(a)
  <2>0. att[a].seen \in Record BY <1>0, <1>3 DEF ExecSucceeds, At, Sound
  <2> DEFINE rec == [att[a].seen EXCEPT !.phase = "finalizing"]
  <2>1. rec.user = att[a].seen.user /\ rec.cancelled = att[a].seen.cancelled
    BY <2>0 DEF Record
  <2>2. rec.user = UserOf[RunOf[a]] /\ (rec.cancelled => Asked(RunOf[a])')
    BY <2>0, <2>1, <1>0, <1>g, OwnedAttemptGrows
  <2>3. Store(RunOf[a], rec) /\ Continue(a, [att[a] EXCEPT !.pc = "persist"])
    BY <1>3 DEF ExecSucceeds
  <2>4. OwnRecord' BY <2>2, <2>3, <1>0, <1>g, StoreOwn
  <2>5. OwnedAttempt(a, [att[a] EXCEPT !.pc = "persist"])
    BY <1>0, ClaimsOwn DEF Attempt
  <2>6. OwnAtt' BY <2>3, <2>5, <1>g, AttemptOwn
  <2> QED BY <2>4, <2>6, <1>g, <1>3, OwnerFrame DEF ExecSucceeds
<1>4. CASE ExecAborts(a)
  <2>0. att[a].pc = "exec" BY <1>4 DEF ExecAborts, At
  <2>1. CASE att[a].tries + 1 = FinalizeTries
    <3>1. FinalizeRefused(a, FALSE) BY <1>4, <2>1 DEF ExecAborts
    <3>2. OwnAtt' /\ OwnLocal' /\ OwnReg'
      BY <3>1, <2>0, <1>g, RefusedOwn DEF Finalizing
    <3> QED BY <3>2, <1>g, <1>4, OwnerFrame DEF ExecAborts
  <2>2. CASE att[a].tries + 1 # FinalizeTries
    <3> DEFINE x == [att[a] EXCEPT !.pc = "watch", !.tries = @ + 1]
    <3>1. Continue(a, x) /\ localRuns' = localRuns /\ reg' = reg
      BY <1>4, <2>2 DEF ExecAborts
    <3>2. OwnedAttempt(a, x) BY <1>0, TriesClaims
    <3>3. OwnAtt' BY <3>1, <3>2, <1>g, AttemptOwn
    <3> QED BY <3>1, <3>3, <1>g, <1>4, OwnerFrame DEF ExecAborts
  <2> QED BY <2>1, <2>2
<1>5. CASE FinalizeFails(a)
  <2>1. Unregister(a, ErrorFrame(att[a])) BY <1>5 DEF FinalizeFails
  <2>2. OwnAtt' /\ OwnLocal' BY <2>1, <1>0, <1>g, ErrorClaims, UnregisterOwn
  <2> QED BY <2>2, <1>g, <1>5, OwnerFrame DEF FinalizeFails
<1> QED BY <1>1, <1>2, <1>3, <1>4, <1>5

LEMMA CommitOwn ==
    ASSUME TypeInv, OwnerInv, NEW a \in Attempts,
           Persist(a) \/ PersistFails(a) \/ EmitDone(a) \/ TokenFails(a)
             \/ ReadForDone(a) \/ WriteDone(a) \/ MarkDoneFails(a) \/ DeleteRecord(a)
    PROVE  OwnerInv'
<1> USE TypeInvParts
<1>0. att[a] \in Attempt /\ RunOf[a] \in Runs /\ Sound(att[a])
      /\ OwnedAttempt(a, att[a])
  BY RunOfType DEF SoundAtts, OwnerInv, OwnAtt
<1>g. Grow BY CommitType, GrowKept
<1>1. CASE Persist(a)
  <2> DEFINE x == [att[a] EXCEPT !.pc = "emit", !.persisted = TRUE]
  <2>1. OwnedAttempt(a, x)
    <3>1. /\ x.pre = att[a].pre /\ x.held = att[a].held
          /\ x.seen = att[a].seen /\ x.interrupted = att[a].interrupted
      BY <1>0 DEF Attempt
    <3> HIDE DEF x
    <3> QED BY <1>0, <3>1, ClaimsOwn
  <2>2. Continue(a, x) BY <1>1 DEF Persist
  <2>3. OwnAtt' BY <2>1, <2>2, <1>g, AttemptOwn
  <2> QED BY <2>3, <1>g, <1>1, OwnerFrame DEF Persist
<1>2. CASE PersistFails(a)
  <2> DEFINE y == [att[a] EXCEPT !.terminal = "open"]
  <2>1. /\ y \in Attempt /\ y.pre = att[a].pre /\ y.held = att[a].held
        /\ y.seen = att[a].seen /\ y.interrupted = att[a].interrupted
    BY <1>0 DEF Attempt
  <2>2. Unregister(a, ErrorFrame(y)) BY <1>2 DEF PersistFails
  <2> HIDE DEF y
  <2>3. OwnAtt' /\ OwnLocal' BY <2>1, <2>2, <1>0, <1>g, ErrorClaims, UnregisterOwn
  <2> QED BY <2>3, <1>g, <1>2, OwnerFrame DEF PersistFails
<1>3. CASE EmitDone(a)
  <2> DEFINE x == [att[a] EXCEPT !.pc = "doneRead", !.terminal = "done"]
             b == Found(a)
  <2>1. OwnedAttempt(a, x)
    <3>1. /\ x.pre = att[a].pre /\ x.held = att[a].held
          /\ x.seen = att[a].seen /\ x.interrupted = att[a].interrupted
      BY <1>0 DEF Attempt
    <3> HIDE DEF x
    <3> QED BY <1>0, <3>1, ClaimsOwn
  <2>2. Continue(a, x) BY <1>3 DEF EmitDone
  <2>3. OwnAtt' BY <2>1, <2>2, <1>g, AttemptOwn
  <2>4. \A d \in Attempts : reg'[d].cancelled = reg[d].cancelled
    BY <1>3 DEF EmitDone, TypeOK, Registration
  <2>5. OwnReg' BY <2>4, <1>g, AskedGrows DEF OwnerInv, OwnReg
  <2> QED BY <2>3, <2>5, <1>g, <1>3, OwnerFrame DEF EmitDone
<1>4. CASE TokenFails(a)
  <2>1. Unregister(a, ErrorFrame(att[a])) BY <1>4 DEF TokenFails
  <2>2. OwnAtt' /\ OwnLocal' BY <2>1, <1>0, <1>g, ErrorClaims, UnregisterOwn
  <2> QED BY <2>2, <1>g, <1>4, OwnerFrame DEF TokenFails
<1>5. CASE ReadForDone(a)
  <2> DEFINE rec == record[RunOf[a]]
  <2>1. CASE rec = NoRecord
    <3>1. Unregister(a, [att[a] EXCEPT !.outcome = "completed"])
      BY <1>5, <2>1 DEF ReadForDone
    <3>2. OwnAtt' /\ OwnLocal' BY <3>1, <1>0, <1>g, OutcomeClaims, UnregisterOwn
    <3> QED BY <3>2, <1>g, <1>5, OwnerFrame DEF ReadForDone
  <2>2. CASE rec # NoRecord
    <3> DEFINE x == [att[a] EXCEPT !.pc = "doneWrite", !.seen = rec]
    <3>1. Continue(a, x) /\ localRuns' = localRuns
      BY <1>5, <2>2 DEF ReadForDone
    <3>2. /\ x.pre = att[a].pre /\ x.interrupted = att[a].interrupted
          /\ x.held = att[a].held /\ x.seen = rec
      BY <1>0 DEF Attempt
    <3>3. SoundRecord(RunOf[a], rec) BY <1>0 DEF OwnerInv, OwnRecord
    <3>4. OwnedAttempt(a, x) BY <1>0, <3>2, <3>3 DEF OwnedAttempt
    <3>5. OwnAtt' BY <3>1, <3>4, <1>g, AttemptOwn
    <3> QED BY <3>1, <3>5, <1>g, <1>5, OwnerFrame DEF ReadForDone
  <2> QED BY <2>1, <2>2
<1>6. CASE WriteDone(a)
  <2>0. att[a].seen \in Record BY <1>0, <1>6 DEF WriteDone, At, Sound
  <2> DEFINE rec == [att[a].seen EXCEPT !.phase = "done"]
  <2>1. rec.user = att[a].seen.user /\ rec.cancelled = att[a].seen.cancelled
    BY <2>0 DEF Record
  <2>2. rec.user = UserOf[RunOf[a]] /\ (rec.cancelled => Asked(RunOf[a])')
    BY <2>0, <2>1, <1>0, <1>g, OwnedAttemptGrows
  <2>3. Store(RunOf[a], rec) /\ Unregister(a, [att[a] EXCEPT !.outcome = "completed"])
    BY <1>6 DEF WriteDone
  <2>4. OwnRecord' BY <2>2, <2>3, <1>0, <1>g, StoreOwn
  <2>5. OwnAtt' /\ OwnLocal' BY <2>3, <1>0, <1>g, OutcomeClaims, UnregisterOwn
  <2> QED BY <2>4, <2>5, <1>g, <1>6, OwnerFrame DEF WriteDone
<1>7. CASE MarkDoneFails(a)
  <2>1. Unregister(a, [att[a] EXCEPT !.outcome = "completed"])
    BY <1>7 DEF MarkDoneFails
  <2>2. OwnAtt' /\ OwnLocal' BY <2>1, <1>0, <1>g, OutcomeClaims, UnregisterOwn
  <2> QED BY <2>2, <1>g, <1>7, OwnerFrame DEF MarkDoneFails
<1>8. CASE DeleteRecord(a)
  <2>1. OwnedAttempt(a, [att[a] EXCEPT !.pc = "ended"])
    BY <1>0, ClaimsOwn DEF Attempt
  <2>2. Continue(a, [att[a] EXCEPT !.pc = "ended"])
        /\ (Store(RunOf[a], NoRecord) \/ record' = record)
    BY <1>8 DEF DeleteRecord
  <2>3. OwnAtt' BY <2>1, <2>2, <1>g, AttemptOwn
  <2>4. NoRecord \notin Record
    BY ConstantsAssumption DEF ConstantsAssumption, NoRecord, Record
  <2>5. record' = record \/ OwnRecord' BY <2>2, <2>4, <1>0, <1>g, StoreOwn
  <2> QED BY <2>3, <2>5, <1>g, <1>8, OwnerFrame DEF DeleteRecord
<1> QED BY <1>1, <1>2, <1>3, <1>4, <1>5, <1>6, <1>7, <1>8

LEMMA InterruptOwn ==
    ASSUME TypeInv, OwnerInv, NEW a \in Attempts, Interrupted(a) \/ Disconnect(a)
    PROVE  OwnerInv'
<1> USE TypeInvParts
<1>0. att[a] \in Attempt /\ OwnedAttempt(a, att[a])
  BY DEF SoundAtts, OwnerInv, OwnAtt
<1>g. Grow BY InterruptType, GrowKept
<1>1. CASE Interrupted(a)
  <2> DEFINE y == [att[a] EXCEPT !.interrupted = "no", !.outcome = "stopped",
                      !.terminal = IF att[a].pc = "persist" THEN "open" ELSE @]
  <2>1. /\ y \in Attempt /\ y.pre = att[a].pre /\ y.held = att[a].held
        /\ y.seen = att[a].seen /\ y.interrupted = "no"
    BY <1>0 DEF Attempt
  <2>3. CASE att[a].pc \in Registering \cup {"delete"}
    <3> DEFINE x == [y EXCEPT !.pc = "ended"]
    <3>1. Continue(a, x) /\ localRuns' = localRuns
      BY <1>1, <2>3 DEF Interrupted
    <3> HIDE DEF y
    <3>2. /\ x.pre = att[a].pre /\ x.held = att[a].held
          /\ x.seen = att[a].seen /\ x.interrupted = "no"
      BY <2>1 DEF Attempt
    <3>3. OwnedAttempt(a, x) BY <1>0, <3>2, ClaimsOwn
    <3>4. OwnAtt' BY <3>1, <3>3, <1>g, AttemptOwn
    <3> QED BY <3>1, <3>4, <1>g, <1>1, OwnerFrame DEF Interrupted
  <2>4. CASE att[a].pc \notin Registering \cup {"delete"}
    <3>1. Unregister(a, y) BY <1>1, <2>4 DEF Interrupted
    <3> HIDE DEF y
    <3>2. OwnAtt' /\ OwnLocal' BY <2>1, <3>1, <1>g, UnregisterOwn
    <3> QED BY <3>2, <1>g, <1>1, OwnerFrame DEF Interrupted
  <2> QED BY <2>3, <2>4
<1>2. CASE Disconnect(a)
  <2> DEFINE x == [att[a] EXCEPT !.interrupted = "disconnect"]
  <2>1. /\ x.pre = att[a].pre /\ x.held = att[a].held
        /\ x.seen = att[a].seen /\ x.interrupted = "disconnect"
    BY <1>0 DEF Attempt
  <2>2. Continue(a, x) BY <1>2 DEF Disconnect
  <2>3. OwnedAttempt(a, x) BY <1>0, <2>1, ClaimsOwn
  <2>4. OwnAtt' BY <2>2, <2>3, <1>g, AttemptOwn
  <2> QED BY <2>4, <1>g, <1>2, OwnerFrame DEF Disconnect
<1> QED BY <1>1, <1>2

\* What a request may become in one step.
LEMMA ReqGrows ==
    ASSUME SoundReqs, NEW c \in Cancels, NEW y \in Request,
           req' = [req EXCEPT ![c] = y], y.run = req[c].run, y.user = req[c].user,
           y.pc \notin {"idle", "read"} \/ req[c].pc = "idle"
    PROVE  Grow
BY DEF SoundReqs, Grow

LEMMA ReqOwn ==
    ASSUME SoundReqs, OwnerInv, NEW c \in Cancels, NEW y \in Request,
           req' = [req EXCEPT ![c] = y], OwnedRequest(y)
    PROVE  OwnReq'
BY DEF SoundReqs, OwnerInv, OwnReq, OwnedRequest

LEMMA AnswerOwn ==
    ASSUME SoundReqs, OwnerInv, NEW c \in Cancels,
           NEW ans \in {"true", "false", "raised"}, Answer(c, ans),
           NEW r, r = req[c].run
    PROVE  /\ Grow /\ OwnReq'
           /\ req[c].user = UserOf[r] => Asked(r)'
<1> DEFINE y == [req[c] EXCEPT !.pc = "answered", !.answer = ans]
<1>0. req[c] \in Request BY DEF SoundReqs
<1>1. req' = [req EXCEPT ![c] = y] BY DEF Answer, SoundReqs
<1>2. /\ y \in Request /\ y.run = req[c].run /\ y.user = req[c].user
      /\ y.pc = "answered"
  BY <1>0 DEF Request
<1> HIDE DEF y
<1>3. Grow BY <1>1, <1>2, ReqGrows
<1>4. OwnReq' BY <1>1, <1>2, ReqOwn DEF OwnedRequest
<1>5. req'[c] = y BY <1>1 DEF SoundReqs
<1>6. req[c].user = UserOf[r] => Asked(r)'
  BY <1>2, <1>5 DEF Asked
<1> QED BY <1>3, <1>4, <1>6

LEMMA RequestOwn ==
    ASSUME TypeInv, OwnerInv, NEW c \in Cancels,
           StartCancel(c) \/ CancelStep(c) \/ CancelFails(c)
    PROVE  OwnerInv'
<1> USE TypeInvParts
<1> DEFINE q == req[c]
<1>0. q \in Request /\ q.run \in Runs /\ q.user \in Users /\ q.inst \in Instances
      /\ OwnedRequest(q)
  BY DEF SoundReqs, Request, OwnerInv, OwnReq
<1>r. PICK run \in Runs : run = q.run BY <1>0
<1>1. CASE StartCancel(c)
  <2> DEFINE y == [q EXCEPT !.pc = "read"]
  <2>1. req' = [req EXCEPT ![c] = y] /\ q.pc = "idle"
    BY <1>1 DEF StartCancel, SoundReqs
  <2>2. y \in Request /\ y.run = q.run /\ y.user = q.user /\ y.pc = "read"
    BY <1>0 DEF Request
  <2> HIDE DEF y
  <2>3. Grow BY <2>1, <2>2, ReqGrows
  <2>4. OwnReq' BY <2>1, <2>2, ReqOwn DEF OwnedRequest
  <2> QED BY <2>3, <2>4, <1>1, OwnerFrame DEF StartCancel
<1>2. CASE ReadForCancel(c)
  <2> DEFINE rec == record[q.run]
  <2>r. rec # NoRecord => rec \in Record /\ rec.user = UserOf[q.run]
    BY <1>0 DEF TypeOK, OwnerInv, OwnRecord, SoundRecord
  <2>1. CASE rec = NoRecord
    <3> DEFINE y == [q EXCEPT !.pc = "tombstone"]
    <3>1. req' = [req EXCEPT ![c] = y] /\ reg' = reg /\ att' = att
      BY <1>2, <2>1 DEF ReadForCancel, SoundReqs
    <3>2. y \in Request /\ y.run = q.run /\ y.user = q.user /\ y.pc = "tombstone"
      BY <1>0 DEF Request
    <3> HIDE DEF y
    <3>3. Grow BY <3>1, <3>2, ReqGrows
    <3>4. OwnReq' BY <3>1, <3>2, ReqOwn DEF OwnedRequest
    <3> QED BY <3>1, <3>3, <3>4, <1>2, OwnerFrame DEF ReadForCancel
  <2>2. CASE rec # NoRecord /\ ~MayCancel(q, rec)
    <3>1. Answer(c, "false") /\ reg' = reg /\ att' = att
      BY <1>2, <2>2 DEF ReadForCancel
    <3>2. Grow /\ OwnReq' BY <3>1, AnswerOwn
    <3> QED BY <3>1, <3>2, <1>2, OwnerFrame DEF ReadForCancel
  <2>3. CASE rec # NoRecord /\ MayCancel(q, rec) /\ rec.cancelled
    <3>1. Answer(c, "true")
          /\ (ApplyLocalCancel(q.inst, q.run) \/ (reg' = reg /\ att' = att))
      BY <1>2, <2>3 DEF ReadForCancel
    <3>2. q.user = UserOf[q.run] BY <2>r, <2>3 DEF MayCancel
    <3>3. Grow /\ OwnReq' /\ Asked(run)' BY <3>1, <3>2, <1>r, AnswerOwn
    <3>4. (reg' = reg /\ att' = att) \/ (OwnReg' /\ OwnAtt')
      BY <3>1, <3>3, <1>0, <1>r, LocalCancelOwn
    <3> QED BY <3>3, <3>4, <1>2, OwnerFrame DEF ReadForCancel
  <2>4. CASE rec # NoRecord /\ MayCancel(q, rec) /\ ~rec.cancelled
    <3> DEFINE y == [q EXCEPT !.pc = "store", !.seen = rec]
    <3>1. req' = [req EXCEPT ![c] = y] /\ reg' = reg /\ att' = att
      BY <1>2, <2>4 DEF ReadForCancel, SoundReqs
    <3>2. y \in Request /\ y.run = q.run /\ y.user = q.user /\ y.pc = "store"
          /\ y.seen = rec
      BY <1>0, <2>r, <2>4 DEF Request
    <3> HIDE DEF y
    <3>3. Grow BY <3>1, <3>2, ReqGrows
    <3>4. OwnedRequest(y) BY <3>2, <2>r, <2>4 DEF OwnedRequest, MayCancel
    <3>5. OwnReq' BY <3>1, <3>2, <3>4, ReqOwn
    <3> QED BY <3>1, <3>3, <3>5, <1>2, OwnerFrame DEF ReadForCancel
  <2> QED BY <2>1, <2>2, <2>3, <2>4
<1>3. CASE StoreTombstone(c)
  <2>1. Answer(c, "true") /\ tombstone' = [tombstone EXCEPT ![q.run] = q.user]
    BY <1>3 DEF StoreTombstone
  <2>2. Grow /\ OwnReq' /\ (q.user = UserOf[q.run] => Asked(run)')
    BY <2>1, <1>r, AnswerOwn
  <2>3. OwnTombstone'
    <3>1. ASSUME NEW r \in Runs, tombstone'[r] = UserOf[r] PROVE Asked(r)'
      <4>1. CASE r = q.run
        <5>1. tombstone'[r] = q.user BY <2>1, <4>1, <1>0 DEF TypeOK
        <5> QED BY <5>1, <4>1, <3>1, <2>2, <1>r
      <4>2. CASE r # q.run
        <5>1. tombstone'[r] = tombstone[r] BY <2>1, <4>2 DEF TypeOK
        <5> QED BY <5>1, <3>1, <2>2, AskedGrows DEF OwnerInv, OwnTombstone
      <4> QED BY <4>1, <4>2
    <3> QED BY <3>1 DEF OwnTombstone
  <2> QED BY <2>2, <2>3, <1>3, OwnerFrame DEF StoreTombstone
<1>4. CASE StoreCancelled(c)
  <2>0. q.pc = "store" BY <1>4 DEF StoreCancelled
  <2>1. q.seen \in Record BY <2>0 DEF SoundReqs
  <2> DEFINE rec == [q.seen EXCEPT !.cancelled = TRUE]
             y == [q EXCEPT !.pc = "apply"]
  <2>2. rec.user = q.seen.user BY <2>1 DEF Record
  <2>3. q.user = UserOf[q.run] /\ q.seen.user = UserOf[q.run]
    BY <1>0, <2>0 DEF OwnedRequest
  <2>4. req' = [req EXCEPT ![c] = y] BY <1>4 DEF StoreCancelled, SoundReqs
  <2>5. y \in Request /\ y.run = q.run /\ y.user = q.user /\ y.pc = "apply"
        /\ y.seen = q.seen
    BY <1>0 DEF Request
  <2>8. Store(q.run, rec) BY <1>4 DEF StoreCancelled
  <2> HIDE DEF y, rec
  <2>6. Grow BY <2>4, <2>5, ReqGrows
  <2>7. OwnReq' BY <2>4, <2>5, <2>3, ReqOwn DEF OwnedRequest
  <2>9. Asked(run)'
    <3>1. req'[c] = y BY <2>4 DEF SoundReqs
    <3> QED BY <3>1, <2>5, <2>3, <1>r DEF Asked
  <2>10. OwnRecord' BY <2>2, <2>3, <2>6, <2>8, <2>9, <1>0, <1>r, StoreOwn
  <2> QED BY <2>6, <2>7, <2>10, <1>4, OwnerFrame DEF StoreCancelled
<1>5. CASE ApplyCancel(c)
  <2>0. q.pc = "apply" BY <1>5 DEF ApplyCancel
  <2>1. Answer(c, "true")
        /\ (ApplyLocalCancel(q.inst, q.run) \/ (reg' = reg /\ att' = att))
    BY <1>5 DEF ApplyCancel
  <2>2. q.user = UserOf[q.run] BY <1>0, <2>0 DEF OwnedRequest
  <2>3. Grow /\ OwnReq' /\ Asked(run)' BY <2>1, <2>2, <1>r, AnswerOwn
  <2>4. (reg' = reg /\ att' = att) \/ (OwnReg' /\ OwnAtt')
    BY <2>1, <2>3, <1>0, <1>r, LocalCancelOwn
  <2>5. OwnChannel'
    <3>1. ASSUME NEW i \in Instances, NEW r \in channel'[i] PROVE Asked(r)'
      <4>1. r \in channel[i] \/ r = q.run BY <1>5 DEF ApplyCancel, TypeOK
      <4>2. r \in channel[i] => Asked(r)'
        BY <2>3, AskedGrows DEF OwnerInv, OwnChannel
      <4> QED BY <4>1, <4>2, <2>3, <1>r
    <3> QED BY <3>1 DEF OwnChannel
  <2> QED BY <2>3, <2>4, <2>5, <1>5, OwnerFrame DEF ApplyCancel
<1>6. CASE CancelFails(c)
  <2>1. Grow /\ OwnReq' BY <1>6, AnswerOwn DEF CancelFails
  <2> QED BY <2>1, <1>6, OwnerFrame DEF CancelFails
<1> QED BY <1>1, <1>2, <1>3, <1>4, <1>5, <1>6 DEF CancelStep

LEMMA RedisOwn ==
    ASSUME TypeInv, OwnerInv,
           \/ \E i \in Instances : Deliver(i) \/ Lose(i)
           \/ \E r \in Runs : Expire(r)
    PROVE  OwnerInv'
<1> USE TypeInvParts
<1>g. Grow BY RedisType, GrowKept
<1>1. ASSUME NEW i \in Instances, Deliver(i) PROVE OwnerInv'
  <2>1. PICK r \in channel[i] : ApplyLocalCancel(i, r)
                                /\ channel' = [channel EXCEPT ![i] = @ \ {r}]
    BY <1>1 DEF Deliver
  <2>2. r \in Runs /\ Asked(r)'
    BY <1>g, AskedGrows DEF OwnerInv, OwnChannel, TypeOK
  <2>3. OwnReg' /\ OwnAtt' BY <2>1, <2>2, <1>g, LocalCancelOwn
  <2>4. OwnChannel'
    BY <2>1, <1>g, AskedGrows DEF OwnerInv, OwnChannel, TypeOK
  <2> QED BY <2>3, <2>4, <1>g, <1>1, OwnerFrame DEF Deliver
<1>2. ASSUME NEW i \in Instances, Lose(i) PROVE OwnerInv'
  <2>1. PICK r \in channel[i] : channel' = [channel EXCEPT ![i] = @ \ {r}]
    BY <1>2 DEF Lose
  <2>2. OwnChannel'
    BY <2>1, <1>g, AskedGrows DEF OwnerInv, OwnChannel, TypeOK
  <2> QED BY <2>2, <1>g, <1>2, OwnerFrame DEF Lose
<1>3. ASSUME NEW r \in Runs, Expire(r) PROVE OwnerInv'
  <2>1. \/ Store(r, NoRecord) /\ tombstone' = tombstone
        \/ /\ tombstone' = [tombstone EXCEPT ![r] = NoUser]
           /\ record' = record /\ watching' = watching
    BY <1>3 DEF Expire
  <2>2. NoRecord \notin Record /\ UserOf[r] # NoUser
    BY ConstantsAssumption DEF ConstantsAssumption, NoRecord, Record
  <2>3. record' = record \/ OwnRecord' BY <2>1, <2>2, <1>g, StoreOwn
  <2>4. ASSUME NEW s \in Runs, tombstone'[s] = UserOf[s] PROVE Asked(s)'
    <3>1. tombstone[s] = UserOf[s] BY <2>1, <2>2, <2>4 DEF TypeOK
    <3> QED BY <3>1, <1>g, AskedGrows DEF OwnerInv, OwnTombstone
  <2>5. OwnTombstone' BY <2>4 DEF OwnTombstone
  <2> QED BY <2>3, <2>5, <1>g, <1>3, OwnerFrame DEF Expire
<1> QED BY <1>1, <1>2, <1>3

LEMMA OwnerInvInit == Init => OwnerInv
<1> SUFFICES ASSUME Init PROVE OwnerInv OBVIOUS
<1>c. NoUser \notin Users /\ NoAttempt \notin Attempts /\ UserOf \in [Runs -> Users]
  BY ConstantsAssumption DEF ConstantsAssumption
<1>n. NoRecord \notin Record BY <1>c DEF NoRecord, Record
<1>1. OwnRecord BY <1>n DEF Init, OwnRecord, SoundRecord
<1>2. OwnTombstone BY <1>c DEF Init, OwnTombstone
<1>3. OwnChannel BY DEF Init, OwnChannel
<1>4. OwnLocal BY <1>c DEF Init, OwnLocal
<1>5. OwnReg BY DEF Init, OwnReg, FreshRegistration
<1>6. OwnAtt
  BY <1>c, <1>n DEF Init, OwnAtt, OwnedAttempt, SoundRecord, IdleAttempt
<1>7. OwnReq
  <2>1. \A c \in Cancels : req[c].pc = "idle" BY DEF Init
  <2> QED BY <2>1 DEF OwnReq, OwnedRequest
<1> QED BY <1>1, <1>2, <1>3, <1>4, <1>5, <1>6, <1>7 DEF OwnerInv

LEMMA OwnerInvStep == TypeInv /\ OwnerInv /\ [Next]_vars => OwnerInv'
<1> SUFFICES ASSUME TypeInv, OwnerInv, [Next]_vars PROVE OwnerInv' OBVIOUS
<1>1. ASSUME NEW a \in Attempts,
             Register(a) \/ PollStops(a) \/ PollContinues(a) \/ Finish(a)
               \/ Fails(a) \/ Interrupted(a) \/ Disconnect(a)
      PROVE  OwnerInv'
  BY <1>1, RegisterOwn, ProducerOwn, FinalizeOwn, CommitOwn, InterruptOwn
     DEF Finish, Fails
<1>2. ASSUME NEW c \in Cancels, StartCancel(c) \/ CancelStep(c) \/ CancelFails(c)
      PROVE  OwnerInv'
  BY <1>2, RequestOwn
<1>3. ASSUME \/ \E i \in Instances : Deliver(i) \/ Lose(i)
             \/ \E r \in Runs : Expire(r)
      PROVE  OwnerInv'
  BY <1>3, RedisOwn
<1>4. CASE UNCHANGED vars
  BY <1>4, GrowKept, OwnerFrame DEF vars
<1> QED BY <1>1, <1>2, <1>3, <1>4 DEF Next

\* Only a request of the run's own principal reaches its task: cancel_run's
\* user check guards the flag in Redis, the published message and the local
\* registration alike, and a tombstone is honoured for its own user only.
THEOREM OwnerAlone == Spec => []OwnerOnly
<1>1. OwnerInv => OwnerOnly
  BY DEF OwnerInv, OwnReg, OwnAtt, OwnedAttempt, Asked, OwnerOnly
<1>2. TypeInv /\ OwnerInv /\ [Next]_vars => (TypeInv /\ OwnerInv)'
  BY TypeInvStep, OwnerInvStep
<1> QED BY TypeInvInit, OwnerInvInit, <1>1, <1>2, PTL DEF Spec
-----------------------------------------------------------------------------
(* The commit boundary, for attempts that are alone on their run id.        *)

\* What a step of another actor leaves an attempt.
LEMMA CommitApart ==
    ASSUME NEW a \in Attempts, CommitOK(a),
           att'[a] = att[a], reg'[a].phase = reg[a].phase,
           record'[RunOf[a]] = record[RunOf[a]],
           tombstone'[RunOf[a]] = tombstone[RunOf[a]],
           a \in watching' => a \in watching,
           told'[a] = told[a], Doomed(a)' => Doomed(a),
           NobodyStores(RunOf[a]) => NobodyStores(RunOf[a])'
    PROVE  CommitOK(a)'
<1>1. BoundaryOK(a)' BY DEF CommitOK, BoundaryOK
<1>2. LateOK(a)' BY DEF CommitOK, LateOK
<1>3. UnstoredOK(a)' BY DEF CommitOK, UnstoredOK
<1>4. DoomedOK(a)' BY DEF CommitOK, DoomedOK, Committed
<1> QED BY <1>1, <1>2, <1>3, <1>4 DEF CommitOK

LEMMA DoomKept ==
    ASSUME NEW a \in Attempts, told' = told, expiries' = expiries, req' = req
    PROVE  /\ Doomed(a)' <=> Doomed(a)
           /\ NobodyStores(RunOf[a])' <=> NobodyStores(RunOf[a])
BY DEF Doomed, AskedByOwnerAlone, NobodyStores

\* An attempt that leaves its producer.
LEMMA CommitLeaves ==
    ASSUME NEW a \in Attempts, CommitOK(a),
           att'[a].pc \in {"delete", "ended"},
           att'[a].persisted = att[a].persisted,
           att'[a].outcome = "completed" => Committed(a),
           a \in watching' => a \in watching,
           record'[RunOf[a]] \in {record[RunOf[a]], NoRecord} \/ Committed(a),
           told' = told, expiries' = expiries, req' = req
    PROVE  CommitOK(a)'
<1>1. BoundaryOK(a)' BY DEF BoundaryOK, Finalizing, Committing
<1>2. LateOK(a)' BY DEF LateOK
<1>3. UnstoredOK(a)' BY DEF UnstoredOK, Unstored
<1>4. DoomedOK(a)'
  BY DoomKept DEF CommitOK, DoomedOK, Committed, Committing, NoRecord
<1> QED BY <1>1, <1>2, <1>3, <1>4 DEF CommitOK

\* A step of attempt a touches its own run and its own registration.
AloneFrame(a) ==
    /\ \A d \in Attempts \ {a} : /\ att'[d] = att[d] /\ reg'[d] = reg[d]
                                 /\ d \in watching' => d \in watching
    /\ \A r \in Runs \ {RunOf[a]} : record'[r] = record[r] /\ tombstone'[r] = tombstone[r]
    /\ told' = told /\ expiries' = expiries

LEMMA ContinueFrame ==
    ASSUME SoundAtts, NEW a \in Attempts, NEW x, Continue(a, x)
    PROVE  att'[a] = x /\ \A d \in Attempts \ {a} : att'[d] = att[d]
BY DEF SoundAtts, Continue

LEMMA UnregisterFrame ==
    ASSUME SoundAtts, NEW a \in Attempts, NEW x \in Attempt, Unregister(a, x)
    PROVE  /\ att'[a] = [x EXCEPT !.pc = "delete"]
           /\ att'[a].pc = "delete" /\ att'[a].persisted = x.persisted
           /\ att'[a].outcome = x.outcome
           /\ \A d \in Attempts \ {a} : att'[d] = att[d]
<1>1. Continue(a, [x EXCEPT !.pc = "delete"]) BY DEF Unregister
<1>2. att'[a] = [x EXCEPT !.pc = "delete"] BY <1>1, ContinueFrame
<1>3. att'[a].pc = "delete" /\ att'[a].persisted = x.persisted
      /\ att'[a].outcome = x.outcome
  BY <1>2 DEF Attempt
<1> QED BY <1>1, <1>2, <1>3, ContinueFrame

LEMMA StoreFrame ==
    ASSUME TypeOK, NEW r \in Runs, NEW rec, Store(r, rec)
    PROVE  /\ record'[r] = rec /\ \A s \in Runs \ {r} : record'[s] = record[s]
           /\ \A d \in Attempts : d \in watching' => d \in watching /\ RunOf[d] # r
BY DEF Store, TypeOK

\* The registrations an attempt reaches are its own.
LEMMA AloneReg ==
    ASSUME OneAttemptPerRun, TypeOK, OwnerInv, NEW a \in Attempts
    PROVE  /\ Found(a) \in Attempts => Found(a) = a
           /\ att[a].held \in Attempts => att[a].held = a
<1>1. InstOf[a] \in Instances /\ RunOf[a] \in Runs
  BY ConstantsAssumption DEF ConstantsAssumption
<1>2. Found(a) \in Attempts => RunOf[Found(a)] = RunOf[a]
  BY <1>1 DEF Found, OwnerInv, OwnLocal
<1>3. att[a].held \in Attempts => RunOf[att[a].held] = RunOf[a]
  BY DEF OwnerInv, OwnAtt, OwnedAttempt
<1> QED BY <1>2, <1>3 DEF OneAttemptPerRun

LEMMA CommitOthers ==
    ASSUME OneAttemptPerRun, NEW a \in Attempts, CommitInv, AloneFrame(a), req' = req,
           CommitOK(a)'
    PROVE  CommitInv'
<1>1. ASSUME NEW d \in Attempts, d # a PROVE CommitOK(d)'
  <2>1. RunOf[d] # RunOf[a] /\ RunOf[d] \in Runs
    BY <1>1, RunOfType DEF OneAttemptPerRun
  <2>2. /\ att'[d] = att[d] /\ reg'[d].phase = reg[d].phase
        /\ record'[RunOf[d]] = record[RunOf[d]]
        /\ tombstone'[RunOf[d]] = tombstone[RunOf[d]]
        /\ d \in watching' => d \in watching
        /\ told'[d] = told[d]
    BY <1>1, <2>1 DEF AloneFrame
  <2>3. /\ Doomed(d)' => Doomed(d)
        /\ NobodyStores(RunOf[d]) => NobodyStores(RunOf[d])'
    BY DoomKept DEF AloneFrame
  <2>4. CommitOK(d) BY DEF CommitInv
  <2> QED BY <2>2, <2>3, <2>4, CommitApart
<1> QED BY <1>1 DEF CommitInv

\* A leaving step with the rest of its frame.
LEMMA LeavesAlone ==
    ASSUME OneAttemptPerRun, TypeInv, OwnerInv, CommitInv, NEW a \in Attempts,
           NEW x \in Attempt, Unregister(a, x),
           x.persisted = att[a].persisted,
           x.outcome = "completed" => Committed(a),
           \A d \in Attempts \ {a} : reg'[d] = reg[d],
           \A d \in Attempts : d \in watching' => d \in watching,
           \/ record' = record
           \/ /\ Committed(a)
              /\ \A r \in Runs \ {RunOf[a]} : record'[r] = record[r],
           tombstone' = tombstone, told' = told, expiries' = expiries, req' = req
    PROVE  CommitInv'
<1>0. SoundAtts BY TypeInvParts
<1>1. /\ att'[a].pc = "delete" /\ att'[a].persisted = x.persisted
      /\ att'[a].outcome = x.outcome
      /\ \A d \in Attempts \ {a} : att'[d] = att[d]
  BY <1>0, UnregisterFrame
<1>2. CommitOK(a) BY DEF CommitInv
<1>3. CommitOK(a)' BY <1>1, <1>2, CommitLeaves
<1>4. AloneFrame(a) BY <1>1 DEF AloneFrame
<1> QED BY <1>3, <1>4, CommitOthers

LEMMA RegisterCommit ==
    ASSUME OneAttemptPerRun, TypeInv, OwnerInv, CommitInv, NEW a \in Attempts,
           Register(a) \/ RegisterFails(a)
    PROVE  CommitInv'
<1> USE TypeInvParts
<1>0. att[a] \in Attempt /\ RunOf[a] \in Runs /\ CommitOK(a) /\ Sound(att[a])
  BY RunOfType DEF SoundAtts, CommitInv
<1>r. req' = req BY RegisterType
\* A step of register that moves on to a location before the commit.
<1>m. ASSUME NEW x, Continue(a, x), x.persisted = att[a].persisted,
             x.outcome = att[a].outcome,
             att[a].pc \in Registering \cup {"idle"},
             x.pc \in Registering \cup {"generating"},
             \/ x.pc \in Unstored /\ att[a].pc \in Unstored /\ record' = record
             \/ x.pc \in {"install", "storeAgain", "generating"},
             x.pc \in {"dropTombstone", "storeRecord", "install"} /\ Doomed(a) =>
                 x.pre \/ told[a] = "recorded",
             x.pc = "readTombstone" => att[a].pc = "idle" /\ tombstone' = tombstone,
             record' = record \/ (record'[RunOf[a]].cancelled \/ ~Doomed(a)),
             AloneFrame(a), a \in watching' => a \in watching
      PROVE  CommitInv'
  <2>1. att'[a] = x BY <1>m, ContinueFrame
  <2>2. BoundaryOK(a)'
    BY <2>1, <1>m DEF BoundaryOK, Finalizing, Committing, Registering
  <2>3. LateOK(a)'
    BY <2>1, <1>m, <1>0 DEF CommitOK, LateOK, Committing, Registering
  <2>4. UnstoredOK(a)'
    BY <2>1, <1>m, <1>0, <1>r, DoomKept DEF CommitOK, UnstoredOK, AloneFrame, Unstored
  <2>5. DoomedOK(a)'
    <3>1. Doomed(a)' <=> Doomed(a) BY <1>m, <1>r, DoomKept DEF AloneFrame
    <3>2. Committed(a)' => Committed(a)
      BY <2>1, <1>m DEF Committed, Committing, Registering
    <3>3. told'[a] = told[a] BY <1>m DEF AloneFrame
    <3>4. ASSUME Doomed(a), x.pc \in {"idle", "readTombstone"}
          PROVE  tombstone'[RunOf[a]] = UserOf[RunOf[a]]
      BY <3>4, <1>m, <1>0 DEF CommitOK, DoomedOK, Registering
    <3>5. Doomed(a) => record'[RunOf[a]] = NoRecord \/ record'[RunOf[a]].cancelled
      BY <1>m, <1>0 DEF CommitOK, DoomedOK
    <3>6. Doomed(a) => ~Committed(a) /\ a \notin watching
      BY <1>0 DEF CommitOK, DoomedOK
    <3> QED BY <2>1, <1>m, <3>1, <3>2, <3>3, <3>4, <3>5, <3>6 DEF DoomedOK
  <2> QED BY <2>2, <2>3, <2>4, <2>5, <1>m, <1>r, CommitOthers DEF CommitOK
<1>1. CASE Start(a)
  <2> DEFINE x == [att[a] EXCEPT !.pc = "readTombstone"]
  <2>1. /\ x.pc = "readTombstone" /\ x.persisted = att[a].persisted
        /\ x.outcome = att[a].outcome
    BY <1>0 DEF Attempt
  <2>2. Continue(a, x) /\ att[a].pc = "idle" BY <1>1 DEF Start, At
  <2> HIDE DEF x
  <2>3. AloneFrame(a) BY <2>2, <1>1, ContinueFrame DEF Start, AloneFrame
  <2> QED BY <2>1, <2>2, <2>3, <1>1, <1>m DEF Start, Registering, Unstored
<1>2. CASE ReadTombstone(a)
  <2> DEFINE x == [att[a] EXCEPT !.pre = PreCancelled(a),
                  !.pc = IF PreCancelled(a) THEN "dropTombstone" ELSE "storeRecord"]
  <2>1. /\ x.pre = PreCancelled(a) /\ x.pc \in {"dropTombstone", "storeRecord"}
        /\ x.persisted = att[a].persisted /\ x.outcome = att[a].outcome
    BY <1>0 DEF Attempt
  <2>2. Continue(a, x) /\ att[a].pc = "readTombstone" BY <1>2 DEF ReadTombstone, At
  <2> HIDE DEF x
  <2>3. AloneFrame(a) BY <2>2, <1>2, ContinueFrame DEF ReadTombstone, AloneFrame
  <2>4. Doomed(a) => x.pre
    BY <2>1, <2>2, <1>0 DEF CommitOK, DoomedOK, PreCancelled
  <2> QED BY <2>1, <2>2, <2>3, <2>4, <1>2, <1>m DEF ReadTombstone, Registering, Unstored
<1>3. CASE DropTombstone(a)
  <2> DEFINE x == [att[a] EXCEPT !.pc = "storeRecord"]
  <2>1. /\ x.pc = "storeRecord" /\ x.pre = att[a].pre
        /\ x.persisted = att[a].persisted /\ x.outcome = att[a].outcome
    BY <1>0 DEF Attempt
  <2>2. Continue(a, x) /\ att[a].pc = "dropTombstone" BY <1>3 DEF DropTombstone, At
  <2> HIDE DEF x
  <2>3. AloneFrame(a)
    BY <2>2, <1>3, ContinueFrame DEF DropTombstone, AloneFrame, TypeOK
  <2>4. Doomed(a) => x.pre \/ told[a] = "recorded"
    BY <2>1, <2>2, <1>0 DEF CommitOK, DoomedOK
  <2> QED BY <2>1, <2>2, <2>3, <2>4, <1>3, <1>m DEF DropTombstone, Registering, Unstored
<1>4. CASE StoreRecord(a)
  <2> DEFINE x == [att[a] EXCEPT !.pc = "install"]
             rec == NewRecord(a, att[a].pre)
  <2>1. /\ x.pc = "install" /\ x.pre = att[a].pre
        /\ x.persisted = att[a].persisted /\ x.outcome = att[a].outcome
    BY <1>0 DEF Attempt
  <2>2. Continue(a, x) /\ att[a].pc = "storeRecord" /\ Store(RunOf[a], rec)
    BY <1>4 DEF StoreRecord, At
  <2>5. rec.cancelled = att[a].pre BY DEF NewRecord
  <2> HIDE DEF x, rec
  <2>3. AloneFrame(a) /\ record'[RunOf[a]] = rec /\ (a \in watching' => a \in watching)
    BY <2>2, <1>4, <1>0, ContinueFrame, StoreFrame DEF StoreRecord, AloneFrame
  <2>4. Doomed(a) => x.pre \/ told[a] = "recorded"
    BY <2>1, <2>2, <1>0 DEF CommitOK, DoomedOK
  <2>6. told[a] # "recorded" BY <2>2, <1>0 DEF CommitOK, UnstoredOK, Unstored
  <2> QED BY <2>1, <2>2, <2>3, <2>4, <2>5, <2>6, <1>m DEF Registering, Unstored
<1>5. CASE Install(a)
  <2> DEFINE x == [att[a] EXCEPT
                      !.pc = IF att[a].pre THEN "storeAgain" ELSE "generating"]
  <2>1. /\ x.pc \in {"storeAgain", "generating"} /\ x.pre = att[a].pre
        /\ x.persisted = att[a].persisted /\ x.outcome = att[a].outcome
    BY <1>0 DEF Attempt
  <2>2. Continue(a, x) /\ att[a].pc = "install" BY <1>5 DEF Install, At
  <2> HIDE DEF x
  <2>3. AloneFrame(a) BY <2>2, <1>5, ContinueFrame DEF Install, AloneFrame, TypeOK
  <2> QED BY <2>1, <2>2, <2>3, <1>5, <1>m DEF Install, Registering, Unstored
<1>6. CASE StoreAgain(a)
  <2> DEFINE x == [att[a] EXCEPT !.pc = "generating"]
             rec == NewRecord(a, TRUE)
  <2>1. /\ x.pc = "generating" /\ x.pre = att[a].pre
        /\ x.persisted = att[a].persisted /\ x.outcome = att[a].outcome
    BY <1>0 DEF Attempt
  <2>2. Continue(a, x) /\ att[a].pc = "storeAgain" /\ Store(RunOf[a], rec)
    BY <1>6 DEF StoreAgain, At
  <2>5. rec.cancelled BY DEF NewRecord
  <2> HIDE DEF x, rec
  <2>3. AloneFrame(a) /\ record'[RunOf[a]] = rec /\ (a \in watching' => a \in watching)
    BY <2>2, <1>6, <1>0, ContinueFrame, StoreFrame DEF StoreAgain, AloneFrame
  <2> QED BY <2>1, <2>2, <2>3, <2>5, <1>m DEF Registering, Unstored
<1>7. CASE RegisterFails(a)
  <2> DEFINE x == [ErrorFrame(att[a]) EXCEPT !.pc = "ended"]
  <2>1. /\ x.pc = "ended" /\ x.persisted = att[a].persisted /\ x.outcome = "error"
    BY <1>0 DEF ErrorFrame, Attempt
  <2>2. Continue(a, x) BY <1>7 DEF RegisterFails
  <2>3. att'[a] = x BY <2>2, ContinueFrame
  <2> HIDE DEF x
  <2>4. AloneFrame(a) BY <2>2, <1>7, ContinueFrame DEF RegisterFails, AloneFrame
  <2>5. CommitOK(a)'
    BY <2>1, <2>3, <1>0, <1>7, CommitLeaves DEF RegisterFails
  <2> QED BY <2>4, <2>5, <1>r, CommitOthers
<1> QED BY <1>1, <1>2, <1>3, <1>4, <1>5, <1>6, <1>7
     DEF Register, Start, ReadTombstone, DropTombstone, StoreRecord, Install,
         StoreAgain, RegisterFails

LEMMA ProducerCommit ==
    ASSUME OneAttemptPerRun, TypeInv, OwnerInv, CommitInv, NEW a \in Attempts,
           PollStops(a) \/ PollContinues(a) \/ ProducerFails(a)
    PROVE  CommitInv'
<1> USE TypeInvParts
<1>0. att[a] \in Attempt /\ RunOf[a] \in Runs /\ CommitOK(a)
  BY RunOfType DEF SoundAtts, CommitInv
<1>r. req' = req BY ProducerType
<1>b. Found(a) \in Attempts => Found(a) = a BY AloneReg
<1>1. CASE PollStops(a)
  <2> DEFINE x == [att[a] EXCEPT !.outcome = "stopped"]
  <2>1. x \in Attempt /\ x.persisted = att[a].persisted /\ x.outcome = "stopped"
    BY <1>0 DEF Attempt
  <2>2. Unregister(a, x) BY <1>1 DEF PollStops
  <2> HIDE DEF x
  <2>3. \A d \in Attempts \ {a} : reg'[d] = reg[d]
    BY <1>1, <1>b DEF PollStops, TypeOK
  <2> QED BY <2>1, <2>2, <2>3, <1>1, <1>r, LeavesAlone DEF PollStops
<1>2. CASE PollContinues(a)
  <2>1. PICK next \in {"generating", "begin"} :
            Continue(a, [att[a] EXCEPT !.pc = next])
    BY <1>2 DEF PollContinues
  <2> DEFINE x == [att[a] EXCEPT !.pc = next]
  <2>2. /\ x.pc = next /\ x.persisted = att[a].persisted
        /\ x.outcome = att[a].outcome
    BY <1>0 DEF Attempt
  <2>3. att'[a] = x /\ \A d \in Attempts \ {a} : att'[d] = att[d]
    BY <2>1, ContinueFrame
  <2> HIDE DEF x
  <2>4. att[a].pc = "generating" BY <1>2 DEF PollContinues, At
  <2>5. \A d \in Attempts \ {a} : reg'[d] = reg[d]
    BY <1>2, <1>b DEF PollContinues, TypeOK
  <2>6. AloneFrame(a) BY <2>3, <2>5, <1>2 DEF AloneFrame, PollContinues
  <2>7. BoundaryOK(a)' BY <2>2, <2>3 DEF BoundaryOK, Finalizing, Committing
  <2>8. LateOK(a)'
    BY <2>2, <2>3, <2>4, <1>0 DEF CommitOK, LateOK, Committing
  <2>9. UnstoredOK(a)' BY <2>2, <2>3 DEF UnstoredOK, Unstored
  <2>10. DoomedOK(a)'
    <3>1. Doomed(a)' <=> Doomed(a) BY <1>r, DoomKept, <2>6 DEF AloneFrame
    <3>2. record' = record /\ watching' = watching BY <1>2 DEF PollContinues
    <3> QED BY <2>2, <2>3, <3>1, <3>2, <1>0
         DEF CommitOK, DoomedOK, Committed, Committing
  <2> QED BY <2>6, <2>7, <2>8, <2>9, <2>10, <1>r, CommitOthers DEF CommitOK
<1>3. CASE ProducerFails(a)
  <2>1. /\ ErrorFrame(att[a]) \in Attempt
        /\ ErrorFrame(att[a]).persisted = att[a].persisted
        /\ ErrorFrame(att[a]).outcome = "error"
    BY <1>0, ErrorType, ErrorFields
  <2>2. Unregister(a, ErrorFrame(att[a])) BY <1>3 DEF ProducerFails
  <2> QED BY <2>1, <2>2, <1>3, <1>r, LeavesAlone DEF ProducerFails
<1> QED BY <1>1, <1>2, <1>3

\* begin_finalize gives up on its own registration.
LEMMA RefusedCommit ==
    ASSUME OneAttemptPerRun, TypeInv, OwnerInv, CommitInv, NEW a \in Attempts,
           NEW flag \in BOOLEAN, att[a].pc \in Finalizing, FinalizeRefused(a, flag),
           record' = record, tombstone' = tombstone, watching' = watching,
           told' = told, expiries' = expiries, req' = req
    PROVE  CommitInv'
<1> USE TypeInvParts
<1> DEFINE x == [att[a] EXCEPT !.outcome = "stopped", !.terminal = "open"]
<1>0. att[a] \in Attempt /\ att[a].held \in Attempts BY DEF SoundAtts, Sound
<1>1. x \in Attempt /\ x.persisted = att[a].persisted /\ x.outcome = "stopped"
  BY <1>0 DEF Attempt
<1>2. Unregister(a, x) BY DEF FinalizeRefused
<1>3. att[a].held = a BY <1>0, AloneReg
<1>4. \A d \in Attempts \ {a} : reg'[d] = reg[d]
  BY <1>3 DEF FinalizeRefused, TypeOK
<1> HIDE DEF x
<1> QED BY <1>1, <1>2, <1>4, LeavesAlone

LEMMA FinalizeCommit ==
    ASSUME OneAttemptPerRun, TypeInv, OwnerInv, CommitInv, NEW a \in Attempts,
           BeginFinalize(a) \/ WatchRecord(a) \/ ExecSucceeds(a) \/ ExecAborts(a)
             \/ FinalizeFails(a)
    PROVE  CommitInv'
<1> USE TypeInvParts
<1>0. att[a] \in Attempt /\ RunOf[a] \in Runs /\ CommitOK(a)
  BY RunOfType DEF SoundAtts, CommitInv
<1>r. req' = req BY FinalizeType
<1>b. Found(a) \in Attempts => Found(a) = a BY AloneReg
\* A step of commit_done that stays behind the boundary or crosses it.
<1>m. ASSUME NEW x, Continue(a, x), x.persisted = att[a].persisted,
             x.outcome = att[a].outcome, x.interrupted = "no",
             x.pc \in Finalizing => x.held = a,
             att[a].pc \in Finalizing \cup {"begin"},
             x.pc \in Finalizing \cup {"persist"},
             reg'[a].phase # "generating",
             x.pc = "persist" => ~Doomed(a),
             Doomed(a) => record' = record,
             a \in watching' => a \in watching \/ ~Doomed(a),
             AloneFrame(a)
      PROVE  CommitInv'
  <2>1. att'[a] = x BY <1>m, ContinueFrame
  <2>2. BoundaryOK(a)' BY <2>1, <1>m DEF BoundaryOK, Finalizing, Committing
  <2>3. LateOK(a)'
    BY <2>1, <1>m, <1>0 DEF CommitOK, LateOK, Committing, Finalizing
  <2>4. UnstoredOK(a)' BY <2>1, <1>m DEF UnstoredOK, Unstored, Finalizing
  <2>5. DoomedOK(a)'
    <3>1. Doomed(a)' <=> Doomed(a) BY <1>m, <1>r, DoomKept DEF AloneFrame
    <3>2. Doomed(a) => ~Committed(a)'
      BY <2>1, <1>m, <1>0 DEF CommitOK, DoomedOK, Committed, Committing, Finalizing
    <3>3. Doomed(a) => record'[RunOf[a]] = NoRecord \/ record'[RunOf[a]].cancelled
      BY <1>m, <1>0 DEF CommitOK, DoomedOK
    <3>4. Doomed(a) => a \notin watching' BY <1>m, <1>0 DEF CommitOK, DoomedOK
    <3> QED BY <2>1, <1>m, <3>1, <3>2, <3>3, <3>4 DEF DoomedOK, Finalizing
  <2> QED BY <2>2, <2>3, <2>4, <2>5, <1>m, <1>r, CommitOthers DEF CommitOK
<1>1. CASE BeginFinalize(a)
  <2> DEFINE b == Found(a)
             refused == b = NoAttempt \/ (b \in Attempts /\ reg[b].cancelled)
  <2>1. CASE refused
    <3> DEFINE x == [att[a] EXCEPT !.outcome = "stopped"]
    <3>1. Unregister(a, x) /\ reg' = reg BY <1>1, <2>1 DEF BeginFinalize
    <3>2. x \in Attempt /\ x.persisted = att[a].persisted /\ x.outcome = "stopped"
      BY <1>0 DEF Attempt
    <3> HIDE DEF x
    <3> QED BY <3>1, <3>2, <1>1, <1>r, LeavesAlone DEF BeginFinalize
  <2>2. CASE ~refused
    <3>1. b = a BY <2>2, <1>b, FoundType
    <3> DEFINE x == [att[a] EXCEPT !.pc = "watch", !.held = b, !.terminal = "finalizing"]
    <3>2. Continue(a, x) /\ reg' = [reg EXCEPT ![a].phase = "finalizing"]
          /\ att[a].pc = "begin" /\ att[a].interrupted = "no"
      BY <1>1, <2>2, <3>1 DEF BeginFinalize, At
    <3>3. /\ x.pc = "watch" /\ x.held = a /\ x.interrupted = att[a].interrupted
          /\ x.persisted = att[a].persisted /\ x.outcome = att[a].outcome
      BY <1>0, <3>1 DEF Attempt
    <3> HIDE DEF x
    <3>4. reg'[a].phase = "finalizing" /\ \A d \in Attempts \ {a} : reg'[d] = reg[d]
      BY <3>2 DEF TypeOK, Registration
    <3>5. AloneFrame(a) BY <3>2, <3>4, <1>1, ContinueFrame DEF BeginFinalize, AloneFrame
    <3> QED BY <3>2, <3>3, <3>4, <3>5, <1>1, <1>m DEF BeginFinalize, Finalizing
  <2> QED BY <2>1, <2>2
<1>2. CASE WatchRecord(a)
  <2> DEFINE rec == record[RunOf[a]]
             gone == rec = NoRecord
  <2>0. att[a].pc = "watch" /\ att[a].interrupted = "no"
    BY <1>2 DEF WatchRecord, At
  <2>1. CASE gone \/ (~gone /\ rec.cancelled)
    <3>1. FinalizeRefused(a, ~gone) /\ watching' = watching
      BY <1>2, <2>1 DEF WatchRecord
    <3> QED BY <3>1, <2>0, <1>2, <1>r, RefusedCommit DEF WatchRecord, Finalizing
  <2>2. CASE ~(gone \/ (~gone /\ rec.cancelled))
    <3> DEFINE x == [att[a] EXCEPT !.pc = "exec", !.seen = rec]
    <3>1. Continue(a, x) /\ reg' = reg /\ watching' = watching \cup {a}
      BY <1>2, <2>2 DEF WatchRecord
    <3>2. /\ x.pc = "exec" /\ x.held = att[a].held /\ x.interrupted = "no"
          /\ x.persisted = att[a].persisted /\ x.outcome = att[a].outcome
      BY <1>0, <2>0 DEF Attempt
    <3> HIDE DEF x
    <3>3. ~Doomed(a) BY <2>2, <1>0 DEF CommitOK, DoomedOK
    <3>4. att[a].held = a /\ reg[a].phase # "generating"
      BY <2>0, <1>0 DEF CommitOK, BoundaryOK, Finalizing
    <3>5. AloneFrame(a) BY <3>1, <1>2, ContinueFrame DEF WatchRecord, AloneFrame
    <3> QED BY <2>0, <3>1, <3>2, <3>3, <3>4, <3>5, <1>m DEF Finalizing
  <2> QED BY <2>1, <2>2
<1>3. CASE ExecSucceeds(a)
  <2> DEFINE x == [att[a] EXCEPT !.pc = "persist"]
             rec == [att[a].seen EXCEPT !.phase = "finalizing"]
  <2>0. att[a].pc = "exec" /\ att[a].interrupted = "no" /\ a \in watching
    BY <1>3 DEF ExecSucceeds, At, KeyUntouched
  <2>1. Continue(a, x) /\ Store(RunOf[a], rec) /\ reg' = reg
    BY <1>3 DEF ExecSucceeds
  <2>2. /\ x.pc = "persist" /\ x.interrupted = "no"
        /\ x.persisted = att[a].persisted /\ x.outcome = att[a].outcome
    BY <1>0, <2>0 DEF Attempt
  <2> HIDE DEF x, rec
  <2>3. ~Doomed(a) BY <2>0, <1>0 DEF CommitOK, DoomedOK
  <2>4. reg[a].phase # "generating"
    BY <2>0, <1>0 DEF CommitOK, BoundaryOK, Finalizing
  <2>5. AloneFrame(a)
    BY <2>1, <1>3, <1>0, ContinueFrame, StoreFrame DEF ExecSucceeds, AloneFrame
  <2> QED BY <2>0, <2>1, <2>2, <2>3, <2>4, <2>5, <1>m DEF Finalizing
<1>4. CASE ExecAborts(a)
  <2>0. att[a].pc = "exec" /\ att[a].interrupted = "no" /\ watching' = watching
        /\ record' = record
    BY <1>4 DEF ExecAborts, At
  <2>1. CASE att[a].tries + 1 = FinalizeTries
    <3>1. FinalizeRefused(a, FALSE) BY <1>4, <2>1 DEF ExecAborts
    <3> QED BY <3>1, <2>0, <1>4, <1>r, RefusedCommit DEF ExecAborts, Finalizing
  <2>2. CASE att[a].tries + 1 # FinalizeTries
    <3> DEFINE n == att[a].tries + 1
               x == [att[a] EXCEPT !.pc = "watch", !.tries = n]
    <3>1. Continue(a, x) /\ reg' = reg BY <1>4, <2>2 DEF ExecAborts
    <3> HIDE DEF n
    <3>2. /\ x.pc = "watch" /\ x.held = att[a].held /\ x.interrupted = "no"
          /\ x.persisted = att[a].persisted /\ x.outcome = att[a].outcome
      BY <1>0, <2>0 DEF Attempt
    <3> HIDE DEF x
    <3>4. att[a].held = a /\ reg[a].phase # "generating"
      BY <2>0, <1>0 DEF CommitOK, BoundaryOK, Finalizing
    <3>5. AloneFrame(a) BY <3>1, <1>4, ContinueFrame DEF ExecAborts, AloneFrame
    <3> QED BY <2>0, <3>1, <3>2, <3>4, <3>5, <1>m DEF Finalizing
  <2> QED BY <2>1, <2>2
<1>5. CASE FinalizeFails(a)
  <2>1. /\ ErrorFrame(att[a]) \in Attempt
        /\ ErrorFrame(att[a]).persisted = att[a].persisted
        /\ ErrorFrame(att[a]).outcome = "error"
    BY <1>0, ErrorType, ErrorFields
  <2>2. Unregister(a, ErrorFrame(att[a])) BY <1>5 DEF FinalizeFails
  <2> QED BY <2>1, <2>2, <1>5, <1>r, LeavesAlone DEF FinalizeFails
<1> QED BY <1>1, <1>2, <1>3, <1>4, <1>5

LEMMA CommittingCommit ==
    ASSUME OneAttemptPerRun, TypeInv, OwnerInv, CommitInv, NEW a \in Attempts,
           Persist(a) \/ PersistFails(a) \/ EmitDone(a) \/ TokenFails(a)
             \/ ReadForDone(a) \/ WriteDone(a) \/ MarkDoneFails(a)
    PROVE  CommitInv'
<1> USE TypeInvParts
<1>0. att[a] \in Attempt /\ RunOf[a] \in Runs /\ CommitOK(a)
  BY RunOfType DEF SoundAtts, CommitInv
<1>r. req' = req BY CommitType
<1>b. Found(a) \in Attempts => Found(a) = a BY AloneReg
<1>p. att[a].pc \in Committing
  BY DEF Persist, PersistFails, EmitDone, TokenFails, ReadForDone, WriteDone,
         MarkDoneFails, At, Committing
<1>c. Committed(a) /\ reg[a].phase # "generating" /\ att[a].interrupted # "cancel"
  BY <1>0, <1>p DEF Committed, CommitOK, BoundaryOK
<1>d. ~Doomed(a) BY <1>0, <1>c DEF CommitOK, DoomedOK
<1>e. /\ ErrorFrame(att[a]) \in Attempt
      /\ ErrorFrame(att[a]).persisted = att[a].persisted
      /\ ErrorFrame(att[a]).outcome = "error"
  BY <1>0, ErrorType, ErrorFields
<1>f. /\ [att[a] EXCEPT !.outcome = "completed"] \in Attempt
      /\ [att[a] EXCEPT !.outcome = "completed"].persisted = att[a].persisted
  BY <1>0 DEF Attempt
\* A step from one statement of the commit to the next.
<1>m. ASSUME NEW x, Continue(a, x), x.interrupted = att[a].interrupted,
             x.pc \in Committing, reg'[a].phase # "generating",
             AloneFrame(a)
      PROVE  CommitInv'
  <2>1. att'[a] = x BY <1>m, ContinueFrame
  <2>2. BoundaryOK(a)'
    BY <2>1, <1>m, <1>c DEF BoundaryOK, Finalizing, Committing
  <2>3. LateOK(a)' BY <2>1, <1>m DEF LateOK
  <2>4. UnstoredOK(a)' BY <2>1, <1>m DEF UnstoredOK, Unstored, Committing
  <2>5. DoomedOK(a)'
    BY <1>d, <1>m, <1>r, DoomKept DEF DoomedOK, AloneFrame
  <2> QED BY <2>2, <2>3, <2>4, <2>5, <1>m, <1>r, CommitOthers DEF CommitOK
<1>1. CASE Persist(a)
  <2> DEFINE x == [att[a] EXCEPT !.pc = "emit", !.persisted = TRUE]
  <2>1. Continue(a, x) BY <1>1 DEF Persist
  <2>2. x.pc = "emit" /\ x.interrupted = att[a].interrupted BY <1>0 DEF Attempt
  <2> HIDE DEF x
  <2>3. AloneFrame(a) BY <2>1, <1>1, ContinueFrame DEF Persist, AloneFrame
  <2> QED BY <2>1, <2>2, <2>3, <1>1, <1>c, <1>m DEF Persist, Committing
<1>2. CASE PersistFails(a)
  <2> DEFINE y == [att[a] EXCEPT !.terminal = "open"]
  <2>1. y \in Attempt /\ y.persisted = att[a].persisted BY <1>0 DEF Attempt
  <2>2. Unregister(a, ErrorFrame(y)) BY <1>2 DEF PersistFails
  <2> HIDE DEF y
  <2>3. /\ ErrorFrame(y) \in Attempt /\ ErrorFrame(y).outcome = "error"
        /\ ErrorFrame(y).persisted = att[a].persisted
    BY <2>1, ErrorType, ErrorFields
  <2> QED BY <2>2, <2>3, <1>2, <1>r, LeavesAlone DEF PersistFails
<1>3. CASE EmitDone(a)
  <2> DEFINE x == [att[a] EXCEPT !.pc = "doneRead", !.terminal = "done"]
             b == Found(a)
  <2>1. Continue(a, x) BY <1>3 DEF EmitDone
  <2>2. x.pc = "doneRead" /\ x.interrupted = att[a].interrupted
    BY <1>0 DEF Attempt
  <2> HIDE DEF x
  <2>3. reg' = reg \/ reg' = [reg EXCEPT ![a].phase = "done"]
    BY <1>3, <1>b DEF EmitDone
  <2>4. reg'[a].phase # "generating" /\ \A d \in Attempts \ {a} : reg'[d] = reg[d]
    <3>1. CASE reg' = reg BY <3>1, <1>c
    <3>2. CASE reg' = [reg EXCEPT ![a].phase = "done"]
      <4>1. reg'[a].phase = "done" BY <3>2 DEF TypeOK, Registration
      <4>2. \A d \in Attempts \ {a} : reg'[d] = reg[d] BY <3>2 DEF TypeOK
      <4> QED BY <4>1, <4>2
    <3> QED BY <2>3, <3>1, <3>2
  <2>5. AloneFrame(a) BY <2>1, <2>4, <1>3, ContinueFrame DEF EmitDone, AloneFrame
  <2> QED BY <2>1, <2>2, <2>4, <2>5, <1>m DEF Committing
<1>4. CASE TokenFails(a)
  <2>1. Unregister(a, ErrorFrame(att[a])) BY <1>4 DEF TokenFails
  <2> QED BY <2>1, <1>e, <1>4, <1>r, LeavesAlone DEF TokenFails
<1>5. CASE ReadForDone(a)
  <2> DEFINE rec == record[RunOf[a]]
  <2>1. CASE rec = NoRecord
    <3>1. Unregister(a, [att[a] EXCEPT !.outcome = "completed"])
      BY <1>5, <2>1 DEF ReadForDone
    <3> QED BY <3>1, <1>f, <1>c, <1>5, <1>r, LeavesAlone DEF ReadForDone
  <2>2. CASE rec # NoRecord
    <3> DEFINE x == [att[a] EXCEPT !.pc = "doneWrite", !.seen = rec]
    <3>1. Continue(a, x) BY <1>5, <2>2 DEF ReadForDone
    <3>2. x.pc = "doneWrite" /\ x.interrupted = att[a].interrupted
      BY <1>0 DEF Attempt
    <3> HIDE DEF x
    <3>3. AloneFrame(a) BY <3>1, <1>5, ContinueFrame DEF ReadForDone, AloneFrame
    <3> QED BY <3>1, <3>2, <3>3, <1>5, <1>c, <1>m DEF ReadForDone, Committing
  <2> QED BY <2>1, <2>2
<1>6. CASE WriteDone(a)
  <2> DEFINE rec == [att[a].seen EXCEPT !.phase = "done"]
  <2>1. Store(RunOf[a], rec)
        /\ Unregister(a, [att[a] EXCEPT !.outcome = "completed"])
    BY <1>6 DEF WriteDone
  <2> HIDE DEF rec
  <2>2. /\ \A r \in Runs \ {RunOf[a]} : record'[r] = record[r]
        /\ \A d \in Attempts : d \in watching' => d \in watching
    BY <2>1, <1>0, StoreFrame
  <2> QED BY <2>1, <2>2, <1>f, <1>c, <1>6, <1>r, LeavesAlone DEF WriteDone
<1>7. CASE MarkDoneFails(a)
  <2>1. Unregister(a, [att[a] EXCEPT !.outcome = "completed"])
    BY <1>7 DEF MarkDoneFails
  <2> QED BY <2>1, <1>f, <1>c, <1>7, <1>r, LeavesAlone DEF MarkDoneFails
<1> QED BY <1>1, <1>2, <1>3, <1>4, <1>5, <1>6, <1>7

LEMMA DeleteCommit ==
    ASSUME OneAttemptPerRun, TypeInv, OwnerInv, CommitInv, NEW a \in Attempts,
           DeleteRecord(a) \/ Interrupted(a) \/ Disconnect(a)
    PROVE  CommitInv'
<1> USE TypeInvParts
<1>0. att[a] \in Attempt /\ RunOf[a] \in Runs /\ CommitOK(a)
  BY RunOfType DEF SoundAtts, CommitInv
<1>r. req' = req BY CommitType, InterruptType
<1>1. CASE DeleteRecord(a)
  <2> DEFINE x == [att[a] EXCEPT !.pc = "ended"]
  <2>1. Continue(a, x) /\ att[a].pc = "delete" BY <1>1 DEF DeleteRecord, At
  <2>2. x.pc = "ended" /\ x.persisted = att[a].persisted /\ x.outcome = att[a].outcome
    BY <1>0 DEF Attempt
  <2>3. att'[a] = x BY <2>1, ContinueFrame
  <2> HIDE DEF x
  <2>4. Store(RunOf[a], NoRecord) \/ (record' = record /\ watching' = watching)
    BY <1>1 DEF DeleteRecord
  <2>5. /\ record'[RunOf[a]] \in {record[RunOf[a]], NoRecord}
        /\ \A r \in Runs \ {RunOf[a]} : record'[r] = record[r]
        /\ \A d \in Attempts : d \in watching' => d \in watching
    BY <2>4, <1>0, StoreFrame
  <2>6. AloneFrame(a) BY <2>1, <2>5, <1>1, ContinueFrame DEF DeleteRecord, AloneFrame
  <2>7. CommitOK(a)'
    BY <2>2, <2>3, <2>5, <1>0, <1>1, <1>r, CommitLeaves DEF DeleteRecord, Committed
  <2> QED BY <2>6, <2>7, <1>r, CommitOthers
<1>2. CASE Interrupted(a)
  <2> DEFINE y == [att[a] EXCEPT !.interrupted = "no", !.outcome = "stopped",
                      !.terminal = IF att[a].pc = "persist" THEN "open" ELSE @]
  <2>1. y \in Attempt /\ y.persisted = att[a].persisted /\ y.outcome = "stopped"
    BY <1>0 DEF Attempt
  <2>3. CASE att[a].pc \in Registering \cup {"delete"}
    <3> DEFINE x == [y EXCEPT !.pc = "ended"]
    <3>1. Continue(a, x) BY <1>2, <2>3 DEF Interrupted
    <3> HIDE DEF y
    <3>2. x.pc = "ended" /\ x.persisted = att[a].persisted /\ x.outcome = "stopped"
      BY <2>1 DEF Attempt
    <3>3. att'[a] = x BY <3>1, ContinueFrame
    <3> HIDE DEF x
    <3>4. AloneFrame(a) BY <3>1, <1>2, ContinueFrame DEF Interrupted, AloneFrame
    <3>5. CommitOK(a)'
      BY <3>2, <3>3, <1>0, <1>2, <1>r, CommitLeaves DEF Interrupted
    <3> QED BY <3>4, <3>5, <1>r, CommitOthers
  <2>4. CASE att[a].pc \notin Registering \cup {"delete"}
    <3>1. Unregister(a, y) BY <1>2, <2>4 DEF Interrupted
    <3> HIDE DEF y
    <3> QED BY <2>1, <3>1, <1>2, <1>r, LeavesAlone DEF Interrupted
  <2> QED BY <2>3, <2>4
<1>3. CASE Disconnect(a)
  <2> DEFINE x == [att[a] EXCEPT !.interrupted = "disconnect"]
  <2>1. Continue(a, x) BY <1>3 DEF Disconnect
  <2>2. /\ x.pc = att[a].pc /\ x.persisted = att[a].persisted
        /\ x.outcome = att[a].outcome /\ x.held = att[a].held
        /\ x.pre = att[a].pre /\ x.interrupted = "disconnect"
    BY <1>0 DEF Attempt
  <2>3. att'[a] = x BY <2>1, ContinueFrame
  <2> HIDE DEF x
  <2>4. AloneFrame(a) BY <2>1, <1>3, ContinueFrame DEF Disconnect, AloneFrame
  <2>5. /\ reg' = reg /\ record' = record /\ watching' = watching
        /\ tombstone' = tombstone /\ told' = told
    BY <1>3 DEF Disconnect
  <2>6. /\ Doomed(a)' <=> Doomed(a)
        /\ NobodyStores(RunOf[a])' <=> NobodyStores(RunOf[a])
    BY <1>3, <1>r, DoomKept DEF Disconnect
  <2>7. BoundaryOK(a)' BY <2>2, <2>3, <2>5, <1>0 DEF CommitOK, BoundaryOK
  <2>8. LateOK(a)' BY <2>2, <2>3, <1>0 DEF CommitOK, LateOK
  <2>9. UnstoredOK(a)' BY <2>2, <2>3, <2>5, <2>6, <1>0 DEF CommitOK, UnstoredOK
  <2>10. DoomedOK(a)'
    <3>1. Committed(a)' <=> Committed(a) BY <2>2, <2>3 DEF Committed
    <3>2. DoomedOK(a) BY <1>0 DEF CommitOK
    <3> QED BY <2>2, <2>3, <2>5, <2>6, <3>1, <3>2 DEF DoomedOK
  <2> QED BY <2>4, <2>7, <2>8, <2>9, <2>10, <1>r, CommitOthers DEF CommitOK
<1> QED BY <1>1, <1>2, <1>3

\* ApplyLocalCancel reaches a task before the boundary only.
LEMMA LocalCancelCommit ==
    ASSUME TypeOK, SoundAtts, OwnerInv, NEW i \in Instances, NEW r \in Runs,
           ApplyLocalCancel(i, r), NEW a \in Attempts
    PROVE  /\ reg'[a].phase = reg[a].phase
           /\ att'[a].pc = att[a].pc /\ att'[a].persisted = att[a].persisted
           /\ att'[a].outcome = att[a].outcome /\ att'[a].held = att[a].held
           /\ att'[a].pre = att[a].pre
           /\ att'[a].interrupted = "cancel" =>
                  att[a].interrupted = "cancel" \/ reg[a].phase = "generating"
<1> DEFINE b == localRuns[i][r]
<1>0. att[a] \in Attempt BY DEF SoundAtts
<1>1. reg' = reg \/ (b \in Attempts /\ reg' = [reg EXCEPT ![b].cancelled = TRUE])
  BY DEF ApplyLocalCancel
<1>2. reg'[a].phase = reg[a].phase
  <2>1. CASE reg' = reg BY <2>1
  <2>2. CASE b \in Attempts /\ reg' = [reg EXCEPT ![b].cancelled = TRUE]
    <3>1. reg'[a] = reg[a] \/ reg'[a] = [reg[a] EXCEPT !.cancelled = TRUE]
      BY <2>2 DEF TypeOK
    <3>2. reg[a] \in Registration BY DEF TypeOK
    <3>3. [reg[a] EXCEPT !.cancelled = TRUE].phase = reg[a].phase
      BY <3>2 DEF Registration
    <3> QED BY <3>1, <3>3
  <2> QED BY <1>1, <2>1, <2>2
<1>3. \/ att'[a] = att[a]
      \/ /\ att'[a] = [att[a] EXCEPT !.interrupted = "cancel"]
         /\ reg[a].phase = "generating"
  BY DEF ApplyLocalCancel, Interruptible, SoundAtts
<1>4. CASE att'[a] = att[a] BY <1>4, <1>2
<1>5. CASE /\ att'[a] = [att[a] EXCEPT !.interrupted = "cancel"]
           /\ reg[a].phase = "generating"
  BY <1>5, <1>2, <1>0 DEF Attempt
<1> QED BY <1>3, <1>4, <1>5

\* A cancel request that touches neither Redis nor the history variable of an
\* attempt; all it may do is to interrupt one before the boundary.
LEMMA CommitTouched ==
    ASSUME NEW a \in Attempts, CommitOK(a),
           reg'[a].phase = reg[a].phase,
           att'[a].pc = att[a].pc, att'[a].persisted = att[a].persisted,
           att'[a].outcome = att[a].outcome, att'[a].held = att[a].held,
           att'[a].pre = att[a].pre,
           att'[a].interrupted = "cancel" =>
               att[a].interrupted = "cancel" \/ reg[a].phase = "generating",
           record' = record, tombstone' = tombstone, watching' = watching,
           told' = told, Doomed(a)' => Doomed(a),
           att[a].pc \in Unstored /\ NobodyStores(RunOf[a]) => NobodyStores(RunOf[a])'
    PROVE  CommitOK(a)'
<1>1. BoundaryOK(a)' BY DEF CommitOK, BoundaryOK
<1>2. LateOK(a)' BY DEF CommitOK, LateOK
<1>3. UnstoredOK(a)' BY DEF CommitOK, UnstoredOK
<1>4. DoomedOK(a)'
  <2>1. Committed(a)' <=> Committed(a) BY DEF Committed
  <2>2. DoomedOK(a) BY DEF CommitOK
  <2> QED BY <2>1, <2>2 DEF DoomedOK
<1> QED BY <1>1, <1>2, <1>3, <1>4 DEF CommitOK

LEMMA AloneAsker ==
    ASSUME SoundReqs, Grow, NEW r
    PROVE  AskedByOwnerAlone(r)' <=> AskedByOwnerAlone(r)
BY DEF Grow, AskedByOwnerAlone

\* A request stores nothing it was not about to store.
LEMMA StoringKept ==
    ASSUME SoundReqs, NEW c \in Cancels, NEW y \in Request,
           req' = [req EXCEPT ![c] = y], y.run = req[c].run, NEW r,
           NobodyStores(r),
           y.pc \in {"store", "apply"} => req[c].pc \in {"store", "apply"}
    PROVE  NobodyStores(r)'
BY DEF SoundReqs, NobodyStores

LEMMA AnswerStores ==
    ASSUME SoundReqs, NEW c \in Cancels, NEW ans \in {"true", "false", "raised"},
           Answer(c, ans), NEW r, NobodyStores(r)
    PROVE  NobodyStores(r)'
<1> DEFINE y == [req[c] EXCEPT !.pc = "answered", !.answer = ans]
<1>0. req[c] \in Request BY DEF SoundReqs
<1>1. req' = [req EXCEPT ![c] = y] BY DEF Answer, SoundReqs
<1>2. y \in Request /\ y.run = req[c].run /\ y.pc = "answered"
  BY <1>0 DEF Request
<1> HIDE DEF y
<1> QED BY <1>1, <1>2, StoringKept

LEMMA PcStores ==
    ASSUME SoundReqs, NEW c \in Cancels, NEW p \in {"read", "tombstone", "apply"},
           req' = [req EXCEPT ![c].pc = p], p = "apply" => req[c].pc = "store",
           NEW r, NobodyStores(r)
    PROVE  NobodyStores(r)'
<1> DEFINE y == [req[c] EXCEPT !.pc = p]
<1>0. req[c] \in Request BY DEF SoundReqs
<1>1. req' = [req EXCEPT ![c] = y] BY DEF SoundReqs
<1>2. y \in Request /\ y.run = req[c].run /\ y.pc = p
  BY <1>0 DEF Request
<1> HIDE DEF y
<1> QED BY <1>1, <1>2, StoringKept

LEMMA RequestGrows ==
    ASSUME TypeInv, NEW c \in Cancels,
           StartCancel(c) \/ CancelStep(c) \/ CancelFails(c)
    PROVE  Grow
<1>0. SoundReqs /\ req[c] \in Request BY TypeInvParts DEF SoundReqs
<1>1. ASSUME NEW ans, Answer(c, ans) PROVE Grow
  BY <1>0, <1>1 DEF Answer, SoundReqs, Grow, Request
<1>2. ASSUME NEW p, NEW s, req' = [req EXCEPT ![c].pc = p, ![c].seen = s],
             p \notin {"idle", "read"}
      PROVE  Grow
  BY <1>0, <1>2 DEF SoundReqs, Grow, Request
<1>3. ASSUME NEW p, req' = [req EXCEPT ![c].pc = p],
             p \notin {"idle", "read"} \/ req[c].pc = "idle"
      PROVE  Grow
  BY <1>0, <1>3 DEF SoundReqs, Grow, Request
<1>4. CASE StartCancel(c) BY <1>4, <1>3 DEF StartCancel
<1>5. CASE ReadForCancel(c)
  <2>1. \/ Answer(c, "false") \/ Answer(c, "true")
        \/ req' = [req EXCEPT ![c].pc = "tombstone"]
        \/ req' = [req EXCEPT ![c].pc = "store", ![c].seen = record[req[c].run]]
    BY <1>5 DEF ReadForCancel
  <2> QED BY <2>1, <1>1, <1>2, <1>3
<1>6. CASE StoreTombstone(c) BY <1>6, <1>1 DEF StoreTombstone
<1>7. CASE StoreCancelled(c) BY <1>7, <1>3 DEF StoreCancelled
<1>8. CASE ApplyCancel(c) BY <1>8, <1>1 DEF ApplyCancel
<1>9. CASE CancelFails(c) BY <1>9, <1>1 DEF CancelFails
<1> QED BY <1>4, <1>5, <1>6, <1>7, <1>8, <1>9 DEF CancelStep

LEMMA RequestCommit ==
    ASSUME OneAttemptPerRun, TypeInv, OwnerInv, CommitInv, NEW c \in Cancels,
           StartCancel(c) \/ CancelStep(c) \/ CancelFails(c)
    PROVE  CommitInv'
<1> USE TypeInvParts
<1> DEFINE q == req[c]
<1>0. q \in Request /\ q.run \in Runs /\ q.user \in Users /\ q.inst \in Instances
      /\ OwnedRequest(q)
  BY DEF SoundReqs, Request, OwnerInv, OwnReq
<1>g. Grow BY RequestGrows
<1>d. ASSUME NEW a \in Attempts, told'[a] = told[a], expiries' = expiries
      PROVE  Doomed(a)' <=> Doomed(a)
  BY <1>d, <1>g, AloneAsker DEF Doomed
\* A step that leaves Redis and the history alone.
<1>m. ASSUME record' = record, tombstone' = tombstone, watching' = watching,
             told' = told, expiries' = expiries,
             (reg' = reg /\ att' = att) \/ ApplyLocalCancel(q.inst, q.run),
             \A a \in Attempts : att[a].pc \in Unstored /\ NobodyStores(RunOf[a])
                                     => NobodyStores(RunOf[a])'
      PROVE  CommitInv'
  <2>1. ASSUME NEW a \in Attempts PROVE CommitOK(a)'
    <3>1. /\ reg'[a].phase = reg[a].phase
          /\ att'[a].pc = att[a].pc /\ att'[a].persisted = att[a].persisted
          /\ att'[a].outcome = att[a].outcome /\ att'[a].held = att[a].held
          /\ att'[a].pre = att[a].pre
          /\ att'[a].interrupted = "cancel" =>
                 att[a].interrupted = "cancel" \/ reg[a].phase = "generating"
      BY <1>m, <1>0, LocalCancelCommit
    <3>2. Doomed(a)' => Doomed(a) BY <1>m, <1>d
    <3>3. CommitOK(a) BY DEF CommitInv
    <3> QED BY <3>1, <3>2, <3>3, <1>m, CommitTouched
  <2> QED BY <2>1 DEF CommitInv
<1>1. CASE StartCancel(c)
  <2>1. \A r : NobodyStores(r) => NobodyStores(r)'
    BY <1>1, PcStores DEF StartCancel
  <2> QED BY <2>1, <1>1, <1>m DEF StartCancel
<1>2. CASE ReadForCancel(c)
  <2>1. /\ record' = record /\ tombstone' = tombstone /\ watching' = watching
        /\ told' = told /\ expiries' = expiries
        /\ (reg' = reg /\ att' = att) \/ ApplyLocalCancel(q.inst, q.run)
    BY <1>2 DEF ReadForCancel
  <2>2. ASSUME NEW a \in Attempts, att[a].pc \in Unstored, NobodyStores(RunOf[a])
        PROVE  NobodyStores(RunOf[a])'
    <3>1. record[RunOf[a]] = NoRecord
      BY <2>2 DEF CommitInv, CommitOK, UnstoredOK
    <3>2. \/ Answer(c, "false") \/ Answer(c, "true")
          \/ req' = [req EXCEPT ![c].pc = "tombstone"]
          \/ /\ req' = [req EXCEPT ![c].pc = "store", ![c].seen = record[q.run]]
             /\ record[q.run] # NoRecord
      BY <1>2 DEF ReadForCancel
    <3>3. CASE /\ req' = [req EXCEPT ![c].pc = "store", ![c].seen = record[q.run]]
               /\ record[q.run] # NoRecord
      <4>1. q.run # RunOf[a] BY <3>1, <3>3
      <4>2. req'[c].run = q.run BY <1>g DEF Grow
      <4>3. \A d \in Cancels \ {c} : req'[d] = req[d] BY <3>3 DEF SoundReqs
      <4> QED BY <4>1, <4>2, <4>3, <2>2 DEF NobodyStores
    <3> QED BY <3>2, <3>3, <2>2, AnswerStores, PcStores
  <2> QED BY <2>1, <2>2, <1>m
<1>3. CASE StoreTombstone(c)
  <2>1. /\ Answer(c, "true") /\ tombstone' = [tombstone EXCEPT ![q.run] = q.user]
        /\ (q.user = UserOf[q.run] => NoteCancel(q.run, TRUE))
        /\ (q.user # UserOf[q.run] => told' = told)
        /\ record' = record /\ reg' = reg /\ att' = att /\ watching' = watching
        /\ expiries' = expiries /\ q.pc = "tombstone"
    BY <1>3 DEF StoreTombstone
  <2>s. \A r : NobodyStores(r) => NobodyStores(r)' BY <2>1, AnswerStores
  <2>2. ASSUME NEW a \in Attempts PROVE CommitOK(a)'
    <3>0. CommitOK(a) /\ RunOf[a] \in Runs BY RunOfType DEF CommitInv
    <3>1. BoundaryOK(a)' BY <2>1, <3>0 DEF CommitOK, BoundaryOK
    <3>2. LateOK(a)' BY <2>1, <3>0 DEF CommitOK, LateOK
    <3>t. \/ told'[a] = told[a]
          \/ /\ q.user = UserOf[q.run] /\ RunOf[a] = q.run /\ told[a] = "never"
             /\ told'[a] \in {"too late", "after read", "before read"}
             /\ att[a].pc \notin Committing \cup {"delete", "ended"}
             /\ told'[a] = "before read" => att[a].pc \in {"idle", "readTombstone"}
          \/ told'[a] = "too late"
      BY <2>1 DEF NoteCancel, TypeOK
    <3>3. UnstoredOK(a)'
      BY <2>1, <2>s, <3>0, <3>t DEF CommitOK, UnstoredOK
    <3>4. DoomedOK(a)'
      <4>1. CASE told'[a] = told[a]
        <5>1. Doomed(a)' <=> Doomed(a) BY <4>1, <2>1, <1>d
        <5>2. Committed(a)' <=> Committed(a) BY <2>1 DEF Committed
        <5>3. DoomedOK(a) BY <3>0 DEF CommitOK
        <5>4. ASSUME Doomed(a), att[a].pc \in {"idle", "readTombstone"}
              PROVE  tombstone'[RunOf[a]] = UserOf[RunOf[a]]
          <6>1. told[a] # "recorded"
            BY <5>4, <3>0 DEF CommitOK, UnstoredOK, Unstored
          <6>2. AskedByOwnerAlone(RunOf[a]) BY <5>4, <6>1 DEF Doomed
          <6>3. q.run = RunOf[a] => q.user = UserOf[RunOf[a]]
            BY <6>2 DEF AskedByOwnerAlone
          <6>4. tombstone[RunOf[a]] = UserOf[RunOf[a]]
            BY <5>3, <5>4 DEF DoomedOK
          <6> QED BY <6>3, <6>4, <2>1, <3>0 DEF TypeOK
        <5> QED BY <4>1, <5>1, <5>2, <5>3, <5>4, <2>1 DEF DoomedOK
      <4>2. CASE told'[a] \in {"too late", "after read"}
        BY <4>2 DEF DoomedOK, Doomed
      <4>3. CASE /\ told'[a] = "before read" /\ att[a].pc \in {"idle", "readTombstone"}
                 /\ q.user = UserOf[q.run] /\ RunOf[a] = q.run
        <5>1. tombstone'[RunOf[a]] = UserOf[RunOf[a]]
          BY <4>3, <2>1, <3>0 DEF TypeOK
        <5>2. ~att[a].persisted /\ att[a].outcome = "none"
          BY <4>3, <3>0 DEF CommitOK, LateOK, Committing
        <5>3. record[RunOf[a]] = NoRecord /\ a \notin watching
          BY <4>3, <3>0 DEF CommitOK, UnstoredOK, Unstored
        <5>4. ~Committed(a)' BY <2>1, <4>3, <5>2 DEF Committed, Committing
        <5> QED BY <2>1, <4>3, <5>1, <5>3, <5>4 DEF DoomedOK
      <4> QED BY <3>t, <4>1, <4>2, <4>3
    <3> QED BY <3>1, <3>2, <3>3, <3>4 DEF CommitOK
  <2> QED BY <2>2 DEF CommitInv
<1>4. CASE StoreCancelled(c)
  <2> DEFINE rec == [q.seen EXCEPT !.cancelled = TRUE]
  <2>1. /\ Store(q.run, rec) /\ req' = [req EXCEPT ![c].pc = "apply"]
        /\ NoteCancel(q.run, FALSE) /\ tombstone' = tombstone
        /\ reg' = reg /\ att' = att /\ expiries' = expiries /\ q.pc = "store"
    BY <1>4 DEF StoreCancelled
  <2>r. rec.cancelled
    <3>1. q.seen \in Record BY <2>1 DEF SoundReqs
    <3> QED BY <3>1 DEF Record
  <2> HIDE DEF rec
  <2>s. \A r : NobodyStores(r) => NobodyStores(r)' BY <2>1, PcStores
  <2>f. /\ record'[q.run] = rec /\ \A s \in Runs \ {q.run} : record'[s] = record[s]
        /\ \A d \in Attempts : d \in watching' => d \in watching /\ RunOf[d] # q.run
    BY <2>1, <1>0, StoreFrame
  <2>2. ASSUME NEW a \in Attempts PROVE CommitOK(a)'
    <3>0. CommitOK(a) /\ RunOf[a] \in Runs BY RunOfType DEF CommitInv
    <3>1. CASE RunOf[a] # q.run
      <4>1. told'[a] = told[a] BY <3>1, <2>1 DEF NoteCancel
      <4>2. Doomed(a)' => Doomed(a) BY <4>1, <2>1, <1>d
      <4>3. record'[RunOf[a]] = record[RunOf[a]] BY <3>0, <3>1, <2>f
      <4> QED BY <3>0, <4>1, <4>2, <4>3, <2>1, <2>s, <2>f, CommitApart
    <3>2. CASE RunOf[a] = q.run
      <4>1. att[a].pc \notin Unstored
        BY <3>0, <3>2, <2>1 DEF CommitOK, UnstoredOK, NobodyStores
      <4>2. BoundaryOK(a)' BY <2>1, <3>0 DEF CommitOK, BoundaryOK
      <4>3. LateOK(a)' BY <2>1, <3>0 DEF CommitOK, LateOK
      <4>4. UnstoredOK(a)' BY <2>1, <4>1 DEF UnstoredOK
      <4>5. DoomedOK(a)'
        <5>1. \/ told'[a] = told[a]
              \/ told'[a] = "too late"
              \/ /\ told'[a] = "recorded" /\ told[a] = "never"
                 /\ att[a].pc \notin Committing \cup {"delete", "ended"}
          BY <2>1, <3>2 DEF NoteCancel
        <5>2. CASE told'[a] = "too late" BY <5>2 DEF DoomedOK, Doomed
        <5>3. CASE told'[a] = told[a]
          <6>1. Doomed(a)' <=> Doomed(a) BY <5>3, <2>1, <1>d
          <6>2. Committed(a)' <=> Committed(a) BY <2>1 DEF Committed
          <6>3. DoomedOK(a) BY <3>0 DEF CommitOK
          <6>4. record'[RunOf[a]].cancelled /\ a \notin watching'
            BY <2>f, <2>r, <3>2
          <6> QED BY <5>3, <6>1, <6>2, <6>3, <6>4, <2>1 DEF DoomedOK
        <5>4. CASE /\ told'[a] = "recorded"
                   /\ att[a].pc \notin Committing \cup {"delete", "ended"}
          <6>1. ~att[a].persisted /\ att[a].outcome = "none"
            BY <5>4, <3>0 DEF CommitOK, LateOK
          <6>2. ~Committed(a)' BY <2>1, <5>4, <6>1 DEF Committed
          <6>3. record'[RunOf[a]].cancelled /\ a \notin watching'
            BY <2>f, <2>r, <3>2
          <6> QED BY <2>1, <4>1, <5>4, <6>2, <6>3 DEF DoomedOK, Unstored
        <5> QED BY <5>1, <5>2, <5>3, <5>4
      <4> QED BY <4>2, <4>3, <4>4, <4>5 DEF CommitOK
    <3> QED BY <3>1, <3>2
  <2> QED BY <2>2 DEF CommitInv
<1>5. CASE ApplyCancel(c)
  <2>1. /\ Answer(c, "true")
        /\ (reg' = reg /\ att' = att) \/ ApplyLocalCancel(q.inst, q.run)
        /\ record' = record /\ tombstone' = tombstone /\ watching' = watching
        /\ told' = told /\ expiries' = expiries
    BY <1>5 DEF ApplyCancel
  <2>2. \A r : NobodyStores(r) => NobodyStores(r)' BY <2>1, AnswerStores
  <2> QED BY <2>1, <2>2, <1>m
<1>6. CASE CancelFails(c)
  <2>1. \A r : NobodyStores(r) => NobodyStores(r)'
    BY <1>6, AnswerStores DEF CancelFails
  <2> QED BY <2>1, <1>6, <1>m DEF CancelFails
<1> QED BY <1>1, <1>2, <1>3, <1>4, <1>5, <1>6 DEF CancelStep

LEMMA RedisCommit ==
    ASSUME OneAttemptPerRun, TypeInv, OwnerInv, CommitInv,
           \/ \E i \in Instances : Deliver(i) \/ Lose(i)
           \/ \E r \in Runs : Expire(r)
    PROVE  CommitInv'
<1> USE TypeInvParts
<1>r. req' = req BY RedisType
<1>1. ASSUME NEW i \in Instances, Deliver(i) PROVE CommitInv'
  <2>1. PICK r \in channel[i] : ApplyLocalCancel(i, r) BY <1>1 DEF Deliver
  <2>2. r \in Runs BY DEF TypeOK
  <2>3. ASSUME NEW a \in Attempts PROVE CommitOK(a)'
    <3>1. Doomed(a)' => Doomed(a) BY <1>1, <1>r, DoomKept DEF Deliver
    <3>2. NobodyStores(RunOf[a]) => NobodyStores(RunOf[a])'
      BY <1>r DEF NobodyStores
    <3>3. CommitOK(a) BY DEF CommitInv
    <3>4. /\ record' = record /\ tombstone' = tombstone /\ watching' = watching
          /\ told' = told
      BY <1>1 DEF Deliver
    <3> QED BY <2>1, <2>2, <3>1, <3>2, <3>3, <3>4, LocalCancelCommit, CommitTouched
  <2> QED BY <2>3 DEF CommitInv
<1>2. ASSUME NEW i \in Instances, Lose(i) PROVE CommitInv'
  <2>1. ASSUME NEW a \in Attempts PROVE CommitOK(a)'
    <3>1. Doomed(a)' => Doomed(a) BY <1>2, <1>r, DoomKept DEF Lose
    <3>2. NobodyStores(RunOf[a]) => NobodyStores(RunOf[a])'
      BY <1>r DEF NobodyStores
    <3>3. CommitOK(a) BY DEF CommitInv
    <3> QED BY <1>2, <3>1, <3>2, <3>3, CommitApart DEF Lose
  <2> QED BY <2>1 DEF CommitInv
<1>3. ASSUME NEW r \in Runs, Expire(r) PROVE CommitInv'
  <2>0. /\ att' = att /\ reg' = reg /\ told' = told
        /\ expiries' = expiries + 1
    BY <1>3 DEF Expire
  <2>e. expiries \in 0..MaxExpiries BY DEF TypeOK
  <2>1. \/ Store(r, NoRecord) /\ tombstone' = tombstone
        \/ record' = record /\ watching' = watching
    BY <1>3 DEF Expire
  <2>2. /\ \A s \in Runs : record'[s] \in {record[s], NoRecord}
        /\ \A d \in Attempts : d \in watching' => d \in watching
    BY <2>1, StoreFrame
  <2>3. ASSUME NEW a \in Attempts PROVE CommitOK(a)'
    <3>0. CommitOK(a) /\ RunOf[a] \in Runs BY RunOfType DEF CommitInv
    <3>1. expiries' # 0 BY <2>0, <2>e
    <3>2. Doomed(a)' => told[a] = "recorded" BY <3>1, <2>0 DEF Doomed
    <3>3. told[a] = "recorded" =>
             Doomed(a) /\ att[a].pc \notin Unstored
      BY <3>0 DEF Doomed, CommitOK, UnstoredOK
    <3>4. BoundaryOK(a)' BY <2>0, <3>0 DEF CommitOK, BoundaryOK
    <3>5. LateOK(a)' BY <2>0, <3>0 DEF CommitOK, LateOK
    <3>6. UnstoredOK(a)'
      <4>1. att[a].pc \in Unstored =>
               record[RunOf[a]] = NoRecord /\ NobodyStores(RunOf[a])
               /\ told[a] # "recorded" /\ a \notin watching
        BY <3>0 DEF CommitOK, UnstoredOK
      <4>2. NobodyStores(RunOf[a])' <=> NobodyStores(RunOf[a])
        BY <1>r DEF NobodyStores
      <4>3. record'[RunOf[a]] \in {record[RunOf[a]], NoRecord}
            /\ (a \in watching' => a \in watching)
        BY <2>2, <3>0
      <4> QED BY <2>0, <4>1, <4>2, <4>3 DEF UnstoredOK
    <3>7. DoomedOK(a)'
      <4>1. Committed(a)' <=> Committed(a) BY <2>0 DEF Committed
      <4>2. Doomed(a)' => ~Committed(a) /\ a \notin watching
                          /\ (record[RunOf[a]] = NoRecord \/ record[RunOf[a]].cancelled)
        BY <3>0, <3>2, <3>3 DEF CommitOK, DoomedOK
      <4> QED BY <2>0, <2>2, <3>0, <3>2, <3>3, <4>1, <4>2 DEF DoomedOK, Unstored
    <3> QED BY <3>4, <3>5, <3>6, <3>7 DEF CommitOK
  <2> QED BY <2>3 DEF CommitInv
<1> QED BY <1>1, <1>2, <1>3

LEMMA CommitInvInit == Init => CommitInv
<1> SUFFICES ASSUME Init, NEW a \in Attempts PROVE CommitOK(a) BY DEF CommitInv
<1>1. /\ att[a].pc = "idle" /\ att[a].interrupted = "no" /\ ~att[a].persisted
      /\ att[a].outcome = "none" /\ told[a] = "never" /\ watching = {}
      /\ record[RunOf[a]] = NoRecord
  BY RunOfType DEF Init, IdleAttempt
<1>2. \A c \in Cancels : req[c].pc = "idle" BY DEF Init
<1>3. BoundaryOK(a) BY <1>1 DEF BoundaryOK, Finalizing, Committing
<1>4. LateOK(a) BY <1>1 DEF LateOK
<1>5. UnstoredOK(a) BY <1>1, <1>2 DEF UnstoredOK, NobodyStores
<1>6. DoomedOK(a) BY <1>1 DEF DoomedOK, Doomed
<1> QED BY <1>3, <1>4, <1>5, <1>6 DEF CommitOK

LEMMA CommitInvStep ==
    ASSUME OneAttemptPerRun
    PROVE  TypeInv /\ OwnerInv /\ CommitInv /\ [Next]_vars => CommitInv'
<1> SUFFICES ASSUME TypeInv, OwnerInv, CommitInv, [Next]_vars PROVE CommitInv'
  OBVIOUS
<1>1. ASSUME NEW a \in Attempts,
             Register(a) \/ PollStops(a) \/ PollContinues(a) \/ Finish(a)
               \/ Fails(a) \/ Interrupted(a) \/ Disconnect(a)
      PROVE  CommitInv'
  BY <1>1, RegisterCommit, ProducerCommit, FinalizeCommit, CommittingCommit,
     DeleteCommit
     DEF Finish, Fails
<1>2. ASSUME NEW c \in Cancels, StartCancel(c) \/ CancelStep(c) \/ CancelFails(c)
      PROVE  CommitInv'
  BY <1>2, RequestCommit
<1>3. ASSUME \/ \E i \in Instances : Deliver(i) \/ Lose(i)
             \/ \E r \in Runs : Expire(r)
      PROVE  CommitInv'
  BY <1>3, RedisCommit
<1>4. CASE UNCHANGED vars
  <2>1. ASSUME NEW a \in Attempts PROVE CommitOK(a)'
    <3>1. CommitOK(a) BY DEF CommitInv
    <3>2. Doomed(a)' => Doomed(a)
          /\ (NobodyStores(RunOf[a]) => NobodyStores(RunOf[a])')
      BY <1>4, DoomKept DEF vars
    <3>3. NobodyStores(RunOf[a]) => NobodyStores(RunOf[a])'
      BY <1>4, DoomKept DEF vars
    <3> QED BY <1>4, <3>1, <3>2, <3>3, CommitApart DEF vars
  <2> QED BY <2>1 DEF CommitInv
<1> QED BY <1>1, <1>2, <1>3, <1>4 DEF Next

LEMMA RegistryInvariant ==
    ASSUME OneAttemptPerRun
    PROVE  Spec => [](TypeInv /\ OwnerInv /\ CommitInv)
<1>1. Init => TypeInv /\ OwnerInv /\ CommitInv
  BY TypeInvInit, OwnerInvInit, CommitInvInit
<1>2. TypeInv /\ OwnerInv /\ CommitInv /\ [Next]_vars
         => (TypeInv /\ OwnerInv /\ CommitInv)'
  BY TypeInvStep, OwnerInvStep, CommitInvStep
<1> QED BY <1>1, <1>2, PTL DEF Spec

\* "Once finalization starts, completion wins the race": whatever requests,
\* messages and faults there are, no cancel interrupts an attempt between the
\* transaction of begin_finalize and the end of mark_done.
THEOREM CompletionHolds ==
    ASSUME OneAttemptPerRun PROVE Spec => []CompletionWins
<1>1. CommitInv => CompletionWins
  BY DEF CommitInv, CommitOK, BoundaryOK, CompletionWins
<1> QED BY RegistryInvariant, <1>1, PTL

\* A cancel that cancel_run wrote into the record before the attempt crossed
\* begin_finalize is never followed by a commit: the plain GET and SET of
\* cancel_run lose nothing against the WATCH transaction.
THEOREM RecordedCancelWins ==
    ASSUME OneAttemptPerRun PROVE Spec => []RecordedCancelHonoured
<1>1. CommitInv => RecordedCancelHonoured
  BY DEF CommitInv, CommitOK, DoomedOK, Doomed, RecordedCancelHonoured
<1> QED BY RegistryInvariant, <1>1, PTL

\* A tombstone that register still finds stops the run.
THEOREM EarlyCancelWins ==
    ASSUME OneAttemptPerRun PROVE Spec => []EarlyCancelHonoured
<1>1. CommitInv => EarlyCancelHonoured
  BY DEF CommitInv, CommitOK, DoomedOK, Doomed, EarlyCancelHonoured
<1> QED BY RegistryInvariant, <1>1, PTL
-----------------------------------------------------------------------------
(* The registry implements CommitOrCancel.                                  *)

\* What a step may make of the record of an attempt.
Fate(a, x) ==
    \/ StageOf(x) = StageOf(att[a]) /\ (Cut(x) <=> Cut(att[a]))
    \/ StageOf(att[a]) = "running" /\ StageOf(x) = "running" /\ Cut(x)
    \/ /\ StageOf(att[a]) = "running" /\ StageOf(x) = "committing"
       /\ told[a] # "recorded" /\ ~Cut(att[a]) /\ ~Cut(x)
    \/ /\ StageOf(att[a]) = "committing" /\ StageOf(x) = "written"
       /\ Cut(x) <=> Cut(att[a])
    \/ /\ StageOf(att[a]) \in {"running", "committing"} /\ StageOf(x) = "over"
       /\ ~Cut(x)

RaceStep == Race!Next \/ UNCHANGED Race!vars

LEMMA RaceStill == ASSUME att' = att, told' = told PROVE RaceStep
BY DEF RaceStep, Race!vars

LEMMA RaceMoves ==
    ASSUME SoundAtts, told' = told, NEW a \in Attempts, NEW x, Continue(a, x),
           Fate(a, x)
    PROVE  RaceStep
<1> DEFINE before == [d \in Attempts |-> StageOf(att[d])]
           after == [d \in Attempts |-> StageOf(att'[d])]
           told1 == {d \in Attempts : told[d] = "recorded"}
           cut == {d \in Attempts : Cut(att[d])}
           cut1 == {d \in Attempts : Cut(att'[d])}
<1>1. att'[a] = x /\ \A d \in Attempts \ {a} : att'[d] = att[d]
  BY ContinueFrame
<1>2. after = [before EXCEPT ![a] = StageOf(x)]
  BY <1>1
<1>3. cut1 = IF Cut(x) THEN cut \cup {a} ELSE cut \ {a}
  BY <1>1
<1>4. /\ before[a] = StageOf(att[a]) /\ before = [before EXCEPT ![a] = before[a]]
      /\ a \in told1 <=> told[a] = "recorded"
      /\ a \in cut <=> Cut(att[a])
  OBVIOUS
<1>5. (Cut(x) <=> Cut(att[a])) => cut1 = cut
  BY <1>3, <1>4
<1>6. told1' = told1 /\ before' = after /\ cut' = cut1
  OBVIOUS
<1>7. Race!vars = <<before, told1, cut>> /\ Race!vars' = <<after, told1, cut1>>
  BY DEF Race!vars
<1> HIDE DEF before, after, told1, cut, cut1
<1>8. CASE StageOf(x) = StageOf(att[a]) /\ (Cut(x) <=> Cut(att[a]))
  BY <1>2, <1>4, <1>5, <1>7, <1>8 DEF RaceStep
<1>a. ASSUME \/ Race!Cancel(a) \/ Race!Interrupt(a) \/ Race!Commit(a)
             \/ Race!Write(a) \/ Race!Stop(a)
      PROVE  RaceStep
  BY <1>a DEF RaceStep, Race!Next
<1>9. CASE StageOf(att[a]) = "running" /\ StageOf(x) = "running" /\ Cut(x)
  <2>1. Race!Interrupt(a)
    BY <1>2, <1>3, <1>4, <1>6, <1>9 DEF Race!Interrupt, before, after, told1, cut, cut1
  <2> QED
    BY <2>1, <1>a
<1>10. CASE /\ StageOf(att[a]) = "running" /\ StageOf(x) = "committing"
            /\ told[a] # "recorded" /\ ~Cut(att[a]) /\ ~Cut(x)
  <2>1. Race!Commit(a)
    BY <1>2, <1>4, <1>5, <1>6, <1>10
       DEF Race!Commit, Race!Move, before, after, told1, cut, cut1
  <2> QED
    BY <2>1, <1>a
<1>11. CASE /\ StageOf(att[a]) = "committing" /\ StageOf(x) = "written"
            /\ Cut(x) <=> Cut(att[a])
  <2>1. Race!Write(a)
    BY <1>2, <1>4, <1>5, <1>6, <1>11
       DEF Race!Write, Race!Move, before, after, told1, cut, cut1
  <2> QED
    BY <2>1, <1>a
<1>12. CASE /\ StageOf(att[a]) \in {"running", "committing"}
            /\ StageOf(x) = "over" /\ ~Cut(x)
  <2>1. Race!Stop(a)
    BY <1>2, <1>3, <1>4, <1>6, <1>12
       DEF Race!Stop, Race!Move, before, after, told1, cut, cut1
  <2> QED
    BY <2>1, <1>a
<1> QED
  BY <1>8, <1>9, <1>10, <1>11, <1>12 DEF Fate

\* The stages of the record of an attempt that is not written yet.
LEMMA StageAt ==
    ASSUME NEW x, ~x.persisted
    PROVE  /\ x.pc \in {"delete", "ended"} => StageOf(x) = "over"
           /\ x.pc \in Committing => StageOf(x) = "committing"
           /\ x.pc \notin Committing \cup {"delete", "ended"} => StageOf(x) = "running"
BY DEF StageOf, Committing

LEMMA StageWritten == ASSUME NEW x, x.persisted PROVE StageOf(x) = "written"
BY DEF StageOf

\* What CommitInv says of an attempt's stage.
LEMMA StageKnown ==
    ASSUME CommitInv, SoundAtts, NEW a \in Attempts
    PROVE  /\ att[a] \in Attempt
           /\ att[a].pc \notin Committing \cup {"delete", "ended"} =>
                  ~att[a].persisted /\ StageOf(att[a]) = "running"
           /\ att[a].pc \in Committing => ~Cut(att[a])
           /\ a \in watching => told[a] # "recorded"
BY StageAt DEF CommitInv, CommitOK, BoundaryOK, LateOK, DoomedOK, Doomed, SoundAtts,
   Cut, Committing, Finalizing

\* An attempt is unregistered from any stage.
LEMMA RaceUnregister ==
    ASSUME SoundAtts, told' = told, NEW a \in Attempts, NEW x \in Attempt,
           Unregister(a, x), x.persisted = att[a].persisted,
           att[a].persisted => ~Cut(att[a]),
           att[a].pc \notin {"delete", "ended"}
    PROVE  RaceStep
<1> DEFINE y == [x EXCEPT !.pc = "delete"]
<1>1. Continue(a, y) /\ y.pc = "delete" /\ y.persisted = att[a].persisted
  BY DEF Unregister, Attempt
<1> HIDE DEF y
<1>2. ~Cut(y)
  BY <1>1 DEF Cut
<1>3. CASE att[a].persisted
  BY <1>1, <1>2, <1>3, StageWritten, RaceMoves DEF Fate
<1>4. CASE ~att[a].persisted
  <2>1. StageOf(y) = "over" /\ StageOf(att[a]) \in {"running", "committing"}
    BY <1>1, <1>4, StageAt
  <2> QED
    BY <1>1, <1>2, <2>1, RaceMoves DEF Fate
<1> QED
  BY <1>3, <1>4

\* An attempt moves before its boundary, or ends there.
LEMMA RaceEarly ==
    ASSUME CommitInv, SoundAtts, told' = told, NEW a \in Attempts, NEW x,
           Continue(a, x), att[a].interrupted = "no", ~x.persisted,
           x.interrupted # "cancel" \/ x.pc = "ended",
           att[a].pc \notin Committing \cup {"delete", "ended"},
           x.pc \notin Committing
    PROVE  RaceStep
<1>1. StageOf(att[a]) = "running" /\ ~Cut(att[a]) /\ ~Cut(x)
  BY StageKnown DEF Cut
<1>2. StageOf(x) \in {"running", "over"}
  BY StageAt
<1> QED
  BY <1>1, <1>2, RaceMoves DEF Fate

\* What leads an attempt to its next step leaves the rest of its record.
LEMMA PcFields ==
    ASSUME NEW x \in Attempt, NEW p \in Steps
    PROVE  LET y == [x EXCEPT !.pc = p]
           IN  y.pc = p /\ y.persisted = x.persisted /\ y.interrupted = x.interrupted
BY DEF Attempt

LEMMA RegisterRace ==
    ASSUME CommitInv, SoundAtts, NEW a \in Attempts, Register(a) \/ RegisterFails(a)
    PROVE  RaceStep
<1> USE DEF At
<1>s. /\ {"idle"} \cup Registering \subseteq Steps
      /\ \A p \in {"idle", "generating"} \cup Registering :
             p \notin Committing \cup {"delete", "ended"}
  BY DEF Steps, Registering, Committing
<1>k. /\ att[a] \in Attempt
      /\ att[a].pc \in {"idle"} \cup Registering => ~att[a].persisted
  BY <1>s, StageKnown
<1>n. ASSUME NEW p \in {"generating"} \cup Registering, NEW f \in BOOLEAN,
             \/ Continue(a, [att[a] EXCEPT !.pc = p])
             \/ Continue(a, [att[a] EXCEPT !.pre = f, !.pc = p]),
             att[a].pc \in {"idle"} \cup Registering, att[a].interrupted = "no",
             told' = told
      PROVE  RaceStep
  <2> DEFINE x == [att[a] EXCEPT !.pc = p]
             y == [att[a] EXCEPT !.pre = f, !.pc = p]
  <2>1. p \in Steps /\ p \notin Committing /\ ~att[a].persisted
    BY <1>n, <1>s, <1>k DEF Steps
  <2>2. x.pc = p /\ ~x.persisted /\ x.interrupted = "no"
    BY <1>n, <1>k, <2>1, PcFields
  <2>3. y.pc = p /\ ~y.persisted /\ y.interrupted = "no"
    BY <1>n, <1>k, <2>1 DEF Attempt
  <2> HIDE DEF x, y
  <2>4. Continue(a, x) => RaceStep
    BY <1>n, <1>s, <2>1, <2>2, RaceEarly
  <2>5. Continue(a, y) => RaceStep
    BY <1>n, <1>s, <2>1, <2>3, RaceEarly
  <2> QED
    BY <1>n, <2>4, <2>5 DEF x, y
<1>1. CASE Start(a)
  BY <1>1, <1>n DEF Start, Registering
<1>2. CASE ReadTombstone(a)
  <2>1. PreCancelled(a) \in BOOLEAN
    BY DEF PreCancelled
  <2> QED
    BY <1>2, <1>n, <2>1 DEF ReadTombstone, Registering
<1>3. CASE DropTombstone(a)
  BY <1>3, <1>n DEF DropTombstone, Registering
<1>4. CASE StoreRecord(a)
  BY <1>4, <1>n DEF StoreRecord, Registering
<1>5. CASE Install(a)
  BY <1>5, <1>n DEF Install, Registering
<1>6. CASE StoreAgain(a)
  BY <1>6, <1>n DEF StoreAgain, Registering
<1>7. CASE RegisterFails(a)
  <2> DEFINE x == [ErrorFrame(att[a]) EXCEPT !.pc = "ended"]
  <2>1. x.pc = "ended" /\ x.persisted = att[a].persisted
    BY <1>k, ErrorType, ErrorFields DEF Attempt
  <2>2. Continue(a, x) /\ told' = told /\ att[a].interrupted = "no"
        /\ att[a].pc \in Registering
    BY <1>7 DEF RegisterFails
  <2> HIDE DEF x
  <2> QED
    BY <1>k, <1>s, <2>1, <2>2, RaceEarly DEF Committing
<1> QED
  BY <1>1, <1>2, <1>3, <1>4, <1>5, <1>6, <1>7 DEF Register

LEMMA ProducerRace ==
    ASSUME CommitInv, SoundAtts, NEW a \in Attempts,
           PollStops(a) \/ PollContinues(a) \/ ProducerFails(a)
    PROVE  RaceStep
<1> USE DEF At
<1>k. /\ att[a] \in Attempt
      /\ att[a].pc = "generating" => ~att[a].persisted
  BY StageKnown DEF Committing
<1>1. CASE PollStops(a)
  <2>1. [att[a] EXCEPT !.outcome = "stopped"] \in Attempt
        /\ [att[a] EXCEPT !.outcome = "stopped"].persisted = att[a].persisted
    BY <1>k DEF Attempt
  <2> QED
    BY <1>1, <1>k, <2>1, RaceUnregister DEF PollStops
<1>2. CASE PollContinues(a)
  <2>1. PICK p \in {"generating", "begin"} : Continue(a, [att[a] EXCEPT !.pc = p])
    BY <1>2 DEF PollContinues
  <2>2. /\ att[a].pc = "generating" /\ att[a].interrupted = "no" /\ told' = told
    BY <1>2 DEF PollContinues
  <2> DEFINE x == [att[a] EXCEPT !.pc = p]
  <2>3. x.pc = p /\ ~x.persisted /\ x.interrupted = "no"
    BY <1>k, <2>1, <2>2, PcFields DEF Steps
  <2> HIDE DEF x
  <2> QED
    BY <2>1, <2>2, <2>3, RaceEarly DEF x, Committing
<1>3. CASE ProducerFails(a)
  BY <1>3, <1>k, ErrorType, ErrorFields, RaceUnregister DEF ProducerFails
<1> QED
  BY <1>1, <1>2, <1>3

LEMMA RefusedRace ==
    ASSUME SoundAtts, told' = told, NEW a \in Attempts, NEW flag,
           FinalizeRefused(a, flag), ~att[a].persisted, att[a].pc \in Finalizing
    PROVE  RaceStep
<1> DEFINE x == [att[a] EXCEPT !.outcome = "stopped", !.terminal = "open"]
<1>0. att[a] \in Attempt
  BY DEF SoundAtts
<1>1. x \in Attempt /\ x.persisted = att[a].persisted
  BY <1>0 DEF Attempt
<1>2. Unregister(a, x)
  BY DEF FinalizeRefused
<1>3. att[a].pc \notin {"delete", "ended"}
  BY DEF Finalizing
<1> HIDE DEF x
<1> QED
  BY <1>1, <1>2, <1>3, RaceUnregister

LEMMA FinalizeRace ==
    ASSUME CommitInv, SoundAtts, NEW a \in Attempts,
           \/ BeginFinalize(a) \/ WatchRecord(a) \/ ExecSucceeds(a)
           \/ ExecAborts(a) \/ FinalizeFails(a)
    PROVE  RaceStep
<1> USE DEF At
<1>k. /\ att[a] \in Attempt
      /\ att[a].pc \in {"begin"} \cup Finalizing =>
             ~att[a].persisted /\ StageOf(att[a]) = "running"
  BY StageKnown DEF Committing, Finalizing
<1>1. CASE BeginFinalize(a)
  <2>1. CASE Unregister(a, [att[a] EXCEPT !.outcome = "stopped"])
    <3>1. [att[a] EXCEPT !.outcome = "stopped"] \in Attempt
          /\ [att[a] EXCEPT !.outcome = "stopped"].persisted = att[a].persisted
      BY <1>k DEF Attempt
    <3> QED
      BY <1>1, <1>k, <2>1, <3>1, RaceUnregister DEF BeginFinalize
  <2>2. CASE ~Unregister(a, [att[a] EXCEPT !.outcome = "stopped"])
    <3> DEFINE x == [att[a] EXCEPT !.pc = "watch", !.held = Found(a),
                                   !.terminal = "finalizing"]
    <3>1. Continue(a, x) /\ told' = told /\ att[a].interrupted = "no"
          /\ att[a].pc = "begin"
      BY <1>1, <2>2 DEF BeginFinalize
    <3>2. x.pc = "watch" /\ ~x.persisted /\ x.interrupted = "no"
      BY <1>k, <3>1 DEF Attempt
    <3> HIDE DEF x
    <3> QED
      BY <3>1, <3>2, RaceEarly DEF Committing
  <2> QED
    BY <2>1, <2>2
<1>2. CASE WatchRecord(a)
  <2>1. CASE \E flag : FinalizeRefused(a, flag)
    BY <1>2, <1>k, <2>1, RefusedRace DEF WatchRecord, Finalizing
  <2>2. CASE ~\E flag : FinalizeRefused(a, flag)
    <3> DEFINE x == [att[a] EXCEPT !.pc = "exec", !.seen = record[RunOf[a]]]
    <3>1. Continue(a, x) /\ told' = told /\ att[a].interrupted = "no"
          /\ att[a].pc = "watch"
      BY <1>2, <2>2 DEF WatchRecord
    <3>2. x.pc = "exec" /\ ~x.persisted /\ x.interrupted = "no"
      BY <1>k, <3>1 DEF Attempt, Finalizing
    <3> HIDE DEF x
    <3> QED
      BY <3>1, <3>2, RaceEarly DEF Committing
  <2> QED
    BY <2>1, <2>2
<1>3. CASE ExecSucceeds(a)
  <2>1. /\ told[a] # "recorded" /\ told' = told
        /\ att[a].pc = "exec" /\ att[a].interrupted = "no"
    BY <1>3, StageKnown DEF ExecSucceeds, KeyUntouched
  <2>2. PICK x : /\ Continue(a, x) /\ x.pc = "persist" /\ ~x.persisted
                 /\ x.interrupted = "no"
    BY <1>3, <1>k, <2>1 DEF ExecSucceeds, Finalizing, Attempt
  <2>3. StageOf(x) = "committing" /\ ~Cut(x) /\ ~Cut(att[a])
    BY <2>1, <2>2, StageAt DEF Committing, Cut
  <2> QED
    BY <1>k, <2>1, <2>2, <2>3, RaceMoves DEF Fate, Finalizing
<1>4. CASE ExecAborts(a)
  <2>1. CASE FinalizeRefused(a, FALSE)
    BY <1>4, <1>k, <2>1, RefusedRace DEF ExecAborts, Finalizing
  <2>2. CASE ~FinalizeRefused(a, FALSE)
    <3> DEFINE x == [att[a] EXCEPT !.pc = "watch", !.tries = @ + 1]
    <3>1. Continue(a, x) /\ told' = told /\ att[a].interrupted = "no"
          /\ att[a].pc = "exec"
      BY <1>4, <2>2 DEF ExecAborts
    <3>2. x.pc = "watch" /\ ~x.persisted /\ x.interrupted = "no"
      BY <1>k, <3>1 DEF Attempt, Finalizing
    <3> HIDE DEF x
    <3> QED
      BY <3>1, <3>2, RaceEarly DEF Committing
  <2> QED
    BY <2>1, <2>2
<1>5. CASE FinalizeFails(a)
  BY <1>5, <1>k, ErrorType, ErrorFields, RaceUnregister DEF FinalizeFails, Finalizing
<1> QED
  BY <1>1, <1>2, <1>3, <1>4, <1>5

\* Behind the boundary an attempt is not interrupted by a cancel.
LEMMA CommittingRace ==
    ASSUME CommitInv, SoundAtts, NEW a \in Attempts,
           \/ Persist(a) \/ PersistFails(a) \/ EmitDone(a) \/ TokenFails(a)
           \/ ReadForDone(a) \/ WriteDone(a) \/ MarkDoneFails(a)
    PROVE  RaceStep
<1> USE DEF At
<1>p. /\ att[a].pc \in Committing /\ att[a].interrupted = "no" /\ told' = told
      /\ att[a].pc \notin {"delete", "ended"}
  BY DEF Persist, PersistFails, EmitDone, TokenFails, ReadForDone, WriteDone,
         MarkDoneFails, Committing
<1>k. att[a] \in Attempt /\ ~Cut(att[a])
  BY <1>p, StageKnown
<1>s. StageOf(att[a]) = IF att[a].persisted THEN "written" ELSE "committing"
  BY <1>p, StageAt, StageWritten
<1>c. [att[a] EXCEPT !.outcome = "completed"] \in Attempt
      /\ [att[a] EXCEPT !.outcome = "completed"].persisted = att[a].persisted
  BY <1>k DEF Attempt
<1>m. ASSUME NEW x, Continue(a, x), x.pc \in Committing, ~Cut(x),
             x.persisted = att[a].persisted \/ x.persisted
      PROVE  RaceStep
  <2>1. StageOf(x) = IF x.persisted THEN "written" ELSE "committing"
    BY <1>m, StageAt, StageWritten
  <2>2. CASE x.persisted = att[a].persisted
    BY <1>p, <1>k, <1>s, <1>m, <2>1, <2>2, RaceMoves DEF Fate
  <2>3. CASE x.persisted /\ ~att[a].persisted
    BY <1>p, <1>k, <1>s, <1>m, <2>1, <2>3, RaceMoves DEF Fate
  <2> QED
    BY <1>m, <1>k, <2>2, <2>3 DEF Attempt
<1>1. CASE Persist(a)
  <2> DEFINE x == [att[a] EXCEPT !.pc = "emit", !.persisted = TRUE]
  <2>1. Continue(a, x)
    BY <1>1 DEF Persist
  <2>2. x.pc \in Committing /\ x.persisted /\ ~Cut(x)
    BY <1>p, <1>k DEF Attempt, Committing, Cut
  <2> HIDE DEF x
  <2> QED
    BY <2>1, <2>2, <1>m
<1>2. CASE PersistFails(a)
  <2> DEFINE y == [att[a] EXCEPT !.terminal = "open"]
  <2>1. y \in Attempt /\ y.persisted = att[a].persisted
    BY <1>k DEF Attempt
  <2>2. Unregister(a, ErrorFrame(y))
    BY <1>2 DEF PersistFails
  <2> HIDE DEF y
  <2> QED
    BY <2>1, <2>2, <1>p, <1>k, ErrorType, ErrorFields, RaceUnregister
<1>3. CASE EmitDone(a)
  <2> DEFINE x == [att[a] EXCEPT !.pc = "doneRead", !.terminal = "done"]
  <2>1. Continue(a, x)
    BY <1>3 DEF EmitDone
  <2>2. x.pc \in Committing /\ x.persisted = att[a].persisted /\ ~Cut(x)
    BY <1>p, <1>k DEF Attempt, Committing, Cut
  <2> HIDE DEF x
  <2> QED
    BY <2>1, <2>2, <1>m
<1>4. CASE TokenFails(a)
  BY <1>4, <1>p, <1>k, ErrorType, ErrorFields, RaceUnregister DEF TokenFails
<1>5. CASE ReadForDone(a)
  <2>1. CASE record[RunOf[a]] = NoRecord
    BY <1>5, <2>1, <1>p, <1>k, <1>c, RaceUnregister DEF ReadForDone
  <2>2. CASE record[RunOf[a]] # NoRecord
    <3> DEFINE x == [att[a] EXCEPT !.pc = "doneWrite", !.seen = record[RunOf[a]]]
    <3>1. Continue(a, x)
      BY <1>5, <2>2 DEF ReadForDone
    <3>2. x.pc \in Committing /\ x.persisted = att[a].persisted /\ ~Cut(x)
      BY <1>p, <1>k DEF Attempt, Committing, Cut
    <3> HIDE DEF x
    <3> QED
      BY <3>1, <3>2, <1>m
  <2> QED
    BY <2>1, <2>2
<1>6. CASE WriteDone(a)
  BY <1>6, <1>p, <1>k, <1>c, RaceUnregister DEF WriteDone
<1>7. CASE MarkDoneFails(a)
  BY <1>7, <1>p, <1>k, <1>c, RaceUnregister DEF MarkDoneFails
<1> QED
  BY <1>1, <1>2, <1>3, <1>4, <1>5, <1>6, <1>7

\* Cleaning up, being interrupted, and losing the client.
LEMMA LeavingRace ==
    ASSUME CommitInv, SoundAtts, NEW a \in Attempts,
           DeleteRecord(a) \/ Interrupted(a) \/ Disconnect(a)
    PROVE  RaceStep
<1>k. att[a] \in Attempt /\ (att[a].persisted => ~Cut(att[a]))
  BY StageKnown DEF Cut
<1>o. ASSUME att[a].pc \in {"delete", "ended"}, NEW x, Continue(a, x),
             x.pc \in {"delete", "ended"}, x.persisted = att[a].persisted,
             told' = told
      PROVE  RaceStep
  <2>1. StageOf(x) = StageOf(att[a]) /\ ~Cut(x) /\ ~Cut(att[a])
    BY <1>o DEF StageOf, Cut
  <2> QED
    BY <1>o, <2>1, RaceMoves DEF Fate
<1>1. CASE DeleteRecord(a)
  <2> DEFINE x == [att[a] EXCEPT !.pc = "ended"]
  <2>1. Continue(a, x) /\ told' = told /\ att[a].pc = "delete"
    BY <1>1 DEF DeleteRecord, At
  <2>2. x.pc = "ended" /\ x.persisted = att[a].persisted
    BY <1>k DEF Attempt
  <2> HIDE DEF x
  <2> QED
    BY <2>1, <2>2, <1>o
<1>2. CASE Interrupted(a)
  <2> DEFINE x == [att[a] EXCEPT !.interrupted = "no", !.outcome = "stopped",
                     !.terminal = IF att[a].pc = "persist" THEN "open" ELSE @]
             y == [x EXCEPT !.pc = "ended"]
  <2>1. x \in Attempt /\ x.persisted = att[a].persisted
    BY <1>k DEF Attempt
  <2>2. told' = told /\ att[a].pc # "ended"
    BY <1>2 DEF Interrupted
  <2>3. IF att[a].pc \in Registering \cup {"delete"}
        THEN Continue(a, y) ELSE Unregister(a, x)
    BY <1>2 DEF Interrupted
  <2> HIDE DEF x
  <2>4. CASE att[a].pc \notin Registering \cup {"delete"}
    BY <2>1, <2>2, <2>3, <2>4, <1>k, RaceUnregister
  <2>5. y.pc = "ended" /\ y.persisted = att[a].persisted
    BY <2>1 DEF Attempt
  <2> HIDE DEF y
  <2>6. CASE att[a].pc = "delete"
    BY <2>2, <2>3, <2>5, <2>6, <1>o
  <2>7. CASE att[a].pc \in Registering
    <3>1. att[a].pc \notin Committing \cup {"delete", "ended"}
      BY <2>7 DEF Registering, Committing
    <3>2. StageOf(att[a]) = "running" /\ ~att[a].persisted
      BY <3>1, StageKnown
    <3>3. StageOf(y) = "over" /\ ~Cut(y)
      BY <2>5, <3>2, StageAt DEF Cut
    <3> QED
      BY <2>2, <2>3, <2>7, <3>2, <3>3, RaceMoves DEF Fate
  <2> QED
    BY <2>4, <2>6, <2>7
<1>3. CASE Disconnect(a)
  <2> DEFINE x == [att[a] EXCEPT !.interrupted = "disconnect"]
  <2>1. Continue(a, x) /\ told' = told /\ att[a].interrupted = "no"
    BY <1>3 DEF Disconnect
  <2>2. x.pc = att[a].pc /\ x.persisted = att[a].persisted
        /\ x.interrupted = "disconnect"
    BY <1>k DEF Attempt
  <2> HIDE DEF x
  <2>3. StageOf(x) = StageOf(att[a]) /\ ~Cut(x) /\ ~Cut(att[a])
    BY <2>1, <2>2 DEF StageOf, Cut
  <2> QED
    BY <2>1, <2>3, RaceMoves DEF Fate
<1> QED
  BY <1>1, <1>2, <1>3

\* A cancellation applied where the attempt runs interrupts it before its
\* boundary, or when there is nothing left to interrupt.
LEMMA LocalCancelRace ==
    ASSUME TypeOK, CommitInv, SoundAtts, NEW i, NEW r, ApplyLocalCancel(i, r),
           told' = told
    PROVE  RaceStep
<1> DEFINE b == localRuns[i][r]
           x == [att[b] EXCEPT !.interrupted = "cancel"]
<1>1. \/ att' = att
      \/ b \in Attempts /\ Interruptible(b) /\ Continue(b, x)
  BY DEF ApplyLocalCancel, Continue, SoundAtts
<1>2. CASE att' = att
  BY <1>2, RaceStill
<1>3. CASE b \in Attempts /\ Interruptible(b) /\ Continue(b, x)
  <2>1. att[b] \in Attempt /\ CommitOK(b)
    BY <1>3 DEF SoundAtts, CommitInv
  <2>2. x.pc = att[b].pc /\ x.persisted = att[b].persisted
        /\ x.interrupted = "cancel"
    BY <2>1 DEF Attempt
  <2>3. att[b].pc \notin Finalizing \cup Committing /\ att[b].pc # "ended"
    BY <1>3, <2>1 DEF Interruptible, CommitOK, BoundaryOK
  <2> HIDE DEF x
  <2>4. CASE att[b].pc = "delete"
    <3>1. StageOf(x) = StageOf(att[b]) /\ ~Cut(x) /\ ~Cut(att[b])
      BY <2>2, <2>4 DEF StageOf, Cut
    <3> QED
      BY <1>3, <3>1, RaceMoves DEF Fate
  <2>5. CASE att[b].pc # "delete"
    <3>1. ~att[b].persisted /\ StageOf(att[b]) = "running"
      BY <1>3, <2>3, <2>5, StageKnown
    <3>2. StageOf(x) = "running" /\ Cut(x)
      BY <2>2, <2>3, <2>5, <3>1, StageAt DEF Cut
    <3> QED
      BY <1>3, <3>1, <3>2, RaceMoves DEF Fate
  <2> QED
    BY <2>4, <2>5
<1> QED
  BY <1>1, <1>2, <1>3

\* The owner's cancel reaches Redis: it is in time for one running attempt, or
\* for none.
LEMMA NoteRace ==
    ASSUME OneAttemptPerRun, CommitInv, SoundAtts, NEW r, NEW flag \in BOOLEAN,
           NoteCancel(r, flag), att' = att,
           told \in [Attempts -> {"never", "before read", "after read",
                                  "recorded", "too late"}]
    PROVE  RaceStep
<1>1. CASE \A a \in Attempts : told'[a] = "recorded" <=> told[a] = "recorded"
  BY <1>1 DEF RaceStep, Race!vars
<1>2. ASSUME NEW a \in Attempts, told'[a] = "recorded", told[a] # "recorded"
      PROVE  RaceStep
  <2>1. /\ RunOf[a] = r /\ att[a].pc \notin Committing \cup {"delete", "ended"}
    BY <1>2 DEF NoteCancel
  <2>2. ASSUME NEW d \in Attempts \ {a}
        PROVE  told'[d] = told[d]
    BY <2>1, <2>2 DEF NoteCancel, OneAttemptPerRun
  <2>3. {d \in Attempts : told'[d] = "recorded"} =
            {d \in Attempts : told[d] = "recorded"} \cup {a}
    BY <1>2, <2>2
  <2>4. StageOf(att[a]) = "running"
    BY <2>1, StageKnown
  <2>5. Race!Cancel(a)
    BY <2>3, <2>4 DEF Race!Cancel
  <2> QED
    BY <2>5 DEF RaceStep, Race!Next
<1>3. ASSUME NEW a \in Attempts, told[a] = "recorded"
      PROVE  told'[a] = "recorded"
  BY <1>3 DEF NoteCancel
<1> QED
  BY <1>1, <1>2, <1>3

LEMMA RaceNext ==
    ASSUME OneAttemptPerRun
    PROVE  TypeInv /\ CommitInv /\ [Next]_vars => RaceStep
<1> SUFFICES ASSUME TypeInv, CommitInv, [Next]_vars PROVE RaceStep
  OBVIOUS
<1>0. TypeOK /\ SoundAtts
  BY TypeInvParts
<1>t. told \in [Attempts -> {"never", "before read", "after read", "recorded",
                             "too late"}]
  BY <1>0 DEF TypeOK
<1>1. ASSUME NEW a \in Attempts,
             Register(a) \/ PollStops(a) \/ PollContinues(a) \/ Finish(a)
               \/ Fails(a) \/ Interrupted(a) \/ Disconnect(a)
      PROVE  RaceStep
  BY <1>0, <1>1, RegisterRace, ProducerRace, FinalizeRace, CommittingRace,
     LeavingRace DEF Finish, Fails
<1>2. ASSUME NEW c \in Cancels, StartCancel(c) \/ CancelFails(c)
      PROVE  RaceStep
  BY <1>2, RaceStill DEF StartCancel, CancelFails
<1>3. ASSUME NEW c \in Cancels, ReadForCancel(c) \/ ApplyCancel(c)
      PROVE  RaceStep
  <2>1. told' = told
    BY <1>3 DEF ReadForCancel, ApplyCancel
  <2>2. att' = att \/ ApplyLocalCancel(req[c].inst, req[c].run)
    BY <1>3 DEF ReadForCancel, ApplyCancel
  <2> QED
    BY <1>0, <2>1, <2>2, RaceStill, LocalCancelRace
<1>4. ASSUME NEW c \in Cancels, StoreTombstone(c) \/ StoreCancelled(c)
      PROVE  RaceStep
  <2>1. att' = att
    BY <1>4 DEF StoreTombstone, StoreCancelled
  <2>2. told' = told \/ \E flag \in BOOLEAN : NoteCancel(req[c].run, flag)
    BY <1>4 DEF StoreTombstone, StoreCancelled
  <2> QED
    BY <1>0, <1>t, <2>1, <2>2, RaceStill, NoteRace
<1>5. ASSUME NEW i \in Instances, Deliver(i) \/ Lose(i)
      PROVE  RaceStep
  <2>1. told' = told
    BY <1>5 DEF Deliver, Lose
  <2>2. att' = att \/ \E r : ApplyLocalCancel(i, r)
    BY <1>5 DEF Deliver, Lose
  <2> QED
    BY <1>0, <2>1, <2>2, RaceStill, LocalCancelRace
<1>6. ASSUME NEW r \in Runs, Expire(r)
      PROVE  RaceStep
  BY <1>6, RaceStill DEF Expire
<1>7. CASE UNCHANGED vars
  BY <1>7, RaceStill DEF vars
<1> QED
  BY <1>1, <1>2, <1>3, <1>4, <1>5, <1>6, <1>7 DEF Next, CancelStep

LEMMA RaceInit == Init => Race!Init
<1> SUFFICES ASSUME Init PROVE Race!Init
  OBVIOUS
<1>1. ASSUME NEW a \in Attempts
      PROVE  StageOf(att[a]) = "running" /\ ~Cut(att[a]) /\ told[a] # "recorded"
  <2>1. att[a] = IdleAttempt /\ told[a] = "never"
    BY DEF Init
  <2>2. /\ ~IdleAttempt.persisted /\ IdleAttempt.pc = "idle"
        /\ IdleAttempt.interrupted = "no"
    BY DEF IdleAttempt
  <2> QED
    BY <2>1, <2>2 DEF StageOf, Cut, Committing
<1> QED
  BY <1>1 DEF Race!Init

\* When run ids are not reused, the record in Redis, the tombstones, the
\* messages and the local registrations implement a race that is won once:
\* begin_finalize is the boundary of commit_done, cancel_run the other side.
THEOREM RaceWonOnce ==
    ASSUME OneAttemptPerRun PROVE Spec => RaceSpec
<1>1. TypeInv /\ OwnerInv /\ CommitInv /\ [Next]_vars
         => [Race!Next]_(Race!vars)
  BY RaceNext DEF RaceStep
<1>2. Spec => Race!Init /\ [][Race!Next]_(Race!vars)
  BY <1>1, RaceInit, RegistryInvariant, PTL DEF Spec
<1> QED
  BY <1>2 DEF RaceSpec, Race!Spec
=============================================================================
