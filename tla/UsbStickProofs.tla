--------------------------- MODULE UsbStickProofs ---------------------------
(***************************************************************************)
(* What holds of UsbStick for any number of sticks and keys.               *)
(***************************************************************************)
EXTENDS UsbStick, TLAPS

(* A final name never stands for a file that could still be torn, because  *)
(* what is linked or renamed has been synced with the command's key in it. *)
FinalSynced == \A d \in Sticks : final[d] # Absent => final[d] \in Whole /\ final[d].synced
PartialHolds ==
  /\ run.step = "sync" => partial[run.stick] = [key |-> run.key, synced |-> FALSE]
  /\ run.step = "link" => partial[run.stick] = [key |-> run.key, synced |-> TRUE]
CarriesKey == run.step # "idle" => run.key \in Keys

IInv == SticksOK /\ FinalSynced /\ PartialHolds /\ CarriesKey /\ ReadyForGood

-----------------------------------------------------------------------------
LEMMA FilesApart ==
  ASSUME StickAssumption
  PROVE  Absent \notin Whole /\ Torn \notin Whole /\ Absent \notin Keys /\ NoKey \notin Keys
  BY DEF StickAssumption, Whole

LEMMA InitInv == ASSUME StickAssumption, Init PROVE IInv
<1>1. SticksOK BY DEF Init, SticksOK, Files, RunType, Idle, Steps
<1> QED BY <1>1 DEF Init, IInv, FinalSynced, PartialHolds, CarriesKey, ReadyForGood, Idle

(* Steps that leave the final files and the reports alone.                 *)
LEMMA StepBefore ==
  ASSUME StickAssumption, IInv,
         \/ \E d \in Sticks : InitResume(d) \/ InitFrom(d) \/ InitNew(d) \/ CloneFrom(d) \/ Pick(d)
         \/ StoreState \/ Write \/ Sync \/ Tidy \/ WriteFails \/ Stop
  PROVE  IInv'
<1> USE DEF IInv
<1>1. UNCHANGED <<final, ready>>
  BY DEF InitResume, InitFrom, InitNew, CloneFrom, Pick, StoreState, Write, Sync, Tidy, WriteFails, Stop
<1>2. FinalSynced' /\ ReadyForGood' BY <1>1 DEF FinalSynced, ReadyForGood
<1>3. ASSUME NEW d \in Sticks, InitResume(d) \/ InitFrom(d) \/ InitNew(d) PROVE IInv'
  <2>1. PICK k \in Keys : run' = [step |-> "state", stick |-> d, key |-> k, first |-> TRUE]
    <3>1. CASE InitResume(d) BY <3>1 DEF InitResume, Unwraps, Whole
    <3>2. CASE InitFrom(d) BY <3>2 DEF InitFrom
    <3>3. CASE InitNew(d) BY <3>3 DEF InitNew, StickAssumption
    <3> QED BY <1>3, <3>1, <3>2, <3>3
  <2>2. partial' = partial /\ keyFile' = keyFile /\ made' \subseteq Keys
    BY <1>3 DEF InitResume, InitFrom, InitNew, SticksOK, StickAssumption
  <2>3. SticksOK' BY <1>1, <2>1, <2>2 DEF SticksOK, RunType, Steps
  <2> QED BY <1>2, <2>1, <2>3 DEF PartialHolds, CarriesKey
<1>4. ASSUME NEW d \in Sticks, CloneFrom(d) PROVE IInv'
  <2>1. final[d].key \in Keys BY <1>4 DEF CloneFrom, Unwraps, Whole
  <2>2. SticksOK' BY <1>1, <1>4, <2>1 DEF CloneFrom, SticksOK, RunType, Steps
  <2> QED BY <1>2, <1>4, <2>1, <2>2 DEF CloneFrom, PartialHolds, CarriesKey
<1>5. ASSUME NEW d \in Sticks, Pick(d) PROVE IInv'
  <2>1. run.key \in Keys BY <1>5 DEF Pick, At, CarriesKey
  <2>2. /\ run' \in RunType /\ run'.step = "state" /\ run'.stick = d /\ run'.key = run.key
    BY <1>5, <2>1 DEF Pick, SticksOK, RunType, Steps
  <2>3. SticksOK' BY <1>1, <1>5, <2>1, <2>2 DEF Pick, SticksOK
  <2> QED BY <1>2, <2>1, <2>2, <2>3 DEF PartialHolds, CarriesKey
<1>6. CASE StoreState
  <2>1. /\ run' \in RunType /\ run'.step \in {"read", "write"}
        /\ run'.stick = run.stick /\ run'.key = run.key /\ run.step = "state"
    BY <1>6 DEF StoreState, Go, At, SticksOK, RunType, Steps
  <2>2. SticksOK' BY <1>1, <1>6, <2>1 DEF StoreState, SticksOK
  <2> QED BY <1>2, <2>1, <2>2 DEF PartialHolds, CarriesKey
<1>7. CASE Write
  <2>1. /\ run' \in RunType /\ run'.step = "sync" /\ run.step = "write"
        /\ run'.stick = run.stick /\ run'.key = run.key
        /\ run.stick \in Sticks /\ run.key \in Keys
        /\ partial' = [partial EXCEPT ![run.stick] = [key |-> run.key, synced |-> FALSE]]
    BY <1>7 DEF Write, Go, At, SticksOK, RunType, Steps
  <2>2. SticksOK' BY <1>1, <1>7, <2>1 DEF Write, SticksOK, Files, Whole
  <2> QED BY <1>2, <2>1, <2>2 DEF PartialHolds, CarriesKey, SticksOK
<1>8. CASE Sync
  <2>1. /\ run' \in RunType /\ run'.step = "link" /\ run.step = "sync"
        /\ run'.stick = run.stick /\ run'.key = run.key
        /\ run.stick \in Sticks /\ run.key \in Keys
    BY <1>8 DEF Sync, Go, At, SticksOK, RunType, Steps
  <2>2. partial' = [partial EXCEPT ![run.stick] = [key |-> run.key, synced |-> TRUE]]
    <3>1. partial[run.stick] = [key |-> run.key, synced |-> FALSE] BY <2>1 DEF PartialHolds
    <3>2. partial[run.stick].key = run.key BY <3>1
    <3> QED BY <1>8, <3>2 DEF Sync
  <2>3. SticksOK'
    <3>1. [key |-> run.key, synced |-> TRUE] \in Files BY <2>1 DEF Files, Whole
    <3>2. partial' \in [Sticks -> Files] BY <2>2, <3>1 DEF SticksOK
    <3> QED BY <1>1, <1>8, <2>1, <3>2 DEF Sync, SticksOK
  <2> QED BY <1>2, <2>1, <2>2, <2>3 DEF PartialHolds, CarriesKey, SticksOK
<1>9. CASE Tidy
  <2>1. /\ run' \in RunType /\ run'.step = "read" /\ run.step = "tidy"
        /\ run'.stick = run.stick /\ run'.key = run.key
        /\ run.stick \in Sticks /\ run.key \in Keys
    BY <1>9 DEF Tidy, Go, At, SticksOK, RunType, Steps
  <2>2. SticksOK' BY <1>1, <1>9, <2>1 DEF Tidy, SticksOK, Files
  <2> QED BY <1>2, <2>1, <2>2 DEF PartialHolds, CarriesKey
<1>10. CASE WriteFails \/ Stop
  <2>1. /\ run' = Idle /\ keyFile' = keyFile /\ made' = made
        /\ partial' \in [Sticks -> Files]
    BY <1>10 DEF WriteFails, Stop, SticksOK, Files
  <2>2. SticksOK' BY <1>1, <2>1 DEF SticksOK, RunType, Idle, Steps
  <2> QED BY <1>2, <2>1, <2>2 DEF PartialHolds, CarriesKey, Idle
<1> QED BY <1>3, <1>4, <1>5, <1>6, <1>7, <1>8, <1>9, <1>10

(* A key lands: its file was synced, and nothing was there before.         *)
LEMMA Lands ==
  ASSUME StickAssumption, IInv, Link \/ Rename
  PROVE  /\ run.stick \in Sticks /\ run.key \in Keys /\ final[run.stick] = Absent
         /\ final' = [final EXCEPT ![run.stick] = [key |-> run.key, synced |-> TRUE]]
         /\ run' = [run EXCEPT !.step = "tidy"] /\ run.step = "link"
         /\ UNCHANGED <<keyFile, made, ready>> /\ partial' \in [Sticks -> Files]
  BY DEF IInv, SticksOK, PartialHolds, Link, Rename, Go, At, Files

LEMMA StepLands ==
  ASSUME StickAssumption, IInv, Link \/ Rename PROVE IInv'
<1> USE Lands DEF IInv
<1>1. [key |-> run.key, synced |-> TRUE] \in Whole BY DEF Whole
<1>2. run' \in RunType /\ run'.step = "tidy" /\ run'.stick = run.stick /\ run'.key = run.key
  BY DEF SticksOK, RunType, Steps
<1>3. SticksOK' BY <1>1, <1>2 DEF SticksOK, Files
<1>4. FinalSynced' BY <1>1 DEF FinalSynced, SticksOK
<1>5. ReadyForGood'
  <2>1. \A x \in ready : x.stick \in Sticks /\ final[x.stick] # Absent
    <3> SUFFICES ASSUME NEW x \in ready PROVE x.stick \in Sticks /\ final[x.stick] # Absent
      OBVIOUS
    <3>1. x.stick \in Sticks /\ x.key \in Keys BY DEF SticksOK
    <3>2. final[x.stick] = [key |-> x.key, synced |-> TRUE] BY DEF ReadyForGood
    <3>3. [key |-> x.key, synced |-> TRUE] \in Whole BY <3>1 DEF Whole
    <3> QED BY <3>1, <3>2, <3>3, FilesApart
  <2> QED BY <2>1 DEF ReadyForGood, SticksOK
<1> QED BY <1>2, <1>3, <1>4, <1>5 DEF PartialHolds, CarriesKey

LEMMA StepReadBack ==
  ASSUME StickAssumption, IInv, ReadBack PROVE IInv'
<1> USE DEF IInv
<1>1. /\ run.step = "read" /\ run.stick \in Sticks /\ run.key \in Keys
      /\ final[run.stick] \in Whole /\ final[run.stick].key = run.key
      /\ ready' = ready \cup {[stick |-> run.stick, key |-> run.key]}
      /\ UNCHANGED <<final, partial, keyFile, made>>
  BY DEF ReadBack, At, SameKey, SticksOK
<1>2. final[run.stick] = [key |-> run.key, synced |-> TRUE]
  BY <1>1, FilesApart DEF FinalSynced, Whole
<1>3. /\ run' \in RunType /\ run'.step \in {"idle", "pick"}
      /\ run'.step = "pick" => run'.key \in Keys
  BY <1>1 DEF ReadBack, SticksOK, RunType, Steps, Idle
<1>4. SticksOK' BY <1>1, <1>3 DEF SticksOK
<1>5. FinalSynced' BY <1>1 DEF FinalSynced
<1>6. ReadyForGood'
  <2> SUFFICES ASSUME NEW x \in ready' PROVE final[x.stick] = [key |-> x.key, synced |-> TRUE]
    BY <1>1 DEF ReadyForGood
  <2>1. CASE x \in ready BY <2>1 DEF ReadyForGood
  <2>2. CASE x = [stick |-> run.stick, key |-> run.key]
    <3>1. x.stick = run.stick /\ x.key = run.key BY <2>2
    <3> QED BY <1>2, <3>1
  <2> QED BY <1>1, <2>1, <2>2
<1> QED BY <1>6, <1>3, <1>4, <1>5 DEF PartialHolds, CarriesKey

LEMMA StepUnplug ==
  ASSUME StickAssumption, IInv, NEW d \in Sticks, Unplug(d) PROVE IInv' /\ final' = final
<1> USE DEF IInv
<1>1. PICK f \in Lost(final[d]), p \in Lost(partial[d]) :
        final' = [final EXCEPT ![d] = f] /\ partial' = [partial EXCEPT ![d] = p]
  BY DEF Unplug
<1>2. f = final[d] BY FilesApart DEF Lost, FinalSynced, SticksOK
<1>3. final' = final BY <1>1, <1>2 DEF SticksOK
<1>4. p \in Files BY DEF Lost, SticksOK, Files
<1>5. run' = Idle /\ UNCHANGED <<keyFile, made, ready>> BY DEF Unplug
<1>6. SticksOK' BY <1>1, <1>3, <1>4, <1>5 DEF SticksOK, RunType, Idle, Steps
<1> QED
  BY <1>3, <1>5, <1>6 DEF FinalSynced, ReadyForGood, PartialHolds, CarriesKey, Idle

LEMMA StepInv == ASSUME StickAssumption, IInv, [Next]_stickVars PROVE IInv'
<1>1. CASE UNCHANGED stickVars
  BY <1>1 DEF stickVars, IInv, SticksOK, FinalSynced, PartialHolds, CarriesKey, ReadyForGood
<1> QED BY <1>1, StepBefore, StepLands, StepReadBack, StepUnplug DEF Next

LEMMA Invariance == ASSUME StickAssumption PROVE Spec => []IInv
<1>1. Init => IInv BY InitInv
<1>2. IInv /\ [Next]_stickVars => IInv' BY StepInv
<1> QED BY <1>1, <1>2, PTL DEF Spec

-----------------------------------------------------------------------------
(* TypeOK: usb init and usb clone keep their files and choices well formed *)
(* when the stick is pulled between any two file operations.               *)
THEOREM TypeCorrect == ASSUME StickAssumption PROVE Spec => []TypeOK
<1> DEFINE FileOK == keyFile \in Keys \cup {Absent, Torn}
<1>1. Init => FileOK BY DEF Init
<1>2. FileOK /\ [Next]_stickVars => FileOK'
  BY DEF Next, stickVars, InitResume, InitFrom, InitNew, CloneFrom, Pick, StoreState, Write, Sync,
     Link, Rename, Tidy, WriteFails, ReadBack, Stop, Unplug
<1>3. IInv /\ FileOK => TypeOK BY DEF IInv, TypeOK
<1> HIDE DEF FileOK
<1> QED BY <1>1, <1>2, <1>3, Invariance, PTL DEF Spec

(* ReadyForGood (usbvault.go:129-131): once a stick was reported ready, it *)
(* holds that key for ever.                                                *)
THEOREM ReadyStays == ASSUME StickAssumption PROVE Spec => []ReadyForGood
<1>1. IInv => ReadyForGood BY DEF IInv
<1> QED BY <1>1, Invariance, PTL

(* ImplementsWriteOnce (writeUSBKey): a stick takes one key and keeps it,  *)
(* and no interrupted write is ever read as a key.                         *)
THEOREM Refinement == ASSUME StickAssumption PROVE Spec => ImplementsWriteOnce
<1> DEFINE Slot == [d \in Sticks |-> IF final[d] \in Whole THEN final[d].key ELSE Absent]
<1>1. Init => Store!Init BY FilesApart DEF Init, Store!Init
<1>2. IInv /\ [Next]_stickVars => [Store!Next]_Slot
  <2> SUFFICES ASSUME IInv, [Next]_stickVars PROVE Store!Next \/ Slot' = Slot
    OBVIOUS
  <2>1. CASE Link \/ Rename
    <3>1. run.stick \in Sticks /\ Slot[run.stick] = Absent BY <2>1, Lands, FilesApart
    <3>2. Slot'[run.stick] \in Keys
      <4>1. final'[run.stick] = [key |-> run.key, synced |-> TRUE] /\ run.key \in Keys
        BY <2>1, Lands DEF IInv, SticksOK
      <4>2. final'[run.stick] \in Whole /\ final'[run.stick].key \in Keys BY <4>1 DEF Whole
      <4> QED BY <3>1, <4>2
    <3>3. \A d \in Sticks : d # run.stick => Slot'[d] = Slot[d]
      BY <2>1, Lands DEF IInv, SticksOK
    <3>4. Slot' = [Slot EXCEPT ![run.stick] = Slot'[run.stick]] BY <3>3
    <3>5. PICK d \in Sticks : /\ Slot[d] = Absent /\ Slot'[d] \in Keys
                              /\ Slot' = [Slot EXCEPT ![d] = Slot'[d]]
      BY <3>1, <3>2, <3>4
    <3> HIDE DEF Slot
    <3> QED BY <3>5 DEF Store!Next, Store!Fill, Slot
  <2>2. CASE ~(Link \/ Rename)
    <3>1. final' = final
      BY <2>2, StepUnplug DEF Next, stickVars, InitResume, InitFrom, InitNew, CloneFrom, Pick,
         StoreState, Write, Sync, Tidy, WriteFails, ReadBack, Stop
    <3> QED BY <3>1
  <2> QED BY <2>1, <2>2
<1> QED BY <1>1, <1>2, Invariance, PTL DEF Spec, ImplementsWriteOnce, Store!Spec
=============================================================================
