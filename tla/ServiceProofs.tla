--------------------------- MODULE ServiceProofs ---------------------------
(***************************************************************************)
(* Proofs about Service, for any number of connections, any of which edit, *)
(* and any queue limit: the host admits as Host says, so that one guest    *)
(* runs at a time, and therefore index.bin is what IndexStore says.        *)
(***************************************************************************)
EXTENDS Service, HostProofs

(***************************************************************************)
(* Every step of the service is a step of the host or leaves it alone.     *)
(***************************************************************************)
LEMMA AdmissionStep == [ServiceNext]_serviceVars => [Next]_vars
<1> SUFFICES ASSUME [ServiceNext]_serviceVars PROVE [Next]_vars
  OBVIOUS
<1>1. ASSUME NEW r \in Requests, Arrives(r) \/ IsAdmitted(r) \/ Leaves(r) PROVE [Next]_vars
  BY <1>1 DEF Arrives, IsAdmitted, Leaves, Admission, Next, Progress
<1>2. ASSUME NEW r \in Requests, FileStep(r) PROVE UNCHANGED vars
  BY <1>2 DEF FileStep, Load, WriteTmp, RenameTmp, Unsaved, ReadHeader, ReadBlock, GoesOn
<1>3. ASSUME NEW r \in Requests, Answered(r) PROVE [Next]_vars
  BY <1>3 DEF Answered, Next
<1>4. ASSUME NEW r \in Requests, Returns(r) \/ Traps(r) \/ EpochTrap(r) PROVE [Next]_vars
  BY <1>4 DEF Returns, Traps, EpochTrap, Ends, Next, Progress
<1>5. ASSUME NEW r \in Requests, Stall(r) \/ ServerStalls(r) \/ Resume(r) \/ Compute(r) PROVE UNCHANGED vars
  BY <1>5 DEF Stall, ServerStalls, Resume, Compute
<1>6. ASSUME NEW r \in Requests, ClientGone(r) PROVE [Next]_vars
  BY <1>6 DEF ClientGone, Next
<1>7. CASE Shutdown
  BY <1>7 DEF Shutdown
<1>8. CASE RestartAll
  BY <1>8 DEF RestartAll, Next
<1>9. CASE UNCHANGED serviceVars
  BY <1>9 DEF serviceVars, vars
<1> QED
  BY <1>1, <1>2, <1>3, <1>4, <1>5, <1>6, <1>7, <1>8, <1>9 DEF ServiceNext

(***************************************************************************)
(* Admission in the service is that of Host, whatever guests and clients   *)
(* do: what is proved of Host holds here.                                  *)
(***************************************************************************)
THEOREM ServiceImplementsHost == ServiceSpec => Spec
<1>1. ServiceInit => Init
  BY DEF ServiceInit
<1> QED
  BY <1>1, AdmissionStep, PTL DEF ServiceSpec, Spec

-----------------------------------------------------------------------------
(***************************************************************************)
(* What a guest has in hand is current: nobody has edited the file since   *)
(* it was read, and what is about to be renamed is the file and one edit.  *)
(* This rests on there being one guest.                                    *)
(***************************************************************************)
HandOK(r) ==
    /\ at[r] \in {"loaded", "header"} => copy[r] = index
    /\ at[r] = "written" => tmp = index \cup {r}
InHand ==
    /\ index \in Contents
    /\ at \in [Requests -> Places]
    /\ copy \in [Requests -> Contents \cup {None}]
    /\ answer \in [Requests -> Answers \cup {None}]
    /\ \A r \in Requests : r \notin guest => at[r] = "start" /\ answer[r] = None
    /\ \A r \in guest : HandOK(r)
ServiceInv == Types /\ OneGuest /\ InHand

\* At the start no guest has read anything.
LEMMA InitInHand == ServiceInit => InHand
  BY DEF ServiceInit, Init, InHand, HandOK, Contents, Places

\* Only r is in `guest`, so what r does to the files is no one else's concern.
LEMMA Alone == ASSUME ServiceInv, NEW r \in guest PROVE guest = {r}
  BY DEF ServiceInv, OneGuest, Holders, Types

\* Admission: a guest starts at the start.
LEMMA AdmissionInHand ==
  ASSUME ServiceInv, NEW r \in Requests, Arrives(r) \/ IsAdmitted(r) \/ Leaves(r)
  PROVE  InHand'
<1>1. UNCHANGED <<index, tmp, at, copy, answer>> /\ (guest' = guest \/ guest' = guest \cup {r})
  BY DEF Arrives, IsAdmitted, Leaves, Admission, TryAcquire, Count, Reject, Poll, Admit, Spawn,
         SpawnFails, DisconnectWaiting, DisconnectGranted
<1> QED
  BY <1>1 DEF ServiceInv, InHand, HandOK, Types

\* A step through the files, by the one guest there is.
LEMMA FileStepInHand ==
  ASSUME ServiceInv, NEW r \in Requests, FileStep(r)
  PROVE  InHand'
<1>1. r \in guest /\ guest = {r} /\ guest' = guest
  <2>1. r \in guest /\ UNCHANGED vars
    BY DEF FileStep, Load, WriteTmp, RenameTmp, Unsaved, ReadHeader, ReadBlock, GoesOn
  <2> QED
    BY <2>1, Alone DEF vars
<1> USE <1>1 DEF ServiceInv, InHand, HandOK, Types, Places, Contents, Answers
<1>2. CASE Load(r)
  BY <1>2 DEF Load, GoesOn
<1>3. CASE WriteTmp(r)
  BY <1>3 DEF WriteTmp, GoesOn
<1>4. CASE RenameTmp(r)
  <2>1. tmp = index \cup {r} /\ tmp \in Contents /\ at' = [at EXCEPT ![r] = "done"]
    BY <1>4 DEF RenameTmp, GoesOn
  <2>2. index' = tmp
    BY <1>4, <2>1, ServiceAssumption DEF RenameTmp
  <2> QED
    BY <1>4, <2>1, <2>2 DEF RenameTmp
<1>5. CASE Unsaved(r)
  BY <1>5 DEF Unsaved, GoesOn
<1>6. CASE ReadHeader(r)
  BY <1>6 DEF ReadHeader, GoesOn
<1>7. CASE ReadBlock(r)
  BY <1>7 DEF ReadBlock, GoesOn
<1> QED
  BY <1>2, <1>3, <1>4, <1>5, <1>6, <1>7 DEF FileStep

\* A guest that ends leaves nothing in hand.
LEMMA EndsInHand == ASSUME ServiceInv, NEW r \in Requests, Ends(r) PROVE InHand'
<1>1. guest' = guest \ {r} /\ UNCHANGED <<index, tmp>>
  BY DEF Ends, GuestEnds
<1>2. /\ at' = [q \in Requests |-> IF q \in {r} THEN "start" ELSE at[q]]
      /\ copy' = [q \in Requests |-> IF q \in {r} THEN None ELSE copy[q]]
      /\ answer' = [q \in Requests |-> IF q \in {r} THEN None ELSE answer[q]]
  BY DEF Ends, Reset
<1> QED
  BY <1>1, <1>2 DEF ServiceInv, InHand, HandOK, Types, Places

\* No step changes the file under what a guest has read of it.
LEMMA InHandStep == ServiceInv /\ [ServiceNext]_serviceVars => InHand'
<1> SUFFICES ASSUME ServiceInv, [ServiceNext]_serviceVars PROVE InHand'
  OBVIOUS
<1>1. ASSUME UNCHANGED <<index, tmp, at, copy, answer, guest>> PROVE InHand'
  BY <1>1 DEF ServiceInv, InHand, HandOK
<1>2. ASSUME NEW r \in Requests, Answered(r) \/ Stall(r) \/ ServerStalls(r) \/ Resume(r) \/ Compute(r) \/ ClientGone(r)
      PROVE  InHand'
  BY <1>1, <1>2 DEF Answered, Respond, Stall, ServerStalls, Resume, Compute, ClientGone, DisconnectServing, vars
<1>3. ASSUME NEW r \in Requests, Returns(r) \/ Traps(r) \/ EpochTrap(r) PROVE InHand'
  BY <1>3, EndsInHand DEF Returns, Traps, EpochTrap
<1>4. CASE Shutdown \/ UNCHANGED serviceVars
  BY <1>1, <1>4 DEF Shutdown, serviceVars, vars
<1>5. CASE RestartAll
  <2>1. /\ at' = [r \in Requests |-> "start"] /\ copy' = [r \in Requests |-> None]
        /\ answer' = [r \in Requests |-> None] /\ guest' = {} /\ index' = index
    BY <1>5 DEF RestartAll, Restart, Reset, fileVars
  <2> QED
    BY <2>1 DEF ServiceInv, InHand, HandOK, Places
<1> QED
  BY <1>2, <1>3, <1>4, <1>5, AdmissionInHand, FileStepInHand DEF ServiceNext

\* So it is in every state, with the admission of Host.
LEMMA ServiceInvAlways == ServiceSpec => []ServiceInv
<1>1. ServiceInit => ServiceInv
  <2>1. Init => Types /\ OneGuest
    BY DEF Init, Types, OneGuest, Holders, States
  <2> QED
    BY <2>1, InitInHand DEF ServiceInit, ServiceInv
<1>2. ServiceInv /\ [ServiceNext]_serviceVars => ServiceInv'
  BY AdmissionStep, TypesStep, OneGuestStep, InHandStep DEF ServiceInv
<1> QED
  BY <1>1, <1>2, PTL DEF ServiceSpec

(***************************************************************************)
(* The detailed store implements the atomic one: a rename adds one edit to *)
(* the file as it is, a lookup is of the file as it is, and everything     *)
(* else is invisible.                                                      *)
(***************************************************************************)
THEOREM StoreIsAtomic == ServiceSpec => IndexIsAtomic
<1>1. ServiceInit => Store!Init
  BY DEF ServiceInit, Store!Init
<1>2. ServiceInv /\ [ServiceNext]_serviceVars => [Store!Next]_<<index, answer>>
  <2> SUFFICES ASSUME ServiceInv, [ServiceNext]_serviceVars PROVE [Store!Next]_<<index, answer>>
    OBVIOUS
  <2>1. ASSUME NEW r \in Requests, Arrives(r) \/ IsAdmitted(r) \/ Leaves(r)
        PROVE  UNCHANGED <<index, answer>>
    BY <2>1 DEF Arrives, IsAdmitted, Leaves, Admission
  <2>2. ASSUME NEW r \in Requests, Load(r) \/ WriteTmp(r) \/ Unsaved(r) \/ ReadHeader(r)
        PROVE  UNCHANGED <<index, answer>>
    BY <2>2 DEF Load, WriteTmp, Unsaved, ReadHeader
  <2>3. ASSUME NEW r \in Requests, RenameTmp(r) PROVE Store!Edit(r)
    <3>1. r \in guest /\ at[r] = "written"
      BY <2>3 DEF RenameTmp, GoesOn
    <3>2. tmp = index \cup {r} /\ tmp \in SUBSET Requests
      BY <3>1 DEF ServiceInv, InHand, HandOK, Contents
    <3> QED
      BY <2>3, <3>2, ServiceAssumption DEF RenameTmp, Store!Edit
  <2>4. ASSUME NEW r \in Requests, ReadBlock(r) PROVE Store!Lookup(r)
    <3>1. r \in guest /\ at[r] = "header"
      BY <2>4 DEF ReadBlock, GoesOn
    <3>2. copy[r] = index
      BY <3>1 DEF ServiceInv, InHand, HandOK
    <3> QED
      BY <2>4, <3>2 DEF ReadBlock, Store!Lookup
  <2>5. ASSUME NEW r \in Requests, Ends(r) PROVE Store!Next
    <3>1. {r} \in SUBSET Requests /\ Store!Forget({r})
      BY <2>5 DEF Ends, Reset, Store!Forget
    <3> QED
      BY <3>1 DEF Store!Next
  <2>6. ASSUME NEW r \in Requests, Answered(r) \/ Stall(r) \/ ServerStalls(r) \/ Resume(r) \/ Compute(r) \/ ClientGone(r)
        PROVE  UNCHANGED <<index, answer>>
    BY <2>6 DEF Answered, Stall, ServerStalls, Resume, Compute, ClientGone
  <2>7. CASE RestartAll
    <3>1. Requests \in SUBSET Requests /\ Store!Forget(Requests)
      BY <2>7 DEF RestartAll, Reset, Store!Forget, fileVars
    <3> QED
      BY <3>1 DEF Store!Next
  <2>8. CASE Shutdown \/ UNCHANGED serviceVars
    BY <2>8 DEF Shutdown, serviceVars
  <2> QED
    BY <2>1, <2>2, <2>3, <2>4, <2>5, <2>6, <2>7, <2>8
       DEF ServiceNext, FileStep, Returns, Traps, EpochTrap, Store!Next
<1> QED
  BY <1>1, <1>2, ServiceInvAlways, PTL DEF ServiceSpec, IndexIsAtomic, Store!Spec

-----------------------------------------------------------------------------
\* The types of what neither admission nor the store has.
LeftOver ==
    /\ tmp \in Contents \cup {None}
    /\ stuck \in [Requests -> {"no", "client", "server", "computing"}]
    /\ draining \in BOOLEAN

\* A step through the files writes what the guest has read, and its own edit.
LEMMA FileStepLeftOver ==
  ASSUME ServiceInv, LeftOver, NEW r \in Requests, FileStep(r)
  PROVE  LeftOver'
<1>1. stuck' = stuck /\ draining' = draining
  BY DEF FileStep, Load, WriteTmp, RenameTmp, Unsaved, ReadHeader, ReadBlock, GoesOn
<1>2. CASE WriteTmp(r)
  <2>1. r \in guest /\ at[r] = "loaded" /\ tmp' = copy[r] \cup {r}
    BY <1>2 DEF WriteTmp, GoesOn
  <2>2. copy[r] = index /\ index \in Contents
    BY <2>1 DEF ServiceInv, InHand, HandOK
  <2> QED
    BY <1>1, <2>1, <2>2 DEF LeftOver, Contents
<1>3. CASE ~WriteTmp(r)
  <2>1. tmp' = tmp \/ tmp' = None
    BY <1>3 DEF FileStep, Load, RenameTmp, Unsaved, ReadHeader, ReadBlock, fileVars
  <2> QED
    BY <1>1, <2>1 DEF LeftOver
<1> QED
  BY <1>2, <1>3

\* Every step keeps the types of the temporary file and of what a guest is stuck on.
LEMMA LeftOverStep == ServiceInv /\ LeftOver /\ [ServiceNext]_serviceVars => LeftOver'
<1> SUFFICES ASSUME ServiceInv, LeftOver, [ServiceNext]_serviceVars PROVE LeftOver'
  OBVIOUS
<1> USE DEF LeftOver
<1>1. ASSUME NEW r \in Requests, Arrives(r) \/ IsAdmitted(r) \/ Leaves(r) \/ Answered(r) PROVE LeftOver'
  BY <1>1 DEF Arrives, IsAdmitted, Leaves, Admission, Answered
<1>2. ASSUME NEW r \in Requests, Returns(r) \/ Traps(r) \/ EpochTrap(r) PROVE LeftOver'
  BY <1>2 DEF Returns, Traps, EpochTrap, Ends, Reset
<1>3. ASSUME NEW r \in Requests, Stall(r) \/ ServerStalls(r) \/ Resume(r) \/ Compute(r) \/ ClientGone(r)
      PROVE  LeftOver'
  BY <1>3 DEF Stall, ServerStalls, Resume, Compute, ClientGone
<1>4. CASE Shutdown
  BY <1>4 DEF Shutdown
<1>5. CASE RestartAll
  BY <1>5 DEF RestartAll, Reset, fileVars
<1>6. CASE UNCHANGED serviceVars
  BY <1>6 DEF serviceVars
<1> QED
  BY <1>1, <1>2, <1>3, <1>4, <1>5, <1>6, FileStepLeftOver DEF ServiceNext

(***************************************************************************)
(* The types of the whole service, of admission (Host) and of the files:   *)
(* what WriteTmp leaves for a later guest to find is a snapshot.           *)
(***************************************************************************)
THEOREM ServiceTypeCorrect == ServiceSpec => []ServiceTypeOK
<1>1. ServiceInit => LeftOver
  BY DEF ServiceInit, LeftOver
<1>2. TypeOK /\ ServiceInv /\ LeftOver => ServiceTypeOK
  BY DEF ServiceTypeOK, LeftOver, ServiceInv, InHand
<1> QED
  BY <1>1, <1>2, LeftOverStep, ServiceInvAlways, ServiceImplementsHost, TypeCorrect, PTL DEF ServiceSpec
=============================================================================
