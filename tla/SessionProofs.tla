---------------------------- MODULE SessionProofs ----------------------------
(***************************************************************************)
(* Session keeps its types, a driver's position is on the server before    *)
(* its profile, and a session settles, for any accounts and any number of  *)
(* taps, sign-up screens and process deaths.                               *)
(***************************************************************************)
EXTENDS Session, SequenceTheorems, FiniteSetTheorems, TLAPS

\* The callbacks of a sign-up carry the account type that was chosen.
TypedBlock ==
    {b \in Block : b.kind \in {"create", "setLocation", "geofire"} => b.type \in AccountType}
TypedCall == {c \in Call : c.kind = "create" => c.type \in AccountType}

TypeInv ==
    /\ TypeOK
    /\ calls \subseteq TypedCall
    /\ mainQ \in Seq(TypedBlock)

LEMMA InitType == Init => TypeInv
<1>. SUFFICES ASSUME Init PROVE TypeInv
  OBVIOUS
<1>1. users \in [Accounts -> Profile] /\ positions \subseteq Accounts
  BY ExistingAssumption DEF Init, Profile
<1>2. 0 \in 0 .. MaxPushes /\ 0 \in 0 .. MaxTaps /\ 0 \in 0 .. MaxDeaths /\ 0 \in Nat
  BY BoundsAssumption
<1>3. <<>> \in Seq(Put) /\ <<>> \in Seq(Block) /\ <<>> \in Seq(TypedBlock)
  OBVIOUS
<1>. QED
  BY <1>1, <1>2, <1>3, ExistingAssumption DEF Init, TypeInv, TypeOK

\* A block enters the main queue.
LEMMA EnqueueType ==
    ASSUME TypeInv, NEW kind, NEW uid, NEW type, NEW loc, NEW ctrl,
           [kind |-> kind, uid |-> uid, type |-> type, loc |-> loc, ctrl |-> ctrl]
             \in TypedBlock,
           Enqueue(kind, uid, type, loc, ctrl)
    PROVE  mainQ' \in Seq(Block) /\ mainQ' \in Seq(TypedBlock)
BY DEF Enqueue, TypeInv, TypeOK, TypedBlock

\* The oldest block leaves it.
LEMMA RunBlockType ==
    ASSUME TypeInv, NEW kind, RunBlock(kind)
    PROVE  /\ mainQ' \in Seq(Block) /\ mainQ' \in Seq(TypedBlock)
           /\ Head(mainQ) \in TypedBlock /\ Head(mainQ) \in Block
           /\ Head(mainQ).kind = kind
<1>1. mainQ \in Seq(TypedBlock) /\ mainQ \in Seq(Block) /\ mainQ # <<>>
  BY DEF TypeInv, TypeOK, RunBlock
<1>2. Head(mainQ) \in TypedBlock /\ Tail(mainQ) \in Seq(TypedBlock)
  BY <1>1, HeadTailProperties
<1>3. Head(mainQ) \in Block /\ Tail(mainQ) \in Seq(Block)
  BY <1>1, HeadTailProperties
<1>. QED
  BY <1>2, <1>3 DEF RunBlock

LEMMA UserTapType == TypeInv /\ (UserTap \/ LocationFix) => TypeInv'
<1>. SUFFICES ASSUME TypeInv, UserTap \/ LocationFix PROVE TypeInv'
  OBVIOUS
<1>. USE BoundsAssumption DEF authVars, serverVars, screenVars, homeVars
<1>1. CASE OnSignUp
  <2>1. pushes' \in 0 .. MaxPushes
    BY <1>1 DEF TypeInv, TypeOK, OnSignUp
  <2>. QED
    BY <1>1, <2>1 DEF TypeInv, TypeOK, OnSignUp
<1>2. CASE OnLoginPop
  BY <1>2 DEF TypeInv, TypeOK, OnLoginPop
<1>3. ASSUME NEW call \in TypedCall, Ask(call) PROVE TypeInv'
  <2>1. taps' \in 0 .. MaxTaps /\ calls' \subseteq TypedCall /\ calls' \subseteq Call
    BY <1>3 DEF TypeInv, TypeOK, Ask, TypedCall
  <2>. QED
    BY <1>3, <2>1 DEF TypeInv, TypeOK, Ask
<1>4. taps < MaxTaps => taps + 1 \in 1 .. MaxTaps
  BY DEF TypeInv, TypeOK
<1>5. ASSUME NEW u \in Accounts, OnLogin(u) PROVE TypeInv'
  <2>1. 0 \in 0 .. MaxPushes
    OBVIOUS
  <2>2. [tap |-> taps + 1, kind |-> "signIn", uid |-> u, type |-> "none",
         loc |-> FALSE, ctrl |-> 0] \in TypedCall
    BY <1>5, <1>4, <2>1 DEF OnLogin, Ask, TypedCall, Call, Profile
  <2>. QED
    BY <1>5, <2>2, <1>3 DEF OnLogin
<1>6. ASSUME NEW u \in Accounts, NEW t \in AccountType, OnSignUpComplete(u, t)
      PROVE  TypeInv'
  <2>1. [tap |-> taps + 1, kind |-> "create", uid |-> u, type |-> t,
         loc |-> location, ctrl |-> pushes] \in TypedCall
    BY <1>6, <1>4 DEF OnSignUpComplete, Ask, TypedCall, Call, Profile, TypeInv, TypeOK
  <2>. QED
    BY <1>6, <2>1, <1>3 DEF OnSignUpComplete
<1>7. CASE LocationFix
  BY <1>7 DEF TypeInv, TypeOK, LocationFix
<1>. QED
  BY <1>1, <1>2, <1>5, <1>6, <1>7 DEF UserTap

LEMMA ServiceType == TypeInv /\ Service => TypeInv'
<1>. SUFFICES ASSUME TypeInv, Service PROVE TypeInv'
  OBVIOUS
<1>. USE BoundsAssumption DEF authVars, serverVars, screenVars, homeVars
<1>1. ASSUME NEW c \in calls, AuthSuccess(c) PROVE TypeInv'
  <2>1. c \in TypedCall
    BY DEF TypeInv
  <2>2. [kind |-> c.kind, uid |-> c.uid, type |-> c.type, loc |-> c.loc, ctrl |-> c.ctrl]
          \in TypedBlock
    BY <2>1 DEF TypedCall, Call, TypedBlock, Block
  <2>3. mainQ' \in Seq(Block) /\ mainQ' \in Seq(TypedBlock)
    BY <1>1, <2>2, EnqueueType DEF AuthSuccess
  <2>4. c.uid \in Accounts
    BY <2>1 DEF TypedCall, Call
  <2>5. /\ registered' \subseteq Accounts /\ currentUser' \subseteq registered'
        /\ unlocated' \subseteq Accounts
        /\ calls' \subseteq Call /\ calls' \subseteq TypedCall
    BY <1>1, <2>4 DEF AuthSuccess, TypeInv, TypeOK
  <2>6. due' \in Nat
    BY <1>1 DEF AuthSuccess, TypeInv, TypeOK
  <2>. QED
    BY <1>1, <2>3, <2>5, <2>6 DEF AuthSuccess, TypeInv, TypeOK
<1>2. ASSUME NEW c \in calls, AuthFailure(c) PROVE TypeInv'
  BY <1>2 DEF AuthFailure, TypeInv, TypeOK
<1>3. ASSUME NEW ok \in BOOLEAN, ServerPut(ok) PROVE TypeInv'
  <2>1. Head(puts) \in Put /\ Tail(puts) \in Seq(Put)
    BY <1>3, HeadTailProperties DEF ServerPut, TypeInv, TypeOK
  <2>2. [kind |-> Head(puts).kind, uid |-> Head(puts).uid, type |-> Head(puts).type,
         loc |-> FALSE, ctrl |-> Head(puts).ctrl] \in TypedBlock
    BY <2>1 DEF Put, TypedBlock, Block, Profile
  <2>3. mainQ' \in Seq(Block) /\ mainQ' \in Seq(TypedBlock)
    BY <1>3, <2>2, EnqueueType DEF ServerPut
  <2>4. Head(puts).uid \in Accounts /\ Head(puts).type \in Profile
    BY <2>1 DEF Put, Profile
  <2>5. /\ users' \in [Accounts -> Profile] /\ positions' \subseteq Accounts
        /\ refused' \subseteq Accounts /\ puts' \in Seq(Put)
    BY <1>3, <2>1, <2>4 DEF ServerPut, TypeInv, TypeOK
  <2>. QED
    BY <1>3, <2>3, <2>5 DEF ServerPut, TypeInv, TypeOK
<1>4. ASSUME NEW u \in Accounts, ServerFetch(u) PROVE TypeInv'
  <2>1. [kind |-> "fetch", uid |-> u, type |-> users[u], loc |-> FALSE, ctrl |-> 0]
          \in TypedBlock
    BY DEF TypedBlock, Block, TypeInv, TypeOK
  <2>2. mainQ' \in Seq(Block) /\ mainQ' \in Seq(TypedBlock)
    BY <1>4, <2>1, EnqueueType DEF ServerFetch
  <2>3. fetches' \in [Accounts -> Nat]
    BY <1>4 DEF ServerFetch, TypeInv, TypeOK
  <2>. QED
    BY <1>4, <2>2, <2>3 DEF ServerFetch, TypeInv, TypeOK
<1>. QED
  BY <1>1, <1>2, <1>3, <1>4 DEF Service

LEMMA CallbackType == TypeInv /\ Callback => TypeInv'
<1>. SUFFICES ASSUME TypeInv, Callback PROVE TypeInv'
  OBVIOUS
<1>. USE DEF authVars, serverVars, screenVars, homeVars
<1>1. CASE OnCreated
  <2>1. /\ mainQ' \in Seq(Block) /\ mainQ' \in Seq(TypedBlock)
        /\ Head(mainQ) \in TypedBlock /\ Head(mainQ).kind = "create"
    BY <1>1, RunBlockType DEF OnCreated
  <2>2. Upload(Head(mainQ)) \in Put /\ SetLocation(Head(mainQ)) \in Put
    BY <2>1 DEF TypedBlock, Block, Upload, SetLocation, Put
  <2>3. SignUpPuts(Head(mainQ)) \in Seq(Put)
    BY <2>2 DEF SignUpPuts
  <2>4. puts' \in Seq(Put)
    BY <1>1, <2>3, ConcatProperties DEF OnCreated, TypeInv, TypeOK
  <2>. QED
    BY <1>1, <2>1, <2>4 DEF OnCreated, TypeInv, TypeOK
<1>2. CASE GeoFireDone
  <2>1. mainQ \in Seq(TypedBlock) /\ mainQ \in Seq(Block) /\ mainQ # <<>>
    BY <1>2 DEF GeoFireDone, TypeInv, TypeOK
  <2>2. Head(mainQ) \in TypedBlock /\ Tail(mainQ) \in Seq(TypedBlock) /\ Tail(mainQ) \in Seq(Block)
    BY <2>1, HeadTailProperties
  <2>3. [Head(mainQ) EXCEPT !.kind = "geofire"] \in TypedBlock
    BY <1>2, <2>2 DEF GeoFireDone, TypedBlock, Block
  <2>4. mainQ' \in Seq(TypedBlock) /\ mainQ' \in Seq(Block)
    BY <1>2, <2>2, <2>3 DEF GeoFireDone, TypedBlock
  <2>. QED
    BY <1>2, <2>4 DEF GeoFireDone, TypeInv, TypeOK
<1>3. CASE OnLocationSet
  <2>1. /\ mainQ' \in Seq(Block) /\ mainQ' \in Seq(TypedBlock)
        /\ Head(mainQ) \in TypedBlock /\ Head(mainQ).kind = "geofire"
    BY <1>3, RunBlockType DEF OnLocationSet
  <2>2. Upload(Head(mainQ)) \in Put
    BY <2>1 DEF TypedBlock, Block, Upload, Put
  <2>3. puts' \in Seq(Put)
    BY <1>3, <2>2 DEF OnLocationSet, TypeInv, TypeOK
  <2>. QED
    BY <1>3, <2>1, <2>3 DEF OnLocationSet, TypeInv, TypeOK
<1>4. CASE OnSignedInOrUploaded
  <2>1. mainQ' \in Seq(Block) /\ mainQ' \in Seq(TypedBlock)
    BY <1>4, RunBlockType DEF OnSignedInOrUploaded
  <2>2. fetches' \in [Accounts -> Nat] /\ screen' \in {"login", "signup", "home"}
    BY <1>4 DEF OnSignedInOrUploaded, Setup, Dismiss, TypeInv, TypeOK
  <2>. QED
    BY <1>4, <2>1, <2>2 DEF OnSignedInOrUploaded, TypeInv, TypeOK
<1>5. CASE OnFetched
  <2>1. mainQ' \in Seq(Block) /\ mainQ' \in Seq(TypedBlock) /\ Head(mainQ) \in Block
    BY <1>5, RunBlockType DEF OnFetched
  <2>2. user' \subseteq [uid : Accounts, type : AccountType]
    BY <1>5, <2>1 DEF OnFetched, UserOf, Block, Profile, TypeInv, TypeOK
  <2>3. observers' \in [AccountType -> Nat]
    BY <1>5 DEF OnFetched, TypeInv, TypeOK
  <2>. QED
    BY <1>5, <2>1, <2>2, <2>3 DEF OnFetched, TypeInv, TypeOK
<1>. QED
  BY <1>1, <1>2, <1>3, <1>4, <1>5 DEF Callback

LEMMA RestartType == TypeInv /\ Restart => TypeInv'
<1>. SUFFICES ASSUME TypeInv, Restart PROVE TypeInv'
  OBVIOUS
<1>. USE BoundsAssumption DEF authVars, serverVars, screenVars, homeVars
<1>1. registered' \subseteq Accounts /\ currentUser' \subseteq registered'
  BY DEF Restart, TypeInv, TypeOK, Call
<1>2. deaths' \in 0 .. MaxDeaths /\ 0 \in 0 .. MaxPushes /\ 0 \in 0 .. MaxTaps /\ due' \in Nat
  BY DEF Restart, TypeInv, TypeOK
<1>3. fetches' \in [Accounts -> Nat] /\ observers' \in [AccountType -> Nat]
  BY DEF Restart, TypeInv, TypeOK
<1>4. <<>> \in Seq(Put) /\ <<>> \in Seq(Block) /\ <<>> \in Seq(TypedBlock)
  OBVIOUS
<1>. QED
  BY <1>1, <1>2, <1>3, <1>4 DEF Restart, TypeInv, TypeOK

LEMMA NextType == TypeInv /\ [Next]_vars => TypeInv'
<1>. SUFFICES ASSUME TypeInv, [Next]_vars PROVE TypeInv'
  OBVIOUS
<1>1. CASE UNCHANGED vars
  BY <1>1 DEF vars, authVars, serverVars, screenVars, homeVars, TypeInv, TypeOK
<1>. QED
  BY <1>1, UserTapType, ServiceType, CallbackType, RestartType DEF Next

LEMMA SpecType == Spec => []TypeInv
BY InitType, NextType, PTL DEF Spec

\* Whatever chains of callbacks overlap or are cut short, Auth, the server's
\* records and the screens keep their types, and the signed-in account is one
\* that Auth knows.
THEOREM SessionTypeCorrect == Spec => []TypeOK
<1>1. TypeInv => TypeOK
  BY DEF TypeInv
<1>. QED
  BY <1>1, SpecType, PTL

-----------------------------------------------------------------------------
(* A driver's position precedes its profile.                               *)

\* Accounts whose position was written, or that had a write refused.
Settled == positions \cup refused

\* A driver's profile waits behind its position, in the queue of writes or
\* because the callback that writes it comes from the position's answer.
PositionFirst ==
    /\ DriverIsLocated
    /\ \A i \in 1 .. Len(puts) :
         puts[i].kind = "upload" /\ puts[i].type = "driver" =>
            \/ puts[i].uid \in Settled
            \/ \E j \in 1 .. (i - 1) :
                 puts[j].kind = "setLocation" /\ puts[j].uid = puts[i].uid
    /\ \A i \in 1 .. Len(mainQ) :
         mainQ[i].kind \in {"setLocation", "geofire"} => mainQ[i].uid \in Settled

LEMMA InitPosition == Init => PositionFirst
BY DEF Init, PositionFirst, DriverIsLocated

\* The queues stand still or lose their heads or are emptied: what was true of
\* every position of mainQ stays true.
LEMMA RunBlockSettled ==
    ASSUME TypeInv, PositionFirst, NEW kind, RunBlock(kind)
    PROVE  /\ \A i \in 1 .. Len(mainQ') :
                mainQ'[i].kind \in {"setLocation", "geofire"} => mainQ'[i].uid \in Settled
           /\ kind \in {"setLocation", "geofire"} => Head(mainQ).uid \in Settled
<1>1. mainQ \in Seq(Block) /\ mainQ # <<>> /\ mainQ' = Tail(mainQ) /\ Head(mainQ).kind = kind
  BY DEF TypeInv, TypeOK, RunBlock
<1>2. Len(mainQ) \in Nat /\ Len(mainQ) >= 1 /\ Len(Tail(mainQ)) = Len(mainQ) - 1
  BY <1>1, HeadTailProperties, EmptySeq, LenProperties
<1>3. \A i \in 1 .. Len(Tail(mainQ)) : Tail(mainQ)[i] = mainQ[i + 1]
  BY <1>1, HeadTailProperties
<1>4. Head(mainQ) = mainQ[1]
  BY <1>1
<1>. QED
  BY <1>1, <1>2, <1>3, <1>4 DEF PositionFirst

\* A block that is not GeoFire's, or is of a settled account, may be added.
LEMMA EnqueueSettled ==
    ASSUME TypeInv, PositionFirst, Settled \subseteq Settled',
           NEW kind, NEW uid, NEW type, NEW loc, NEW ctrl,
           kind \in {"setLocation", "geofire"} => uid \in Settled',
           Enqueue(kind, uid, type, loc, ctrl)
    PROVE  \A i \in 1 .. Len(mainQ') :
              mainQ'[i].kind \in {"setLocation", "geofire"} => mainQ'[i].uid \in Settled'
<1>1. mainQ \in Seq(Block)
  BY DEF TypeInv, TypeOK
<1>2. Len(mainQ') = Len(mainQ) + 1
  BY <1>1 DEF Enqueue
<1>3. \A i \in 1 .. Len(mainQ) : mainQ'[i] = mainQ[i]
  BY <1>1 DEF Enqueue
<1>4. mainQ'[Len(mainQ) + 1] = [kind |-> kind, uid |-> uid, type |-> type, loc |-> loc, ctrl |-> ctrl]
  BY <1>1 DEF Enqueue
<1>5. Len(mainQ) \in Nat
  BY <1>1
<1>. QED
  BY <1>2, <1>3, <1>4, <1>5 DEF PositionFirst

LEMMA NextPosition == TypeInv /\ PositionFirst /\ [Next]_vars => PositionFirst'
<1>. SUFFICES ASSUME TypeInv, PositionFirst, [Next]_vars PROVE PositionFirst'
  OBVIOUS
<1>. USE DEF authVars, serverVars, screenVars, homeVars
<1>0. puts \in Seq(Put) /\ mainQ \in Seq(Block)
  BY DEF TypeInv, TypeOK
<1>1. ASSUME UNCHANGED <<users, positions, refused, puts, mainQ>> PROVE PositionFirst'
  BY <1>1 DEF PositionFirst, DriverIsLocated, Settled
<1>2. CASE UserTap \/ LocationFix
  BY <1>2, <1>1 DEF UserTap, OnSignUp, OnLoginPop, OnLogin, OnSignUpComplete, Ask, LocationFix
<1>3. ASSUME NEW c \in calls, AuthSuccess(c) PROVE PositionFirst'
  <2>1. c.kind \notin {"setLocation", "geofire"}
    BY DEF TypeInv, TypeOK, Call
  <2>2. \A i \in 1 .. Len(mainQ') :
           mainQ'[i].kind \in {"setLocation", "geofire"} => mainQ'[i].uid \in Settled'
    BY <1>3, <2>1, EnqueueSettled DEF AuthSuccess, Settled
  <2>. QED
    BY <1>3, <2>2 DEF AuthSuccess, PositionFirst, DriverIsLocated, Settled
<1>4. ASSUME NEW c \in calls, AuthFailure(c) PROVE PositionFirst'
  BY <1>4, <1>1 DEF AuthFailure
<1>5. ASSUME NEW ok \in BOOLEAN, ServerPut(ok) PROVE PositionFirst'
  <2>1. /\ puts # <<>> /\ Head(puts) = puts[1] /\ Head(puts) \in Put
        /\ Len(puts) \in Nat /\ Len(puts) >= 1
    BY <1>5, <1>0, HeadTailProperties, EmptySeq, LenProperties DEF ServerPut
  <2>2. /\ Len(puts') = Len(puts) - 1
        /\ \A i \in 1 .. Len(puts') : puts'[i] = puts[i + 1]
    BY <1>5, <1>0, <2>1, HeadTailProperties DEF ServerPut
  <2>3. Settled \subseteq Settled'
    BY <1>5 DEF ServerPut, Settled
  <2>4. Head(puts).kind = "setLocation" => Head(puts).uid \in Settled'
    BY <1>5 DEF ServerPut, Settled
  <2>5. DriverIsLocated'
    <3>1. Head(puts).kind = "upload" /\ Head(puts).type = "driver" => Head(puts).uid \in Settled
      BY <2>1 DEF PositionFirst
    <3>2. users \in [Accounts -> Profile] /\ Head(puts).uid \in Accounts
      BY <2>1 DEF TypeInv, TypeOK, Put
    <3>3. \A u \in Accounts : users[u] = "driver" => u \in Settled
      BY DEF PositionFirst, DriverIsLocated, Settled
    <3>4. \A u \in Accounts : users'[u] = "driver" => u \in Settled
      BY <1>5, <3>1, <3>2, <3>3 DEF ServerPut
    <3>. QED
      BY <2>3, <3>4 DEF DriverIsLocated, Settled
  <2>6. ASSUME NEW i \in 1 .. Len(puts'),
               puts'[i].kind = "upload" /\ puts'[i].type = "driver"
        PROVE  \/ puts'[i].uid \in Settled'
               \/ \E j \in 1 .. (i - 1) :
                    puts'[j].kind = "setLocation" /\ puts'[j].uid = puts'[i].uid
    <3>1. i + 1 \in 1 .. Len(puts) /\ puts'[i] = puts[i + 1]
      BY <2>1, <2>2
    <3>2. CASE puts[i + 1].uid \in Settled
      BY <2>3, <3>1, <3>2
    <3>3. CASE \E j \in 1 .. i : puts[j].kind = "setLocation" /\ puts[j].uid = puts[i + 1].uid
      <4>1. PICK j \in 1 .. i : puts[j].kind = "setLocation" /\ puts[j].uid = puts[i + 1].uid
        BY <3>3
      <4>2. CASE j = 1
        BY <4>1, <4>2, <2>1, <2>4, <3>1
      <4>3. CASE j # 1
        <5>1. j - 1 \in 1 .. (i - 1) /\ j - 1 \in 1 .. Len(puts') /\ (j - 1) + 1 = j
          BY <4>3, <2>1, <2>2
        <5>. QED
          BY <4>1, <5>1, <2>2, <3>1
      <4>. QED
        BY <4>2, <4>3
    <3>. QED
      BY <2>6, <3>1, <3>2, <3>3 DEF PositionFirst
  <2>7. \A i \in 1 .. Len(mainQ') :
           mainQ'[i].kind \in {"setLocation", "geofire"} => mainQ'[i].uid \in Settled'
    <3>1. Head(puts).kind \in {"setLocation", "geofire"} => Head(puts).uid \in Settled'
      BY <2>1, <2>4 DEF Put
    <3>. QED
      BY <1>5, <2>3, <3>1, EnqueueSettled DEF ServerPut
  <2>. QED
    BY <2>5, <2>6, <2>7 DEF PositionFirst
<1>6. ASSUME NEW u \in Accounts, ServerFetch(u) PROVE PositionFirst'
  <2>1. \A i \in 1 .. Len(mainQ') :
           mainQ'[i].kind \in {"setLocation", "geofire"} => mainQ'[i].uid \in Settled'
    BY <1>6, EnqueueSettled DEF ServerFetch, Settled
  <2>. QED
    BY <1>6, <2>1 DEF ServerFetch, PositionFirst, DriverIsLocated, Settled
<1>7. CASE OnCreated
  <2>. DEFINE b == Head(mainQ)
  <2>1. \A i \in 1 .. Len(mainQ') :
           mainQ'[i].kind \in {"setLocation", "geofire"} => mainQ'[i].uid \in Settled'
    BY <1>7, RunBlockSettled DEF OnCreated, Settled
  <2>2. Len(puts) \in Nat
    BY <1>0
  <2>3. CASE SignUpPuts(b) = <<>>
    BY <1>7, <1>0, <2>1, <2>3 DEF OnCreated, PositionFirst, DriverIsLocated, Settled
  <2>4. CASE b.type # "driver" /\ SignUpPuts(b) = <<Upload(b)>>
    <3>1. /\ Len(puts') = Len(puts) + 1
          /\ \A i \in 1 .. Len(puts) : puts'[i] = puts[i]
          /\ puts'[Len(puts) + 1] = Upload(b)
      BY <1>7, <1>0, <2>4 DEF OnCreated
    <3>2. Upload(b).type # "driver"
      BY <2>4 DEF Upload
    <3>. QED
      BY <1>7, <2>1, <2>2, <3>1, <3>2 DEF OnCreated, PositionFirst, DriverIsLocated, Settled
  <2>5. CASE SignUpPuts(b) = <<SetLocation(b), Upload(b)>>
    <3>. DEFINE two == <<SetLocation(b), Upload(b)>>
                n == Len(puts)
    <3>1. b \in TypedBlock /\ b.kind = "create"
      BY <1>7, RunBlockType DEF OnCreated
    <3>2. Upload(b) \in Put /\ SetLocation(b) \in Put
      BY <3>1 DEF TypedBlock, Block, Upload, SetLocation, Put
    <3>3. /\ two \in Seq(Put) /\ Len(two) = 2
          /\ two[1] = SetLocation(b) /\ two[2] = Upload(b)
      BY <3>2
    <3>4. puts' = puts \o two
      BY <1>7, <2>5 DEF OnCreated
    <3>. HIDE DEF two
    <3>5. /\ Len(puts') = n + 2
          /\ \A i \in 1 .. (n + 2) : puts'[i] = IF i <= n THEN puts[i] ELSE two[i - n]
      <4>1. /\ Len(puts \o two) = Len(puts) + Len(two)
            /\ \A i \in 1 .. Len(puts) + Len(two) :
                 (puts \o two)[i] = IF i <= Len(puts) THEN puts[i] ELSE two[i - Len(puts)]
        BY <1>0, <3>3, ConcatProperties, Zenon
      <4>. QED
        BY <3>3, <3>4, <4>1, Zenon
    <3>6. /\ \A i \in 1 .. n : puts'[i] = puts[i]
          /\ puts'[n + 1] = SetLocation(b) /\ puts'[n + 2] = Upload(b)
      BY <2>2, <3>3, <3>5
    <3>7. /\ SetLocation(b).kind = "setLocation"
          /\ SetLocation(b).uid = Upload(b).uid
      BY DEF SetLocation, Upload
    <3>8. UNCHANGED <<users, positions, refused>>
      BY <1>7 DEF OnCreated
    <3>9. ASSUME NEW i \in 1 .. Len(puts'),
                 puts'[i].kind = "upload" /\ puts'[i].type = "driver"
          PROVE  \/ puts'[i].uid \in Settled'
                 \/ \E j \in 1 .. (i - 1) :
                      puts'[j].kind = "setLocation" /\ puts'[j].uid = puts'[i].uid
      <4>1. CASE i \in 1 .. n
        <5>1. \A j \in 1 .. (i - 1) : puts'[j] = puts[j]
          BY <2>2, <3>6, <4>1
        <5>2. \/ puts[i].uid \in Settled
              \/ \E j \in 1 .. (i - 1) :
                   puts[j].kind = "setLocation" /\ puts[j].uid = puts[i].uid
          BY <3>6, <3>9, <4>1 DEF PositionFirst
        <5>. QED
          BY <3>6, <3>8, <4>1, <5>1, <5>2 DEF Settled
      <4>2. CASE i = n + 1
        <5>1. puts'[i].kind = "setLocation"
          BY <3>6, <3>7, <4>2
        <5>. QED
          BY <3>9, <5>1
      <4>3. CASE i = n + 2
        <5>1. n + 1 \in 1 .. (i - 1)
          BY <2>2, <4>3
        <5>. QED
          BY <3>6, <3>7, <4>3, <5>1
      <4>. QED
        BY <2>2, <3>5, <4>1, <4>2, <4>3
    <3>. QED
      BY <2>1, <3>8, <3>9 DEF PositionFirst, DriverIsLocated, Settled
  <2>. QED
    BY <2>3, <2>4, <2>5 DEF SignUpPuts
<1>8. CASE GeoFireDone
  <2>. DEFINE b == [Head(mainQ) EXCEPT !.kind = "geofire"]
  <2>1. /\ mainQ # <<>> /\ Head(mainQ) = mainQ[1] /\ Head(mainQ) \in Block
        /\ Len(mainQ) \in Nat /\ Len(mainQ) >= 1 /\ Tail(mainQ) \in Seq(Block)
        /\ Head(mainQ).kind = "setLocation"
    BY <1>8, <1>0, HeadTailProperties, EmptySeq, LenProperties DEF GeoFireDone
  <2>2. /\ Len(Tail(mainQ)) = Len(mainQ) - 1
        /\ \A i \in 1 .. Len(Tail(mainQ)) : Tail(mainQ)[i] = mainQ[i + 1]
    BY <1>0, <2>1, HeadTailProperties
  <2>3. b.uid = mainQ[1].uid /\ mainQ' = Append(Tail(mainQ), b)
    BY <1>8, <2>1 DEF GeoFireDone, Block
  <2>4. /\ Len(mainQ') = Len(mainQ)
        /\ \A i \in 1 .. (Len(mainQ) - 1) : mainQ'[i] = mainQ[i + 1]
        /\ mainQ'[Len(mainQ)] = b
    BY <2>1, <2>2, <2>3
  <2>5. b.uid \in Settled
    BY <2>1, <2>3 DEF PositionFirst
  <2>6. UNCHANGED <<users, positions, refused, puts>>
    BY <1>8 DEF GeoFireDone
  <2>7. \A i \in 1 .. Len(mainQ') :
           mainQ'[i].kind \in {"setLocation", "geofire"} => mainQ'[i].uid \in Settled
    <3>. SUFFICES ASSUME NEW i \in 1 .. Len(mainQ'),
                         mainQ'[i].kind \in {"setLocation", "geofire"}
                  PROVE  mainQ'[i].uid \in Settled
      OBVIOUS
    <3>1. CASE i = Len(mainQ)
      BY <2>4, <2>5, <3>1
    <3>2. CASE i # Len(mainQ)
      <4>1. i + 1 \in 1 .. Len(mainQ) /\ mainQ'[i] = mainQ[i + 1]
        BY <2>1, <2>4, <3>2
      <4>. QED
        BY <4>1 DEF PositionFirst
    <3>. QED
      BY <3>1, <3>2
  <2>. QED
    BY <2>6, <2>7 DEF PositionFirst, DriverIsLocated, Settled
<1>9. CASE OnLocationSet
  <2>. DEFINE b == Head(mainQ)
  <2>1. /\ \A i \in 1 .. Len(mainQ') :
              mainQ'[i].kind \in {"setLocation", "geofire"} => mainQ'[i].uid \in Settled'
        /\ b.uid \in Settled'
    BY <1>9, RunBlockSettled DEF OnLocationSet, Settled
  <2>2. /\ Len(puts') = Len(puts) + 1
        /\ \A i \in 1 .. Len(puts) : puts'[i] = puts[i]
        /\ puts'[Len(puts) + 1] = Upload(b)
        /\ Len(puts) \in Nat
    BY <1>9, <1>0 DEF OnLocationSet
  <2>3. Upload(b).uid = b.uid
    BY DEF Upload
  <2>. QED
    BY <1>9, <2>1, <2>2, <2>3 DEF OnLocationSet, PositionFirst, DriverIsLocated, Settled
<1>10. CASE OnSignedInOrUploaded
  <2>1. \A i \in 1 .. Len(mainQ') :
           mainQ'[i].kind \in {"setLocation", "geofire"} => mainQ'[i].uid \in Settled'
    BY <1>10, RunBlockSettled DEF OnSignedInOrUploaded, Settled
  <2>. QED
    BY <1>10, <2>1 DEF OnSignedInOrUploaded, PositionFirst, DriverIsLocated, Settled
<1>11. CASE OnFetched
  <2>1. \A i \in 1 .. Len(mainQ') :
           mainQ'[i].kind \in {"setLocation", "geofire"} => mainQ'[i].uid \in Settled'
    BY <1>11, RunBlockSettled DEF OnFetched, Settled
  <2>. QED
    BY <1>11, <2>1 DEF OnFetched, PositionFirst, DriverIsLocated, Settled
<1>12. CASE Restart
  BY <1>12 DEF Restart, PositionFirst, DriverIsLocated, Settled
<1>13. CASE UNCHANGED vars
  BY <1>13, <1>1 DEF vars
<1>. QED
  BY <1>2, <1>3, <1>4, <1>5, <1>6, <1>7, <1>8, <1>9, <1>10, <1>11, <1>12, <1>13
  DEF Next, Service, Callback

\* For any accounts, overlapping sign-ups and process deaths: a driver whose
\* profile is on the server has its position there too, unless one of its
\* writes was refused.
THEOREM DriversLocated == Spec => []DriverIsLocated
<1>1. PositionFirst => DriverIsLocated
  BY DEF PositionFirst
<1>. QED
  BY <1>1, InitPosition, NextPosition, SpecType, PTL DEF Spec

\* For any accounts and bounds: the accounts on the server stay consistent.
THEOREM AccountsStayConsistent == Spec => []AccountsConsistent
BY SessionTypeCorrect, DriversLocated, PTL DEF AccountsConsistent

-----------------------------------------------------------------------------
(* How a session settles.                                                  *)

\* What a queue holds.
Held(q) == {q[i] : i \in 1 .. Len(q)}

LEMMA HeldAppend ==
    ASSUME NEW S, NEW q \in Seq(S), NEW e
    PROVE  Len(Append(q, e)) = Len(q) + 1 /\ Held(Append(q, e)) = Held(q) \cup {e}
<1>1. /\ Len(Append(q, e)) = Len(q) + 1 /\ Len(q) \in Nat
      /\ \A i \in 1 .. Len(q) : Append(q, e)[i] = q[i]
      /\ Append(q, e)[Len(q) + 1] = e
  OBVIOUS
<1>2. \A i : i \in 1 .. Len(q) + 1 <=> i \in 1 .. Len(q) \/ i = Len(q) + 1
  BY <1>1
<1>. QED
  BY <1>1, <1>2 DEF Held

LEMMA HeldTail ==
    ASSUME NEW S, NEW q \in Seq(S), q # <<>>
    PROVE  /\ Len(Tail(q)) = Len(q) - 1 /\ Len(q) \in Nat
           /\ Head(q) \in Held(q) /\ Head(q) \in S /\ Tail(q) \in Seq(S)
           /\ Held(Tail(q)) \subseteq Held(q) /\ Held(q) \subseteq Held(Tail(q)) \cup {Head(q)}
<1>1. /\ Len(q) \in Nat /\ Len(q) >= 1 /\ Head(q) = q[1] /\ Head(q) \in S
      /\ Tail(q) \in Seq(S) /\ Len(Tail(q)) = Len(q) - 1
      /\ \A i \in 1 .. Len(Tail(q)) : Tail(q)[i] = q[i + 1]
  BY HeadTailProperties, EmptySeq, LenProperties
<1>2. Head(q) \in Held(q)
  BY <1>1 DEF Held
<1>3. ASSUME NEW x \in Held(Tail(q)) PROVE x \in Held(q)
  <2>1. PICK i \in 1 .. Len(Tail(q)) : x = Tail(q)[i]
    BY DEF Held
  <2>2. i + 1 \in 1 .. Len(q) /\ x = q[i + 1]
    BY <2>1, <1>1
  <2>. QED
    BY <2>2 DEF Held
<1>4. ASSUME NEW x \in Held(q), x # Head(q) PROVE x \in Held(Tail(q))
  <2>1. PICK i \in 1 .. Len(q) : x = q[i]
    BY DEF Held
  <2>2. i - 1 \in 1 .. Len(Tail(q)) /\ (i - 1) + 1 = i
    BY <2>1, <1>1, <1>4
  <2>3. x = Tail(q)[i - 1]
    BY <2>1, <2>2, <1>1
  <2>. QED
    BY <2>2, <2>3 DEF Held
<1>. QED
  BY <1>1, <1>2, <1>3, <1>4

LEMMA HeldConcat ==
    ASSUME NEW S, NEW p \in Seq(S), NEW q \in Seq(S)
    PROVE  Len(p \o q) = Len(p) + Len(q) /\ Held(p \o q) = Held(p) \cup Held(q)
<1>1. /\ Len(p \o q) = Len(p) + Len(q) /\ Len(p) \in Nat /\ Len(q) \in Nat
      /\ \A i \in 1 .. Len(p) + Len(q) :
            (p \o q)[i] = IF i <= Len(p) THEN p[i] ELSE q[i - Len(p)]
  BY ConcatProperties, LenProperties
<1>2. ASSUME NEW x \in Held(p \o q) PROVE x \in Held(p) \cup Held(q)
  <2>1. PICK i \in 1 .. Len(p) + Len(q) : x = (p \o q)[i]
    BY <1>1 DEF Held
  <2>2. CASE i <= Len(p)
    <3>1. i \in 1 .. Len(p) /\ x = p[i]
      BY <2>1, <2>2, <1>1
    <3>. QED
      BY <3>1 DEF Held
  <2>3. CASE ~(i <= Len(p))
    <3>1. i - Len(p) \in 1 .. Len(q) /\ x = q[i - Len(p)]
      BY <2>1, <2>3, <1>1
    <3>. QED
      BY <3>1 DEF Held
  <2>. QED
    BY <2>2, <2>3
<1>3. ASSUME NEW x \in Held(p) PROVE x \in Held(p \o q)
  <2>1. PICK i \in 1 .. Len(p) : x = p[i]
    BY DEF Held
  <2>2. i \in 1 .. Len(p) + Len(q) /\ x = (p \o q)[i]
    BY <2>1, <1>1
  <2>. QED
    BY <2>2, <1>1 DEF Held
<1>4. ASSUME NEW x \in Held(q) PROVE x \in Held(p \o q)
  <2>1. PICK i \in 1 .. Len(q) : x = q[i]
    BY DEF Held
  <2>2. i + Len(p) \in 1 .. Len(p) + Len(q) /\ (i + Len(p)) - Len(p) = i /\ ~(i + Len(p) <= Len(p))
    BY <2>1, <1>1
  <2>3. x = (p \o q)[i + Len(p)]
    BY <2>1, <2>2, <1>1
  <2>. QED
    BY <2>2, <2>3, <1>1 DEF Held
<1>. QED
  BY <1>1, <1>2, <1>3, <1>4

\* The oldest callback runs.
LEMMA RunHeld ==
    ASSUME TypeInv, NEW kind, RunBlock(kind)
    PROVE  /\ Head(mainQ) \in TypedBlock /\ Head(mainQ) \in Held(mainQ) /\ Head(mainQ).kind = kind
           /\ Held(mainQ') \subseteq Held(mainQ)
           /\ Held(mainQ) \subseteq Held(mainQ') \cup {Head(mainQ)}
BY HeldTail DEF RunBlock, TypeInv

\* The server answers the oldest write.
LEMMA PutHeld ==
    ASSUME TypeInv, NEW ok \in BOOLEAN, ServerPut(ok)
    PROVE  /\ Head(puts) \in Put /\ Head(puts) \in Held(puts)
           /\ Held(puts') \subseteq Held(puts) /\ Held(puts) \subseteq Held(puts') \cup {Head(puts)}
BY HeldTail DEF ServerPut, TypeInv, TypeOK

\* A callback is dispatched.
LEMMA EnqueueHeld ==
    ASSUME TypeInv, NEW kind, NEW uid, NEW type, NEW loc, NEW ctrl,
           Enqueue(kind, uid, type, loc, ctrl)
    PROVE  Held(mainQ') = Held(mainQ) \cup
              {[kind |-> kind, uid |-> uid, type |-> type, loc |-> loc, ctrl |-> ctrl]}
BY HeldAppend DEF Enqueue, TypeInv

\* What createUser's callback adds to the writes.
LEMMA CreatedHeld ==
    ASSUME TypeInv, OnCreated, NEW b, b = Head(mainQ)
    PROVE  /\ Held(puts) \subseteq Held(puts')
           /\ Held(puts') \subseteq Held(puts) \cup {SetLocation(b), Upload(b)}
           /\ b.type # "driver" \/ b.loc => Upload(b) \in Held(puts')
           /\ Len(puts') \in Nat /\ Len(puts') <= Len(puts) + 2
           /\ b.type # "driver" => Len(puts') <= Len(puts) + 1
<1>1. b \in TypedBlock /\ b.kind = "create"
  BY RunBlockType DEF OnCreated
<1>2. Upload(b) \in Put /\ SetLocation(b) \in Put
  BY <1>1 DEF TypedBlock, Block, Upload, SetLocation, Put
<1>3. puts \in Seq(Put) /\ puts' = puts \o SignUpPuts(b) /\ Len(puts) \in Nat
  BY DEF TypeInv, TypeOK, OnCreated
<1>4. CASE b.type # "driver"
  <2>1. PICK s : s = <<Upload(b)>>
    OBVIOUS
  <2>2. s \in Seq(Put) /\ Len(s) = 1 /\ s[1] = Upload(b)
    BY <2>1, <1>2
  <2>3. Held(s) = {Upload(b)}
    BY <2>2 DEF Held
  <2>4. puts' = puts \o s
    BY <1>3, <1>4, <2>1 DEF SignUpPuts
  <2>5. Len(puts \o s) = Len(puts) + Len(s) /\ Held(puts \o s) = Held(puts) \cup Held(s)
    BY <1>3, <2>2, HeldConcat
  <2>6. Held(puts') = Held(puts) \cup {Upload(b)}
    BY <2>3, <2>4, <2>5
  <2>7. Len(puts') = Len(puts) + 1
    BY <2>2, <2>4, <2>5
  <2>8. Len(puts') \in Nat /\ Len(puts') <= Len(puts) + 2 /\ Len(puts') <= Len(puts) + 1
    BY <2>7, <1>3
  <2>. QED
    BY <1>4, <2>6, <2>8
<1>5. CASE b.type = "driver" /\ b.loc
  <2>1. PICK s : s = <<SetLocation(b), Upload(b)>>
    OBVIOUS
  <2>2. s \in Seq(Put) /\ Len(s) = 2 /\ s[1] = SetLocation(b) /\ s[2] = Upload(b)
    BY <2>1, <1>2
  <2>3. Held(s) = {SetLocation(b), Upload(b)}
    BY <2>2 DEF Held
  <2>4. puts' = puts \o s
    BY <1>3, <1>5, <2>1 DEF SignUpPuts
  <2>5. Len(puts \o s) = Len(puts) + Len(s) /\ Held(puts \o s) = Held(puts) \cup Held(s)
    BY <1>3, <2>2, HeldConcat
  <2>6. Held(puts') = Held(puts) \cup {SetLocation(b), Upload(b)}
    BY <2>3, <2>4, <2>5
  <2>7. Len(puts') = Len(puts) + 2
    BY <2>2, <2>4, <2>5
  <2>8. Len(puts') \in Nat /\ Len(puts') <= Len(puts) + 2
    BY <2>7, <1>3
  <2>. QED
    BY <1>5, <2>6, <2>8
<1>6. CASE b.type = "driver" /\ ~b.loc
  <2>1. puts' = puts
    BY <1>3, <1>6 DEF SignUpPuts
  <2>2. Held(puts') = Held(puts)
    BY <2>1
  <2>3. Len(puts') \in Nat /\ Len(puts') <= Len(puts) + 2
    BY <2>1, <1>3
  <2>. QED
    BY <1>6, <2>2, <2>3
<1>. QED
  BY <1>4, <1>5, <1>6

\* An account that Auth knows has a profile or a reason to lack one, or its
\* sign-up is still to write one: createUser's callback waits, or the upload.
ProfileDue(u) ==
    \/ users[u] # "none" \/ u \in unlocated \cup refused
    \/ \E b \in Held(mainQ) : b.kind = "create" /\ b.uid = u
    \/ \E w \in Held(puts) : w.kind = "upload" /\ w.uid = u

ProfilesDue ==
    /\ \A b \in Held(mainQ) : b.kind = "create" /\ b.type = "driver" /\ ~b.loc => b.uid \in unlocated
    /\ deaths = 0 => \A u \in registered : ProfileDue(u)

LEMMA HeldNone == \A q : q = <<>> => Held(q) = {}
BY DEF Held

LEMMA InitProfiles == Init => ProfilesDue
<1>. SUFFICES ASSUME Init PROVE ProfilesDue
  OBVIOUS
<1>1. Held(mainQ) = {}
  BY HeldNone DEF Init
<1>2. ASSUME NEW u \in registered PROVE users[u] # "none"
  <2>1. PICK type \in [Existing -> AccountType] :
           users = [x \in Accounts |-> IF x \in Existing THEN type[x] ELSE "none"]
    BY DEF Init
  <2>2. u \in Existing /\ u \in Accounts
    BY ExistingAssumption DEF Init
  <2>. QED
    BY <2>1, <2>2 DEF AccountType
<1>. QED
  BY <1>1, <1>2 DEF ProfilesDue, ProfileDue

LEMMA NextProfiles == TypeInv /\ ProfilesDue /\ [Next]_vars => ProfilesDue'
<1>. SUFFICES ASSUME TypeInv, ProfilesDue, [Next]_vars PROVE ProfilesDue'
  OBVIOUS
<1>. USE DEF authVars, serverVars, screenVars, homeVars
<1>0. deaths \in Nat /\ mainQ \in Seq(TypedBlock) /\ puts \in Seq(Put)
  BY BoundsAssumption DEF TypeInv, TypeOK
<1>1. ASSUME UNCHANGED <<registered, users, unlocated, refused, puts, deaths>>,
             \A b \in Held(mainQ') : b.kind = "create" => b \in Held(mainQ),
             \A b \in Held(mainQ) : b.kind = "create" => b \in Held(mainQ')
      PROVE  ProfilesDue'
  BY <1>1 DEF ProfilesDue, ProfileDue
<1>2. ASSUME UNCHANGED <<registered, users, unlocated, refused, puts, deaths, mainQ>>
      PROVE  ProfilesDue'
  BY <1>1, <1>2
<1>3. CASE UserTap \/ LocationFix
  BY <1>3, <1>2 DEF UserTap, OnSignUp, OnLoginPop, OnLogin, OnSignUpComplete, Ask, LocationFix
<1>4. ASSUME NEW c \in calls, AuthSuccess(c) PROVE ProfilesDue'
  <2>1. PICK b : b = [kind |-> c.kind, uid |-> c.uid, type |-> c.type, loc |-> c.loc, ctrl |-> c.ctrl]
    OBVIOUS
  <2>2. b.kind = c.kind /\ b.uid = c.uid /\ b.type = c.type /\ b.loc = c.loc
    BY <2>1
  <2>3. Held(mainQ') = Held(mainQ) \cup {b}
    BY <1>4, <2>1, EnqueueHeld DEF AuthSuccess
  <2>4. /\ UNCHANGED <<users, refused, puts, deaths>>
        /\ registered' = registered \cup {c.uid}
        /\ c.kind = "create" \/ c.uid \in registered
        /\ unlocated \subseteq unlocated'
        /\ c.type = "driver" /\ ~c.loc => c.uid \in unlocated'
    BY <1>4 DEF AuthSuccess
  <2>5. ASSUME NEW x \in Held(mainQ'), x.kind = "create", x.type = "driver", ~x.loc
        PROVE  x.uid \in unlocated'
    BY <2>2, <2>3, <2>4, <2>5 DEF ProfilesDue
  <2>6. ASSUME deaths = 0, NEW u \in registered' PROVE ProfileDue(u)'
    <3>1. CASE u \in registered
      BY <2>3, <2>4, <2>6, <3>1 DEF ProfilesDue, ProfileDue
    <3>2. CASE u \notin registered
      <4>1. b.kind = "create" /\ b.uid = u /\ b \in Held(mainQ')
        BY <2>2, <2>3, <2>4, <3>2
      <4>. QED
        BY <4>1 DEF ProfileDue
    <3>. QED
      BY <3>1, <3>2
  <2>. QED
    BY <2>4, <2>5, <2>6 DEF ProfilesDue
<1>5. ASSUME NEW c \in calls, AuthFailure(c) PROVE ProfilesDue'
  BY <1>5, <1>2 DEF AuthFailure
<1>6. ASSUME NEW ok \in BOOLEAN, ServerPut(ok) PROVE ProfilesDue'
  <2>1. PICK w \in Put : w = Head(puts) /\ Held(puts) \subseteq Held(puts') \cup {w}
    BY <1>6, PutHeld
  <2>2. PICK b : b = [kind |-> w.kind, uid |-> w.uid, type |-> w.type, loc |-> FALSE, ctrl |-> w.ctrl]
    OBVIOUS
  <2>3. Held(mainQ') = Held(mainQ) \cup {b}
    <3>1. mainQ' = Append(mainQ, b)
      BY <1>6, <2>1, <2>2 DEF ServerPut, Enqueue
    <3>. QED
      BY <3>1, <1>0, HeldAppend
  <2>4. b.kind # "create" /\ w.kind \in {"setLocation", "upload"} /\ w.type # "none" /\ w.uid \in Accounts
    BY <2>2 DEF Put, AccountType
  <2>5. /\ UNCHANGED <<registered, unlocated, deaths>>
        /\ users' = IF ok /\ w.kind = "upload" THEN [users EXCEPT ![w.uid] = w.type] ELSE users
        /\ refused' = IF ok THEN refused ELSE refused \cup {w.uid}
    BY <1>6, <2>1 DEF ServerPut
  <2>6. users \in [Accounts -> Profile] /\ registered \subseteq Accounts
    BY DEF TypeInv, TypeOK
  <2>7. ASSUME deaths = 0, NEW u \in registered PROVE ProfileDue(u)'
    <3>1. ProfileDue(u) /\ u \in Accounts
      BY <2>6, <2>7 DEF ProfilesDue
    <3>2. CASE users[u] # "none"
      <4>1. users'[u] # "none"
        BY <3>1, <3>2, <2>4, <2>5, <2>6
      <4>. QED
        BY <4>1 DEF ProfileDue
    <3>3. CASE u \in unlocated \cup refused
      BY <3>3, <2>5 DEF ProfileDue
    <3>4. CASE \E x \in Held(mainQ) : x.kind = "create" /\ x.uid = u
      BY <3>4, <2>3 DEF ProfileDue
    <3>5. ASSUME NEW x \in Held(puts), x.kind = "upload", x.uid = u PROVE ProfileDue(u)'
      <4>1. CASE x # w
        <5>1. x \in Held(puts')
          BY <4>1, <2>1
        <5>. QED
          BY <5>1, <3>5 DEF ProfileDue
      <4>2. CASE x = w /\ ok
        <5>1. users'[u] # "none"
          BY <4>2, <3>1, <3>5, <2>4, <2>5, <2>6
        <5>. QED
          BY <5>1 DEF ProfileDue
      <4>3. CASE x = w /\ ~ok
        <5>1. u \in refused'
          BY <4>3, <3>5, <2>5
        <5>. QED
          BY <5>1 DEF ProfileDue
      <4>. QED
        BY <4>1, <4>2, <4>3
    <3>. QED
      BY <3>1, <3>2, <3>3, <3>4, <3>5 DEF ProfileDue
  <2>. QED
    BY <2>3, <2>4, <2>5, <2>7 DEF ProfilesDue
<1>7. ASSUME NEW u \in Accounts, ServerFetch(u) PROVE ProfilesDue'
  <2>1. PICK b : b = [kind |-> "fetch", uid |-> u, type |-> users[u], loc |-> FALSE, ctrl |-> 0]
    OBVIOUS
  <2>2. Held(mainQ') = Held(mainQ) \cup {b} /\ b.kind = "fetch"
    BY <1>7, <2>1, EnqueueHeld DEF ServerFetch
  <2>3. UNCHANGED <<registered, users, unlocated, refused, puts, deaths>>
    BY <1>7 DEF ServerFetch
  <2>. QED
    BY <2>2, <2>3, <1>1
<1>8. CASE OnCreated
  <2>1. PICK b : b = Head(mainQ)
    OBVIOUS
  <2>2. /\ b \in Held(mainQ) /\ b.kind = "create"
        /\ Held(mainQ') \subseteq Held(mainQ) /\ Held(mainQ) \subseteq Held(mainQ') \cup {b}
    BY <1>8, <2>1, RunHeld DEF OnCreated
  <2>3. /\ Held(puts) \subseteq Held(puts')
        /\ b.type # "driver" \/ b.loc => Upload(b) \in Held(puts')
    BY <1>8, <2>1, CreatedHeld
  <2>4. UNCHANGED <<registered, users, unlocated, refused, deaths>>
    BY <1>8 DEF OnCreated
  <2>5. Upload(b).kind = "upload" /\ Upload(b).uid = b.uid
    BY DEF Upload
  <2>6. ASSUME deaths = 0, NEW u \in registered PROVE ProfileDue(u)'
    <3>1. ProfileDue(u)
      BY <2>6 DEF ProfilesDue
    <3>2. CASE b.uid = u
      <4>1. u \in unlocated \/ Upload(b) \in Held(puts')
        BY <2>2, <2>3, <3>2 DEF ProfilesDue
      <4>. QED
        BY <4>1, <2>4, <2>5, <3>2 DEF ProfileDue
    <3>3. CASE b.uid # u
      BY <3>1, <3>3, <2>2, <2>3, <2>4 DEF ProfileDue
    <3>. QED
      BY <3>2, <3>3
  <2>. QED
    BY <2>2, <2>4, <2>6 DEF ProfilesDue
<1>9. CASE GeoFireDone
  <2>1. /\ mainQ # <<>> /\ Head(mainQ).kind = "setLocation"
        /\ mainQ' = Append(Tail(mainQ), [Head(mainQ) EXCEPT !.kind = "geofire"])
        /\ UNCHANGED <<registered, users, unlocated, refused, puts, deaths>>
    BY <1>9 DEF GeoFireDone
  <2>2. PICK h \in TypedBlock : h = Head(mainQ) /\ Tail(mainQ) \in Seq(TypedBlock)
                /\ Held(Tail(mainQ)) \subseteq Held(mainQ)
                /\ Held(mainQ) \subseteq Held(Tail(mainQ)) \cup {h}
    BY <2>1, <1>0, HeldTail
  <2>3. PICK b : b = [h EXCEPT !.kind = "geofire"] /\ b.kind = "geofire"
    <3>1. h \in Block
      BY DEF TypedBlock
    <3>2. [h EXCEPT !.kind = "geofire"].kind = "geofire"
      BY <3>1 DEF Block
    <3>. QED
      BY <3>2
  <2>4. Held(mainQ') = Held(Tail(mainQ)) \cup {b}
    BY <2>1, <2>2, <2>3, HeldAppend
  <2>. QED
    BY <1>1, <2>1, <2>2, <2>3, <2>4
<1>10. CASE OnLocationSet
  <2>1. /\ Head(mainQ).kind = "geofire"
        /\ Held(mainQ') \subseteq Held(mainQ) /\ Held(mainQ) \subseteq Held(mainQ') \cup {Head(mainQ)}
    BY <1>10, RunHeld DEF OnLocationSet
  <2>2. Held(puts) \subseteq Held(puts')
    BY <1>10, <1>0, HeldAppend DEF OnLocationSet
  <2>3. UNCHANGED <<registered, users, unlocated, refused, deaths>>
    BY <1>10 DEF OnLocationSet
  <2>. QED
    BY <2>1, <2>2, <2>3 DEF ProfilesDue, ProfileDue
<1>11. CASE OnSignedInOrUploaded
  <2>1. /\ Head(mainQ).kind \in {"signIn", "upload"}
        /\ Held(mainQ') \subseteq Held(mainQ) /\ Held(mainQ) \subseteq Held(mainQ') \cup {Head(mainQ)}
    BY <1>11, RunHeld DEF OnSignedInOrUploaded
  <2>2. UNCHANGED <<registered, users, unlocated, refused, puts, deaths>>
    BY <1>11 DEF OnSignedInOrUploaded
  <2>. QED
    BY <1>1, <2>1, <2>2
<1>12. CASE OnFetched
  <2>1. /\ Head(mainQ).kind = "fetch"
        /\ Held(mainQ') \subseteq Held(mainQ) /\ Held(mainQ) \subseteq Held(mainQ') \cup {Head(mainQ)}
    BY <1>12, RunHeld DEF OnFetched
  <2>2. UNCHANGED <<registered, users, unlocated, refused, puts, deaths>>
    BY <1>12 DEF OnFetched
  <2>. QED
    BY <1>1, <2>1, <2>2
<1>13. CASE Restart
  <2>1. Held(mainQ') = {} /\ deaths' # 0
    BY <1>13, <1>0, HeldNone DEF Restart
  <2>. QED
    BY <2>1 DEF ProfilesDue
<1>14. CASE UNCHANGED vars
  BY <1>14, <1>2 DEF vars
<1>. QED
  BY <1>3, <1>4, <1>5, <1>6, <1>7, <1>8, <1>9, <1>10, <1>11, <1>12, <1>13, <1>14
  DEF Next, Service, Callback

\* The login screen before any sign-up screen was opened, or the first sign-up
\* screen since it was.
FirstScreens == (screen = "login" /\ pushes = 0) \/ (screen = "signup" /\ pushes = 1)

\* Controllers are numbered as they were pushed; while the first screens are up,
\* nothing has dismissed them and so nothing has called setup().
ScreensDue ==
    /\ screen = "signup" => pushes > 0
    /\ \A c \in calls : c.ctrl <= pushes
    /\ \A w \in Held(puts) : w.ctrl <= pushes
    /\ \A b \in Held(mainQ) : b.ctrl <= pushes
    /\ FirstScreens => /\ user = {}
                       /\ \A u \in Accounts : fetches[u] = 0
                       /\ \A b \in Held(mainQ) : b.kind # "fetch"

LEMMA InitScreens == Init => ScreensDue
<1>. SUFFICES ASSUME Init PROVE ScreensDue
  OBVIOUS
<1>1. Held(mainQ) = {} /\ Held(puts) = {}
  BY HeldNone DEF Init
<1>. QED
  BY <1>1 DEF Init, ScreensDue

LEMMA NextScreens == TypeInv /\ ScreensDue /\ [Next]_vars => ScreensDue'
<1>. SUFFICES ASSUME TypeInv, ScreensDue, [Next]_vars PROVE ScreensDue'
  OBVIOUS
<1>. USE DEF authVars, serverVars, screenVars, homeVars
<1>0. /\ pushes \in Nat /\ mainQ \in Seq(TypedBlock) /\ puts \in Seq(Put) /\ calls \subseteq TypedCall
      /\ fetches \in [Accounts -> Nat]
  BY BoundsAssumption DEF TypeInv, TypeOK
<1>1. ASSUME UNCHANGED <<screen, pushes, user>>,
             \A c \in calls' : c.ctrl <= pushes,
             \A w \in Held(puts') : w.ctrl <= pushes,
             \A b \in Held(mainQ') : b.ctrl <= pushes,
             FirstScreens => /\ \A u \in Accounts : fetches'[u] = 0
                             /\ \A b \in Held(mainQ') : b.kind # "fetch"
      PROVE  ScreensDue'
  BY <1>1 DEF ScreensDue, FirstScreens
<1>2. CASE OnSignUp
  <2>1. /\ screen = "login" /\ screen' = "signup" /\ pushes' = pushes + 1
        /\ UNCHANGED <<user, calls, puts, fetches, mainQ>>
    BY <1>2 DEF OnSignUp
  <2>2. ASSUME NEW n \in Nat, n <= pushes PROVE n <= pushes'
    BY <2>1, <2>2, <1>0
  <2>3. ASSUME NEW c \in calls PROVE c.ctrl <= pushes'
    <3>1. c.ctrl \in Nat /\ c.ctrl <= pushes
      BY <1>0 DEF TypedCall, Call, ScreensDue
    <3>. QED
      BY <3>1, <2>2
  <2>4. ASSUME NEW w \in Held(puts) PROVE w.ctrl <= pushes'
    <3>1. w \in Put
      BY <1>0 DEF Held
    <3>2. w.ctrl \in Nat /\ w.ctrl <= pushes
      BY <3>1 DEF Put, ScreensDue
    <3>. QED
      BY <3>2, <2>2
  <2>5. ASSUME NEW b \in Held(mainQ) PROVE b.ctrl <= pushes'
    <3>1. b \in TypedBlock
      BY <1>0 DEF Held
    <3>2. b.ctrl \in Nat /\ b.ctrl <= pushes
      BY <3>1 DEF TypedBlock, Block, ScreensDue
    <3>. QED
      BY <3>2, <2>2
  <2>6. FirstScreens' => FirstScreens
    BY <2>1, <1>0 DEF FirstScreens
  <2>7. pushes' > 0
    BY <2>1, <1>0
  <2>. QED
    BY <2>1, <2>3, <2>4, <2>5, <2>6, <2>7 DEF ScreensDue
<1>3. CASE OnLoginPop
  <2>1. screen = "signup" /\ screen' = "login" /\ UNCHANGED <<pushes, user, calls, puts, fetches, mainQ>>
    BY <1>3 DEF OnLoginPop
  <2>2. ~FirstScreens'
    BY <2>1, <1>0 DEF FirstScreens, ScreensDue
  <2>. QED
    BY <2>1, <2>2 DEF ScreensDue
<1>4. ASSUME NEW call, call.ctrl <= pushes, Ask(call) PROVE ScreensDue'
  <2>1. calls' = calls \cup {call} /\ UNCHANGED <<screen, pushes, user, puts, fetches, mainQ>>
    BY <1>4 DEF Ask
  <2>. QED
    BY <1>4, <2>1, <1>1 DEF ScreensDue
<1>5. ASSUME NEW u \in Accounts, OnLogin(u) PROVE ScreensDue'
  <2>1. PICK call : call = [tap |-> taps + 1, kind |-> "signIn", uid |-> u, type |-> "none",
                            loc |-> FALSE, ctrl |-> 0]
    OBVIOUS
  <2>2. call.ctrl <= pushes
    BY <2>1, <1>0
  <2>. QED
    BY <1>5, <2>1, <2>2, <1>4 DEF OnLogin
<1>6. ASSUME NEW u \in Accounts, NEW t \in AccountType, OnSignUpComplete(u, t) PROVE ScreensDue'
  <2>1. PICK call : call = [tap |-> taps + 1, kind |-> "create", uid |-> u, type |-> t,
                            loc |-> location, ctrl |-> pushes]
    OBVIOUS
  <2>2. call.ctrl <= pushes
    BY <2>1, <1>0
  <2>. QED
    BY <1>6, <2>1, <2>2, <1>4 DEF OnSignUpComplete
<1>7. CASE LocationFix \/ UNCHANGED vars
  <2>1. UNCHANGED <<screen, pushes, user, calls, puts, fetches, mainQ>>
    BY <1>7 DEF LocationFix, vars
  <2>. QED
    BY <2>1, <1>1 DEF ScreensDue
<1>8. ASSUME NEW c \in calls, AuthSuccess(c) PROVE ScreensDue'
  <2>1. PICK b : b = [kind |-> c.kind, uid |-> c.uid, type |-> c.type, loc |-> c.loc, ctrl |-> c.ctrl]
    OBVIOUS
  <2>2. Held(mainQ') = Held(mainQ) \cup {b}
    BY <1>8, <2>1, EnqueueHeld DEF AuthSuccess
  <2>3. b.ctrl <= pushes /\ b.kind # "fetch"
    <3>1. b.kind = c.kind /\ b.ctrl = c.ctrl
      BY <2>1
    <3>2. c.kind # "fetch"
      BY <1>0 DEF TypedCall, Call
    <3>. QED
      BY <3>1, <3>2 DEF ScreensDue
  <2>4. calls' \subseteq calls /\ UNCHANGED <<screen, pushes, user, puts, fetches>>
    BY <1>8 DEF AuthSuccess
  <2>. QED
    BY <2>2, <2>3, <2>4, <1>1 DEF ScreensDue
<1>9. ASSUME NEW c \in calls, AuthFailure(c) PROVE ScreensDue'
  <2>1. calls' \subseteq calls /\ UNCHANGED <<screen, pushes, user, puts, fetches, mainQ>>
    BY <1>9 DEF AuthFailure
  <2>. QED
    BY <2>1, <1>1 DEF ScreensDue
<1>10. ASSUME NEW ok \in BOOLEAN, ServerPut(ok) PROVE ScreensDue'
  <2>1. PICK w \in Put : w = Head(puts) /\ w \in Held(puts) /\ Held(puts') \subseteq Held(puts)
    BY <1>10, PutHeld
  <2>2. PICK b : b = [kind |-> w.kind, uid |-> w.uid, type |-> w.type, loc |-> FALSE, ctrl |-> w.ctrl]
    OBVIOUS
  <2>3. mainQ' = Append(mainQ, b)
    BY <1>10, <2>1, <2>2 DEF ServerPut, Enqueue
  <2>4. Held(mainQ') = Held(mainQ) \cup {b}
    BY <2>3, <1>0, HeldAppend
  <2>5. b.ctrl = w.ctrl /\ b.kind = w.kind
    BY <2>2
  <2>6. b.ctrl <= pushes /\ b.kind # "fetch"
    BY <2>1, <2>5 DEF ScreensDue, Put
  <2>7. UNCHANGED <<screen, pushes, user, calls, fetches>>
    BY <1>10 DEF ServerPut
  <2>. QED
    BY <2>1, <2>4, <2>6, <2>7, <1>1 DEF ScreensDue
<1>11. ASSUME NEW u \in Accounts, ServerFetch(u) PROVE ScreensDue'
  <2>1. ~FirstScreens
    BY <1>11, <1>0 DEF ServerFetch, ScreensDue
  <2>2. PICK b : b = [kind |-> "fetch", uid |-> u, type |-> users[u], loc |-> FALSE, ctrl |-> 0]
    OBVIOUS
  <2>3. Held(mainQ') = Held(mainQ) \cup {b}
    BY <1>11, <2>2, EnqueueHeld DEF ServerFetch
  <2>4. b.ctrl <= pushes
    BY <2>2, <1>0
  <2>5. UNCHANGED <<screen, pushes, user, calls, puts>>
    BY <1>11 DEF ServerFetch
  <2>. QED
    BY <2>1, <2>3, <2>4, <2>5, <1>1 DEF ScreensDue
<1>12. CASE OnCreated
  <2>1. PICK b : b = Head(mainQ)
    OBVIOUS
  <2>2. b \in Held(mainQ) /\ Held(mainQ') \subseteq Held(mainQ)
    BY <1>12, <2>1, RunHeld DEF OnCreated
  <2>3. Held(puts') \subseteq Held(puts) \cup {SetLocation(b), Upload(b)}
    BY <1>12, <2>1, CreatedHeld
  <2>4. SetLocation(b).ctrl = b.ctrl /\ Upload(b).ctrl = b.ctrl
    BY DEF SetLocation, Upload
  <2>5. UNCHANGED <<screen, pushes, user, calls, fetches>>
    BY <1>12 DEF OnCreated
  <2>6. ASSUME NEW w \in Held(puts') PROVE w.ctrl <= pushes
    BY <2>2, <2>3, <2>4 DEF ScreensDue
  <2>. QED
    BY <2>2, <2>5, <2>6, <1>1 DEF ScreensDue
<1>13. CASE GeoFireDone
  <2>1. /\ mainQ # <<>>
        /\ mainQ' = Append(Tail(mainQ), [Head(mainQ) EXCEPT !.kind = "geofire"])
        /\ UNCHANGED <<screen, pushes, user, calls, puts, fetches>>
    BY <1>13 DEF GeoFireDone
  <2>2. PICK h \in TypedBlock : h = Head(mainQ) /\ h \in Held(mainQ) /\ Tail(mainQ) \in Seq(TypedBlock)
                /\ Held(Tail(mainQ)) \subseteq Held(mainQ)
    BY <2>1, <1>0, HeldTail
  <2>3. PICK b : b = [h EXCEPT !.kind = "geofire"] /\ b.kind = "geofire" /\ b.ctrl = h.ctrl
    <3>1. h \in Block
      BY DEF TypedBlock
    <3>2. [h EXCEPT !.kind = "geofire"].kind = "geofire" /\ [h EXCEPT !.kind = "geofire"].ctrl = h.ctrl
      BY <3>1 DEF Block
    <3>. QED
      BY <3>2
  <2>4. Held(mainQ') = Held(Tail(mainQ)) \cup {b}
    BY <2>1, <2>2, <2>3, HeldAppend
  <2>. QED
    BY <1>1, <2>1, <2>2, <2>3, <2>4 DEF ScreensDue
<1>14. CASE OnLocationSet
  <2>1. PICK b : b = Head(mainQ)
    OBVIOUS
  <2>2. b \in Held(mainQ) /\ Held(mainQ') \subseteq Held(mainQ)
    BY <1>14, <2>1, RunHeld DEF OnLocationSet
  <2>3. Held(puts') = Held(puts) \cup {Upload(b)}
    BY <1>14, <1>0, <2>1, HeldAppend DEF OnLocationSet
  <2>4. Upload(b).ctrl = b.ctrl
    BY DEF Upload
  <2>5. UNCHANGED <<screen, pushes, user, calls, fetches>>
    BY <1>14 DEF OnLocationSet
  <2>. QED
    BY <1>1, <2>2, <2>3, <2>4, <2>5 DEF ScreensDue
<1>15. CASE OnSignedInOrUploaded
  <2>1. PICK b : b = Head(mainQ)
    OBVIOUS
  <2>2. b \in TypedBlock /\ b \in Held(mainQ) /\ Held(mainQ') \subseteq Held(mainQ)
    BY <1>15, <2>1, RunHeld DEF OnSignedInOrUploaded
  <2>3. /\ screen' = IF b.ctrl = 0 \/ (screen = "signup" /\ b.ctrl = pushes) THEN "home" ELSE screen
        /\ UNCHANGED <<pushes, user, calls, puts>>
    BY <1>15, <2>1 DEF OnSignedInOrUploaded, Dismiss
  <2>4. b.ctrl \in Nat /\ b.ctrl <= pushes
    BY <2>2 DEF TypedBlock, Block, ScreensDue
  <2>5. PICK n \in Nat : n = b.ctrl
    BY <2>4
  <2>6. ~FirstScreens'
    <3>1. screen' = "home" \/ screen' = screen
      BY <2>3
    <3>2. CASE screen' = "home"
      BY <3>2 DEF FirstScreens
    <3>3. CASE screen' = screen /\ screen # "home"
      <4>1. n # 0 /\ ~(screen = "signup" /\ n = pushes) /\ n <= pushes
        BY <3>3, <2>3, <2>4, <2>5
      <4>. QED
        BY <4>1, <3>3, <2>3, <1>0 DEF FirstScreens
    <3>. QED
      BY <3>1, <3>2, <3>3
  <2>7. screen' = "signup" => screen = "signup"
    BY <2>3
  <2>. QED
    BY <2>2, <2>3, <2>6, <2>7 DEF ScreensDue
<1>16. CASE OnFetched
  <2>1. /\ Head(mainQ).kind = "fetch" /\ Head(mainQ) \in Held(mainQ)
        /\ Held(mainQ') \subseteq Held(mainQ)
    BY <1>16, RunHeld DEF OnFetched
  <2>2. UNCHANGED <<screen, pushes, calls, puts, fetches>>
    BY <1>16 DEF OnFetched
  <2>3. ~FirstScreens /\ ~FirstScreens'
    BY <2>1, <2>2 DEF ScreensDue, FirstScreens
  <2>. QED
    BY <2>1, <2>2, <2>3 DEF ScreensDue
<1>17. CASE Restart
  <2>1. Held(mainQ') = {} /\ Held(puts') = {} /\ calls' = {}
    BY <1>17, HeldNone DEF Restart
  <2>2. user' = {} /\ screen' # "signup"
    BY <1>17 DEF Restart
  <2>3. screen' = "login" => \A u \in Accounts : fetches'[u] = 0
    BY <1>17 DEF Restart
  <2>. QED
    BY <2>1, <2>2, <2>3 DEF ScreensDue, FirstScreens
<1>. QED
  BY <1>2, <1>3, <1>5, <1>6, <1>7, <1>8, <1>9, <1>10, <1>11, <1>12, <1>13, <1>14, <1>15, <1>16, <1>17
  DEF Next, UserTap, Service, Callback

\* A driver's sign-up has two setups ahead of it: of the upload beside its
\* position and of the one behind it.
Doubles(q) == {i \in 1 .. Len(q) : q[i].kind = "create" /\ q[i].type = "driver"}

\* The reads of profiles that are not answered, one by one.
Reads == {x \in Accounts \X Nat : 1 <= x[2] /\ x[2] <= fetches[x[1]]}

\* Every callback, write and read under way leads to at most one observer, and
\* a driver's sign-up to two; all of them were given cause for.
ObserversDue ==
    /\ \A x, y \in currentUser : x = y
    /\ IsFiniteSet(Reads)
    /\ observers["passenger"] + observers["driver"] + Len(mainQ) + Cardinality(Doubles(mainQ))
          + Len(puts) + Cardinality(Reads) <= due

LEMMA DoublesFinite ==
    ASSUME NEW q \in Seq(TypedBlock)
    PROVE  IsFiniteSet(Doubles(q)) /\ Cardinality(Doubles(q)) \in Nat /\ Len(q) \in Nat
<1>1. Len(q) \in Nat /\ IsFiniteSet(1 .. Len(q))
  BY FS_Interval
<1>2. Doubles(q) \subseteq 1 .. Len(q)
  BY DEF Doubles
<1>. QED
  BY <1>1, <1>2, FS_Subset, FS_CardinalityType

LEMMA DoublesAppend ==
    ASSUME NEW q \in Seq(TypedBlock), NEW b
    PROVE  Cardinality(Doubles(Append(q, b))) =
              Cardinality(Doubles(q)) + (IF b.kind = "create" /\ b.type = "driver" THEN 1 ELSE 0)
<1>1. /\ Len(Append(q, b)) = Len(q) + 1 /\ Len(q) \in Nat
      /\ \A i \in 1 .. Len(q) : Append(q, b)[i] = q[i]
      /\ Append(q, b)[Len(q) + 1] = b
  OBVIOUS
<1>2. \A i : i \in 1 .. Len(q) + 1 <=> i \in 1 .. Len(q) \/ i = Len(q) + 1
  BY <1>1
<1>3. Doubles(Append(q, b)) =
         IF b.kind = "create" /\ b.type = "driver" THEN Doubles(q) \cup {Len(q) + 1} ELSE Doubles(q)
  BY <1>1, <1>2 DEF Doubles
<1>4. Len(q) + 1 \notin Doubles(q)
  BY <1>1 DEF Doubles
<1>5. Cardinality(Doubles(q)) + 0 = Cardinality(Doubles(q))
  BY DoublesFinite
<1>. QED
  BY <1>3, <1>4, <1>5, DoublesFinite, FS_AddElement

LEMMA DoublesTail ==
    ASSUME NEW q \in Seq(TypedBlock), q # <<>>
    PROVE  Cardinality(Doubles(q)) =
              Cardinality(Doubles(Tail(q)))
                + (IF Head(q).kind = "create" /\ Head(q).type = "driver" THEN 1 ELSE 0)
<1>1. /\ Tail(q) \in Seq(TypedBlock)
      /\ Len(Tail(q)) = Len(q) - 1
      /\ \A i \in 1 .. Len(Tail(q)) : Tail(q)[i] = q[i + 1]
      /\ Len(q) \in Nat \ {0} /\ Head(q) = q[1]
  BY HeadTailProperties, LenProperties, EmptySeq
<1>2. /\ \A i : i \in Doubles(q) <=> i \in 1 .. Len(q) /\ q[i].kind = "create" /\ q[i].type = "driver"
      /\ \A k : k \in Doubles(Tail(q)) <=>
            k \in 1 .. (Len(q) - 1) /\ q[k + 1].kind = "create" /\ q[k + 1].type = "driver"
  BY <1>1 DEF Doubles
<1>. DEFINE f == [i \in Doubles(q) \ {1} |-> i - 1]
<1>3. f \in Bijection(Doubles(q) \ {1}, Doubles(Tail(q)))
  <2>1. \A i \in Doubles(q) \ {1} : i \in Nat /\ i - 1 \in Doubles(Tail(q))
    BY <1>1, <1>2
  <2>2. f \in [Doubles(q) \ {1} -> Doubles(Tail(q))]
    BY <2>1
  <2>3. \A i, j \in Doubles(q) \ {1} : f[i] = f[j] => i = j
    BY <2>1
  <2>4. \A k \in Doubles(Tail(q)) : k + 1 \in Doubles(q) \ {1} /\ (k + 1) - 1 = k
    BY <1>1, <1>2
  <2>5. \A k \in Doubles(Tail(q)) : \E i \in Doubles(q) \ {1} : f[i] = k
    BY <2>4
  <2>. QED
    BY <2>2, <2>3, <2>5 DEF Bijection, Injection, Surjection, IsInjective
<1>. HIDE DEF f
<1>4. IsFiniteSet(Doubles(q)) /\ IsFiniteSet(Doubles(q) \ {1})
  BY DoublesFinite, FS_Subset
<1>5. Cardinality(Doubles(q) \ {1}) = Cardinality(Doubles(Tail(q)))
  BY <1>3, <1>4, <1>1, DoublesFinite, FS_Bijection DEF ExistsBijection
<1>6. CASE Head(q).kind = "create" /\ Head(q).type = "driver"
  <2>1. 1 \in Doubles(q)
    BY <1>1, <1>2, <1>6
  <2>2. Cardinality(Doubles(q) \ {1}) = Cardinality(Doubles(q)) - 1
    BY <2>1, <1>4, FS_RemoveElement
  <2>. QED
    BY <1>5, <1>6, <2>2, DoublesFinite
<1>7. CASE ~(Head(q).kind = "create" /\ Head(q).type = "driver")
  <2>1. Doubles(q) \ {1} = Doubles(q)
    BY <1>1, <1>2, <1>7
  <2>2. Cardinality(Doubles(q)) + 0 = Cardinality(Doubles(q))
    BY DoublesFinite
  <2>. QED
    BY <1>5, <1>7, <2>1, <2>2
<1>. QED
  BY <1>6, <1>7

\* setup() starts one read, of the account that is current.
LEMMA ReadsMore ==
    ASSUME TypeInv, ObserversDue, Setup
    PROVE  /\ IsFiniteSet(Reads') /\ Cardinality(Reads') \in Nat /\ Cardinality(Reads) \in Nat
           /\ Cardinality(Reads') <= Cardinality(Reads) + 1
<1>1. fetches \in [Accounts -> Nat] /\ currentUser \subseteq Accounts
  BY DEF TypeInv, TypeOK
<1>2. IsFiniteSet(Reads) /\ Cardinality(Reads) \in Nat
  BY FS_CardinalityType DEF ObserversDue
<1>3. CASE currentUser = {}
  <2>1. \A u \in Accounts : fetches'[u] = fetches[u]
    BY <1>1, <1>3 DEF Setup
  <2>2. Reads' = Reads
    BY <2>1 DEF Reads
  <2>. QED
    BY <1>2, <2>2
<1>4. ASSUME NEW v \in currentUser
      PROVE  /\ IsFiniteSet(Reads') /\ Cardinality(Reads') \in Nat
             /\ Cardinality(Reads') <= Cardinality(Reads) + 1
  <2>1. v \in Accounts /\ \A u \in Accounts : u \in currentUser <=> u = v
    BY <1>1 DEF ObserversDue
  <2>2. fetches'[v] = fetches[v] + 1 /\ \A u \in Accounts : u # v => fetches'[u] = fetches[u]
    BY <1>1, <2>1 DEF Setup
  <2>3. PICK n \in Nat : n = fetches[v]
    BY <1>1, <2>1
  <2>4. ASSUME NEW x \in Accounts \X Nat PROVE x \in Reads' <=> x \in Reads \/ x = <<v, n + 1>>
    <3>1. PICK u \in Accounts, k \in Nat : x = <<u, k>>
      OBVIOUS
    <3>2. x \in Reads <=> 1 <= k /\ k <= fetches[u]
      BY <3>1 DEF Reads
    <3>3. x \in Reads' <=> 1 <= k /\ k <= fetches'[u]
      BY <3>1 DEF Reads
    <3>4. CASE u = v
      BY <3>1, <3>2, <3>3, <3>4, <2>2, <2>3
    <3>5. CASE u # v
      BY <3>1, <3>2, <3>3, <3>5, <2>2
    <3>. QED
      BY <3>4, <3>5
  <2>5. Reads' = Reads \cup {<<v, n + 1>>}
    <3>1. Reads \subseteq Accounts \X Nat /\ Reads' \subseteq Accounts \X Nat
      BY DEF Reads
    <3>2. <<v, n + 1>> \in Accounts \X Nat
      BY <2>1
    <3>. QED
      BY <2>4, <3>1, <3>2
  <2>6. IsFiniteSet(Reads') /\ Cardinality(Reads') \in Nat
        /\ (Cardinality(Reads') = Cardinality(Reads) \/ Cardinality(Reads') = Cardinality(Reads) + 1)
    BY <1>2, <2>5, FS_AddElement, FS_CardinalityType
  <2>. QED
    BY <1>2, <2>6
<1>. QED
  BY <1>2, <1>3, <1>4

\* An answer ends one.
LEMMA ReadsLess ==
    ASSUME TypeInv, ObserversDue, NEW u \in Accounts, ServerFetch(u)
    PROVE  /\ IsFiniteSet(Reads') /\ Cardinality(Reads') \in Nat /\ Cardinality(Reads) \in Nat
           /\ Cardinality(Reads') = Cardinality(Reads) - 1
<1>1. fetches \in [Accounts -> Nat]
  BY DEF TypeInv, TypeOK
<1>2. IsFiniteSet(Reads) /\ Cardinality(Reads) \in Nat
  BY FS_CardinalityType DEF ObserversDue
<1>3. PICK n \in Nat : n = fetches[u] /\ n > 0
  BY <1>1 DEF ServerFetch
<1>4. fetches'[u] = n - 1 /\ \A v \in Accounts : v # u => fetches'[v] = fetches[v]
  BY <1>1, <1>3 DEF ServerFetch
<1>5. ASSUME NEW x \in Accounts \X Nat PROVE x \in Reads' <=> x \in Reads /\ x # <<u, n>>
  <2>1. PICK v \in Accounts, k \in Nat : x = <<v, k>>
    OBVIOUS
  <2>2. x \in Reads <=> 1 <= k /\ k <= fetches[v]
    BY <2>1 DEF Reads
  <2>3. x \in Reads' <=> 1 <= k /\ k <= fetches'[v]
    BY <2>1 DEF Reads
  <2>4. CASE u = v
    BY <2>1, <2>2, <2>3, <2>4, <1>3, <1>4
  <2>5. CASE u # v
    BY <2>1, <2>2, <2>3, <2>5, <1>4
  <2>. QED
    BY <2>4, <2>5
<1>6. Reads \subseteq Accounts \X Nat /\ Reads' \subseteq Accounts \X Nat
  BY DEF Reads
<1>7. Reads' = Reads \ {<<u, n>>}
  BY <1>5, <1>6
<1>8. <<u, n>> \in Reads
  BY <1>3 DEF Reads
<1>9. IsFiniteSet(Reads') /\ Cardinality(Reads') = Cardinality(Reads) - 1
  BY <1>2, <1>7, <1>8, FS_RemoveElement
<1>. QED
  BY <1>2, <1>9, FS_CardinalityType

\* The callbacks under way, each with the observers it may lead to.
Blocks == Len(mainQ) + Cardinality(Doubles(mainQ))

LEMMA BlocksType == TypeInv => Blocks \in Nat
BY DoublesFinite DEF TypeInv, Blocks

LEMMA BlocksEnqueue ==
    ASSUME TypeInv, NEW b, mainQ' = Append(mainQ, b)
    PROVE  Blocks' = Blocks + (IF b.kind = "create" /\ b.type = "driver" THEN 2 ELSE 1)
<1>1. mainQ \in Seq(TypedBlock)
  BY DEF TypeInv
<1>2. PICK q : q = mainQ'
  OBVIOUS
<1>3. Len(q) = Len(mainQ) + 1
  BY <1>1, <1>2, HeldAppend
<1>4. Cardinality(Doubles(q)) =
         Cardinality(Doubles(mainQ)) + (IF b.kind = "create" /\ b.type = "driver" THEN 1 ELSE 0)
  BY <1>1, <1>2, DoublesAppend
<1>5. Blocks' = Len(q) + Cardinality(Doubles(q))
  BY <1>2 DEF Blocks
<1>. QED
  BY <1>1, <1>3, <1>4, <1>5, DoublesFinite DEF Blocks

LEMMA BlocksRun ==
    ASSUME TypeInv, NEW b, b = Head(mainQ), mainQ # <<>>, mainQ' = Tail(mainQ)
    PROVE  Blocks = Blocks' + (IF b.kind = "create" /\ b.type = "driver" THEN 2 ELSE 1) /\ Blocks' \in Nat
<1>1. mainQ \in Seq(TypedBlock)
  BY DEF TypeInv
<1>2. PICK q : q = mainQ'
  OBVIOUS
<1>3. Len(q) = Len(mainQ) - 1 /\ q \in Seq(TypedBlock)
  BY <1>1, <1>2, HeldTail
<1>4. Cardinality(Doubles(mainQ)) =
         Cardinality(Doubles(q)) + (IF b.kind = "create" /\ b.type = "driver" THEN 1 ELSE 0)
  BY <1>1, <1>2, DoublesTail
<1>5. Blocks' = Len(q) + Cardinality(Doubles(q))
  BY <1>2 DEF Blocks
<1>6. /\ Len(mainQ) \in Nat /\ Cardinality(Doubles(mainQ)) \in Nat
      /\ Len(q) \in Nat /\ Cardinality(Doubles(q)) \in Nat
  BY <1>1, <1>3, DoublesFinite
<1>. QED
  BY <1>3, <1>4, <1>5, <1>6 DEF Blocks

LEMMA InitObservers == Init => ObserversDue
<1>. SUFFICES ASSUME Init PROVE ObserversDue
  OBVIOUS
<1>1. Reads = {}
  BY DEF Init, Reads
<1>2. Doubles(mainQ) = {} /\ Len(mainQ) = 0 /\ Len(puts) = 0
  BY DEF Init, Doubles
<1>3. observers["passenger"] = 0 /\ observers["driver"] = 0
  BY DEF Init, AccountType
<1>. QED
  BY <1>1, <1>2, <1>3, FS_EmptySet DEF Init, ObserversDue

LEMMA NextObservers == TypeInv /\ ObserversDue /\ [Next]_vars => ObserversDue'
<1>. SUFFICES ASSUME TypeInv, ObserversDue, [Next]_vars PROVE ObserversDue'
  OBVIOUS
<1>. USE DEF authVars, serverVars, screenVars, homeVars
<1>. DEFINE seen == observers["passenger"] + observers["driver"]
<1>0. /\ mainQ \in Seq(TypedBlock) /\ puts \in Seq(Put) /\ Len(puts) \in Nat /\ due \in Nat
      /\ observers \in [AccountType -> Nat] /\ Blocks \in Nat
      /\ IsFiniteSet(Reads) /\ Cardinality(Reads) \in Nat
      /\ \A x, y \in currentUser : x = y
  BY BlocksType, FS_CardinalityType DEF TypeInv, TypeOK, ObserversDue
<1>1. /\ "passenger" \in AccountType /\ "driver" \in AccountType
      /\ observers["passenger"] \in Nat /\ observers["driver"] \in Nat /\ seen \in Nat
  BY <1>0 DEF AccountType
<1>2. seen + Blocks + Len(puts) + Cardinality(Reads) <= due
  <2>1. Len(mainQ) \in Nat /\ Cardinality(Doubles(mainQ)) \in Nat
    BY <1>0, DoublesFinite
  <2>. QED
    BY <2>1, <1>0, <1>1 DEF ObserversDue, Blocks
<1>3. ASSUME NEW s \in Nat, NEW m \in Nat, NEW p \in Nat, NEW r \in Nat, NEW d \in Nat,
             s = seen', m = Blocks', p = Len(puts'), r = Cardinality(Reads'), d = due',
             IsFiniteSet(Reads'), \A x, y \in currentUser' : x = y,
             mainQ' \in Seq(TypedBlock), s + m + p + r <= d
      PROVE  ObserversDue'
  <2>1. Len(mainQ') \in Nat /\ Cardinality(Doubles(mainQ')) \in Nat
    BY <1>3, DoublesFinite
  <2>2. m = Len(mainQ') + Cardinality(Doubles(mainQ')) /\ s = observers'["passenger"] + observers'["driver"]
    BY <1>3 DEF Blocks
  <2>3. s + Len(mainQ') + Cardinality(Doubles(mainQ')) + Len(puts') + Cardinality(Reads') <= due'
    BY <2>1, <2>2, <1>3
  <2>. QED
    BY <2>2, <2>3, <1>3 DEF ObserversDue
<1>4. TypeInv' /\ mainQ' \in Seq(TypedBlock) /\ due' \in Nat /\ Len(puts') \in Nat
  <2>1. TypeInv'
    BY NextType
  <2>. QED
    BY <2>1, LenProperties DEF TypeInv, TypeOK
<1>. HIDE DEF seen
<1>5. observers' = observers => seen' = seen
  BY DEF seen
<1>6. fetches' = fetches => Reads' = Reads
  BY DEF Reads
<1>7. mainQ' = mainQ => Blocks' = Blocks
  BY DEF Blocks
<1>8. ASSUME UNCHANGED <<observers, currentUser, due, mainQ, puts, fetches>> PROVE ObserversDue'
  BY <1>8, <1>0, <1>1, <1>2, <1>3, <1>4, <1>5, <1>6, <1>7
<1>9. CASE UserTap \/ LocationFix \/ UNCHANGED vars
  BY <1>9, <1>8 DEF UserTap, OnSignUp, OnLoginPop, OnLogin, OnSignUpComplete, Ask, LocationFix, vars
<1>10. ASSUME NEW c \in calls, AuthSuccess(c) PROVE ObserversDue'
  <2>1. PICK b : b = [kind |-> c.kind, uid |-> c.uid, type |-> c.type, loc |-> c.loc, ctrl |-> c.ctrl]
    OBVIOUS
  <2>2. mainQ' = Append(mainQ, b)
    BY <1>10, <2>1 DEF AuthSuccess, Enqueue
  <2>3. b.kind = c.kind /\ b.type = c.type
    BY <2>1
  <2>4. PICK k \in {1, 2} : k = IF c.type = "driver" THEN 2 ELSE 1
    OBVIOUS
  <2>5. due' = due + k /\ currentUser' = {c.uid} /\ UNCHANGED <<observers, puts, fetches>>
    BY <1>10, <2>4 DEF AuthSuccess
  <2>6. Blocks' <= Blocks + k /\ Blocks' \in Nat
    <3>1. Blocks' = Blocks + (IF b.kind = "create" /\ b.type = "driver" THEN 2 ELSE 1)
      BY <2>2, BlocksEnqueue
    <3>. QED
      BY <3>1, <2>3, <2>4, <1>0
  <2>7. seen' = seen /\ Reads' = Reads
    BY <2>5, <1>5, <1>6
  <2>8. seen + Blocks' + Len(puts) + Cardinality(Reads) <= due'
    BY <2>5, <2>6, <1>0, <1>1, <1>2
  <2>. QED
    BY <2>5, <2>6, <2>7, <2>8, <1>0, <1>1, <1>3, <1>4
<1>11. ASSUME NEW c \in calls, AuthFailure(c) PROVE ObserversDue'
  BY <1>11, <1>8 DEF AuthFailure
<1>12. ASSUME NEW ok \in BOOLEAN, ServerPut(ok) PROVE ObserversDue'
  <2>1. PICK w \in Put : w = Head(puts) /\ Len(puts') = Len(puts) - 1
    BY <1>0, <1>12, HeldTail DEF ServerPut
  <2>2. PICK b : b = [kind |-> w.kind, uid |-> w.uid, type |-> w.type, loc |-> FALSE, ctrl |-> w.ctrl]
    OBVIOUS
  <2>3. mainQ' = Append(mainQ, b)
    BY <1>12, <2>1, <2>2 DEF ServerPut, Enqueue
  <2>4. b.kind # "create"
    BY <2>2 DEF Put
  <2>5. Blocks' = Blocks + 1
    BY <2>3, <2>4, BlocksEnqueue
  <2>6. UNCHANGED <<observers, currentUser, due, fetches>>
    BY <1>12 DEF ServerPut
  <2>7. seen' = seen /\ Reads' = Reads
    BY <2>6, <1>5, <1>6
  <2>8. seen + Blocks' + Len(puts') + Cardinality(Reads) <= due /\ Blocks' \in Nat
    BY <2>1, <2>5, <1>0, <1>1, <1>2
  <2>. QED
    BY <2>6, <2>7, <2>8, <1>0, <1>1, <1>3, <1>4
<1>13. ASSUME NEW u \in Accounts, ServerFetch(u) PROVE ObserversDue'
  <2>1. PICK b : b = [kind |-> "fetch", uid |-> u, type |-> users[u], loc |-> FALSE, ctrl |-> 0]
    OBVIOUS
  <2>2. mainQ' = Append(mainQ, b) /\ b.kind # "create"
    BY <1>13, <2>1 DEF ServerFetch, Enqueue
  <2>3. Blocks' = Blocks + 1
    BY <2>2, BlocksEnqueue
  <2>4. IsFiniteSet(Reads') /\ Cardinality(Reads') \in Nat /\ Cardinality(Reads') = Cardinality(Reads) - 1
    BY <1>13, ReadsLess
  <2>5. UNCHANGED <<observers, currentUser, due, puts>>
    BY <1>13 DEF ServerFetch
  <2>6. seen' = seen
    BY <2>5, <1>5
  <2>7. seen + Blocks' + Len(puts) + Cardinality(Reads') <= due /\ Blocks' \in Nat
    BY <2>3, <2>4, <1>0, <1>1, <1>2
  <2>. QED
    BY <2>4, <2>5, <2>6, <2>7, <1>0, <1>1, <1>3, <1>4
<1>14. ASSUME NEW kind, RunBlock(kind), NEW b, b = Head(mainQ)
       PROVE  /\ b.kind = kind /\ b \in TypedBlock
              /\ Blocks = Blocks' + (IF b.kind = "create" /\ b.type = "driver" THEN 2 ELSE 1)
              /\ Blocks' \in Nat
  BY <1>14, BlocksRun, RunHeld DEF RunBlock
<1>15. CASE OnCreated
  <2>1. PICK b : b = Head(mainQ)
    OBVIOUS
  <2>2. PICK k \in {1, 2} : k = IF b.type = "driver" THEN 2 ELSE 1
    OBVIOUS
  <2>3. Blocks = Blocks' + k /\ Blocks' \in Nat
    BY <1>15, <2>1, <2>2, <1>14 DEF OnCreated
  <2>4. Len(puts') <= Len(puts) + k
    BY <1>15, <2>1, <2>2, CreatedHeld
  <2>5. UNCHANGED <<observers, currentUser, due, fetches>>
    BY <1>15 DEF OnCreated
  <2>6. seen' = seen /\ Reads' = Reads
    BY <2>5, <1>5, <1>6
  <2>7. seen + Blocks' + Len(puts') + Cardinality(Reads) <= due
    <3>1. PICK s \in Nat, m \in Nat, p \in Nat, r \in Nat, d \in Nat, m1 \in Nat, p1 \in Nat :
             /\ s = seen /\ m = Blocks /\ p = Len(puts) /\ r = Cardinality(Reads) /\ d = due
             /\ m1 = Blocks' /\ p1 = Len(puts')
      BY <2>3, <1>0, <1>1, <1>4
    <3>2. m = m1 + k /\ p1 <= p + k /\ s + m + p + r <= d
      BY <3>1, <2>3, <2>4, <1>2
    <3>3. s + m1 + p1 + r <= d
      BY <3>2
    <3>. QED
      BY <3>1, <3>3
  <2>. QED
    BY <2>3, <2>5, <2>6, <2>7, <1>0, <1>1, <1>3, <1>4
<1>16. CASE GeoFireDone
  <2>1. /\ mainQ # <<>> /\ Head(mainQ).kind = "setLocation"
        /\ mainQ' = Append(Tail(mainQ), [Head(mainQ) EXCEPT !.kind = "geofire"])
        /\ UNCHANGED <<observers, currentUser, due, puts, fetches>>
    BY <1>16 DEF GeoFireDone
  <2>2. PICK h \in TypedBlock : h = Head(mainQ)
    BY <2>1, <1>0, HeldTail
  <2>3. PICK b : b = [h EXCEPT !.kind = "geofire"] /\ b.kind = "geofire"
    <3>1. h \in Block
      BY DEF TypedBlock
    <3>2. [h EXCEPT !.kind = "geofire"].kind = "geofire"
      BY <3>1 DEF Block
    <3>. QED
      BY <3>2
  <2>4. PICK t : t = Tail(mainQ)
    OBVIOUS
  <2>5. t \in Seq(TypedBlock) /\ Len(t) = Len(mainQ) - 1 /\ Len(mainQ) \in Nat
    BY <2>1, <2>4, <1>0, HeldTail
  <2>6. Cardinality(Doubles(mainQ)) = Cardinality(Doubles(t)) + 0
    BY <2>1, <2>4, <1>0, DoublesTail
  <2>7. PICK q : q = mainQ'
    OBVIOUS
  <2>8. q = Append(t, b)
    BY <2>1, <2>2, <2>3, <2>4, <2>7
  <2>9. Cardinality(Doubles(q)) = Cardinality(Doubles(t)) + 0 /\ Len(q) = Len(t) + 1
    BY <2>3, <2>5, <2>8, DoublesAppend, HeldAppend
  <2>10. Blocks' = Blocks
    <3>1. Blocks' = Len(q) + Cardinality(Doubles(q))
      BY <2>7 DEF Blocks
    <3>2. Cardinality(Doubles(t)) \in Nat
      BY <2>5, DoublesFinite
    <3>. QED
      BY <3>1, <3>2, <2>5, <2>6, <2>9 DEF Blocks
  <2>11. seen' = seen /\ Reads' = Reads
    BY <2>1, <1>5, <1>6
  <2>. QED
    BY <2>1, <2>10, <2>11, <1>0, <1>1, <1>2, <1>3, <1>4
<1>17. CASE OnLocationSet
  <2>1. PICK b : b = Head(mainQ)
    OBVIOUS
  <2>2. Blocks = Blocks' + 1 /\ Blocks' \in Nat
    BY <1>17, <2>1, <1>14 DEF OnLocationSet
  <2>3. Len(puts') = Len(puts) + 1
    BY <1>17, <1>0, HeldAppend DEF OnLocationSet
  <2>4. UNCHANGED <<observers, currentUser, due, fetches>>
    BY <1>17 DEF OnLocationSet
  <2>5. seen' = seen /\ Reads' = Reads
    BY <2>4, <1>5, <1>6
  <2>6. seen + Blocks' + Len(puts') + Cardinality(Reads) <= due
    BY <2>2, <2>3, <1>0, <1>1, <1>2
  <2>. QED
    BY <2>2, <2>4, <2>5, <2>6, <1>0, <1>1, <1>3, <1>4
<1>18. CASE OnSignedInOrUploaded
  <2>1. PICK b : b = Head(mainQ)
    OBVIOUS
  <2>2. Blocks = Blocks' + 1 /\ Blocks' \in Nat
    BY <1>18, <2>1, <1>14 DEF OnSignedInOrUploaded
  <2>3. /\ IsFiniteSet(Reads') /\ Cardinality(Reads') \in Nat
        /\ Cardinality(Reads') <= Cardinality(Reads) + 1
    BY <1>18, ReadsMore DEF OnSignedInOrUploaded
  <2>4. UNCHANGED <<observers, currentUser, due, puts>>
    BY <1>18 DEF OnSignedInOrUploaded
  <2>5. seen' = seen
    BY <2>4, <1>5
  <2>6. seen + Blocks' + Len(puts) + Cardinality(Reads') <= due
    <3>1. PICK s \in Nat, m \in Nat, p \in Nat, r \in Nat, d \in Nat, m1 \in Nat, r1 \in Nat :
             /\ s = seen /\ m = Blocks /\ p = Len(puts) /\ r = Cardinality(Reads) /\ d = due
             /\ m1 = Blocks' /\ r1 = Cardinality(Reads')
      BY <2>2, <2>3, <1>0, <1>1
    <3>2. m = m1 + 1 /\ r1 <= r + 1 /\ s + m + p + r <= d
      BY <3>1, <2>2, <2>3, <1>2
    <3>3. s + m1 + p + r1 <= d
      BY <3>2
    <3>. QED
      BY <3>1, <3>3
  <2>. QED
    BY <2>2, <2>3, <2>4, <2>5, <2>6, <1>0, <1>1, <1>3, <1>4
<1>19. CASE OnFetched
  <2>1. PICK b : b = Head(mainQ)
    OBVIOUS
  <2>2. Blocks = Blocks' + 1 /\ Blocks' \in Nat
    BY <1>19, <2>1, <1>14 DEF OnFetched
  <2>3. observers' = [t \in AccountType |-> observers[t] + (IF b.type = t THEN 1 ELSE 0)]
    BY <1>19, <2>1 DEF OnFetched
  <2>4. seen' \in Nat /\ seen' <= seen + 1
    BY <2>3, <1>0, <1>1 DEF seen
  <2>5. UNCHANGED <<currentUser, due, puts, fetches>>
    BY <1>19 DEF OnFetched
  <2>6. Reads' = Reads
    BY <2>5, <1>6
  <2>7. seen' + Blocks' + Len(puts) + Cardinality(Reads) <= due
    <3>1. PICK s \in Nat, m \in Nat, p \in Nat, r \in Nat, d \in Nat, m1 \in Nat, s1 \in Nat :
             /\ s = seen /\ m = Blocks /\ p = Len(puts) /\ r = Cardinality(Reads) /\ d = due
             /\ m1 = Blocks' /\ s1 = seen'
      BY <2>2, <2>4, <1>0, <1>1
    <3>2. m = m1 + 1 /\ s1 <= s + 1 /\ s + m + p + r <= d
      BY <3>1, <2>2, <2>4, <1>2
    <3>3. s1 + m1 + p + r <= d
      BY <3>2
    <3>. QED
      BY <3>1, <3>3
  <2>. QED
    BY <2>2, <2>4, <2>5, <2>6, <2>7, <1>0, <1>3, <1>4
<1>20. CASE Restart
  <2>1. /\ mainQ' = <<>> /\ puts' = <<>> /\ currentUser' = currentUser
        /\ observers' = [t \in AccountType |-> 0]
        /\ due' = IF currentUser = {} THEN 0 ELSE 1
        /\ fetches' = [u \in Accounts |-> IF u \in currentUser THEN 1 ELSE 0]
    BY <1>20 DEF Restart
  <2>2. seen' = 0 /\ Len(puts') = 0
    BY <2>1, <1>1 DEF seen
  <2>3. Blocks' = 0
    <3>1. PICK q : q = mainQ'
      OBVIOUS
    <3>2. Len(q) = 0 /\ Doubles(q) = {}
      BY <2>1, <3>1 DEF Doubles
    <3>3. Cardinality(Doubles(q)) = 0
      BY <3>2, FS_EmptySet
    <3>. QED
      BY <3>1, <3>2, <3>3 DEF Blocks
  <2>4. IsFiniteSet(Reads') /\ Cardinality(Reads') \in Nat /\ Cardinality(Reads') <= due'
    <3>1. currentUser \subseteq Accounts
      BY DEF TypeInv, TypeOK
    <3>2. CASE currentUser = {}
      <4>1. Reads' = {}
        BY <2>1, <3>2 DEF Reads
      <4>. QED
        BY <4>1, <3>2, <2>1, FS_EmptySet
    <3>3. ASSUME NEW v \in currentUser
          PROVE  IsFiniteSet(Reads') /\ Cardinality(Reads') \in Nat /\ Cardinality(Reads') <= due'
      <4>1. v \in Accounts /\ \A u \in Accounts : u \in currentUser <=> u = v
        BY <3>1, <1>0
      <4>2. \A u \in Accounts : fetches'[u] = IF u = v THEN 1 ELSE 0
        BY <4>1, <2>1
      <4>3. ASSUME NEW x \in Accounts \X Nat PROVE x \in Reads' <=> x = <<v, 1>>
        <5>1. PICK u \in Accounts, k \in Nat : x = <<u, k>>
          OBVIOUS
        <5>2. x \in Reads' <=> 1 <= k /\ k <= fetches'[u]
          BY <5>1 DEF Reads
        <5>. QED
          BY <5>1, <5>2, <4>2
      <4>4. Reads' \subseteq Accounts \X Nat /\ <<v, 1>> \in Accounts \X Nat
        BY <4>1 DEF Reads
      <4>5. Reads' = {<<v, 1>>}
        BY <4>3, <4>4
      <4>6. due' = 1
        BY <2>1
      <4>7. IsFiniteSet({<<v, 1>>}) /\ Cardinality({<<v, 1>>}) = 1
        BY FS_Singleton
      <4>. QED
        BY <4>5, <4>6, <4>7
    <3>. QED
      BY <3>2, <3>3
  <2>5. seen' + Blocks' + Len(puts') + Cardinality(Reads') <= due'
    BY <2>2, <2>3, <2>4, <1>4
  <2>6. \A x, y \in currentUser' : x = y
    BY <2>1, <1>0
  <2>. QED
    BY <2>2, <2>3, <2>4, <2>5, <2>6, <1>3, <1>4
<1>. QED
  BY <1>9, <1>10, <1>11, <1>12, <1>13, <1>15, <1>16, <1>17, <1>18, <1>19, <1>20
  DEF Next, Service, Callback

-----------------------------------------------------------------------------
LEMMA Settles == ProfilesDue /\ ScreensDue /\ ObserversDue /\ TypeInv => SessionSettles
<1>. SUFFICES ASSUME ProfilesDue, ScreensDue, ObserversDue, TypeInv PROVE SessionSettles
  OBVIOUS
<1>1. MissingProfileExplained
  <2>. SUFFICES ASSUME NEW u \in currentUser, Quiet, users[u] = "none", ~(deaths > 0)
                PROVE  u \in unlocated \cup refused
    BY DEF MissingProfileExplained
  <2>1. deaths = 0 /\ u \in registered
    BY BoundsAssumption DEF TypeInv, TypeOK
  <2>2. Held(mainQ) = {} /\ Held(puts) = {}
    BY HeldNone DEF Quiet
  <2>. QED
    BY <2>1, <2>2 DEF ProfilesDue, ProfileDue
<1>2. LoginDismissed
  <2>. SUFFICES ASSUME user # {}, screen # "home"
                PROVE  pushes > 1 \/ (pushes = 1 /\ screen = "login")
    BY DEF LoginDismissed
  <2>1. ~FirstScreens
    BY DEF ScreensDue
  <2>2. pushes \in Nat /\ screen \in {"login", "signup"}
    BY DEF TypeInv, TypeOK
  <2>. QED
    BY <2>1, <2>2 DEF FirstScreens, ScreensDue
<1>3. ObserversAccountedFor
  <2>1. /\ observers["passenger"] \in Nat /\ observers["driver"] \in Nat
        /\ Len(mainQ) \in Nat /\ Cardinality(Doubles(mainQ)) \in Nat
        /\ Len(puts) \in Nat /\ Cardinality(Reads) \in Nat /\ due \in Nat
    BY DoublesFinite, FS_CardinalityType DEF TypeInv, TypeOK, ObserversDue, AccountType
  <2>. QED
    BY <2>1 DEF ObserversDue, ObserversAccountedFor
<1>. QED
  BY <1>1, <1>2, <1>3 DEF SessionSettles

\* For any accounts, overlapping taps and process deaths: an account is left
\* without a profile only for a reason, the login screens are gone once home
\* knows its user unless the rider went back from a sign-up screen, and trip
\* observers are not registered more often than taps give cause for.
THEOREM SessionsSettle == Spec => []SessionSettles
BY InitProfiles, NextProfiles, InitScreens, NextScreens, InitObservers, NextObservers,
   Settles, SpecType, PTL DEF Spec
==============================================================================
