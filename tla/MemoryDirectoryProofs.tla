----------------------- MODULE MemoryDirectoryProofs -----------------------
(***************************************************************************)
(* Proofs about MemoryDirectory::from_config: for every configuration and  *)
(* every sequence of store failures and retries, the directory gives one   *)
(* name one id and two names two ids (IdsAgree).                           *)
(*                                                                         *)
(* IdsAgree is not inductive: a step that records an id must know it is   *)
(* the store's id for that name. The invariant IInv says that the store's *)
(* ids are below next_id and distinct, and that every id the loop and the *)
(* directory hold is the store's id for its name.                         *)
(***************************************************************************)
EXTENDS MemoryDirectory, TLAPS

\* The principals of a configuration, with unbounded sequences.
ConfType == [name: Names, member_of: Seq(Names), email: Seq(Addr), email_list: Seq(Addr)]

\* The types the proof needs; weaker than TypeOK, which bounds next_id by
\* the number of names.
TypeInv ==
    /\ conf \in Seq(ConfType)
    /\ account_ids \in [Names -> Nat]
    /\ next_id \in Nat \ {0}
    /\ k \in Nat \ {0}
    /\ g \in Nat \ {0}
    /\ id \in Nat
    /\ member_of \in Seq(Nat)
    /\ principals \in Seq([name: Names, id: Nat, member_of: Seq(Nat), emails: Seq(Addr)])
    /\ result \in {"running", "some", "none"}

\* The store hands out ids below next_id, never the same to two names.
StoreInv ==
    /\ \A n \in Names : account_ids[n] < next_id
    /\ \A n, m \in Names : account_ids[n] = account_ids[m] /\ account_ids[n] # 0 => n = m

\* The first len group ids are the ids the store s has for the groups.
GroupsHeld(s, ids, groups, len) ==
    \A j \in 1..len : ids[j] = s[groups[j]] /\ ids[j] # 0

\* What the directory holds agrees with the store, principal by principal.
DirectoryInv ==
    /\ Len(principals) = k - 1
    /\ k <= Len(conf) + 1
    /\ \A x \in 1..Len(principals) :
        /\ principals[x].name = conf[x].name
        /\ principals[x].id = account_ids[conf[x].name]
        /\ principals[x].id # 0
        /\ Len(principals[x].member_of) = Len(conf[x].member_of)
        /\ GroupsHeld(account_ids, principals[x].member_of, conf[x].member_of,
                      Len(principals[x].member_of))

\* The loop's locals agree with the store while a principal is in progress.
LoopInv ==
    id # 0 =>
        /\ k <= Len(conf)
        /\ id = account_ids[conf[k].name]
        /\ g <= Len(conf[k].member_of) + 1
        /\ Len(member_of) = g - 1
        /\ GroupsHeld(account_ids, member_of, conf[k].member_of, g - 1)

IInv == TypeInv /\ StoreInv /\ DirectoryInv /\ LoopInv

-----------------------------------------------------------------------------
(* Lemmas                                                                  *)

\* A bounded sequence is a sequence.
LEMMA SeqOfIsSeq ==
    ASSUME NEW S, NEW n \in Nat
    PROVE  SeqOf(S, n) \subseteq Seq(S)
BY DEF SeqOf

\* A configuration the model starts from has the proof's types.
LEMMA PrincipalConfType == PrincipalConf \subseteq ConfType
<1>1. SeqOf(Names, MaxGroups) \subseteq Seq(Names)
  BY SeqOfIsSeq, MemoryDirectoryBounds
<1>2. SeqOf(Addr, MaxEmails) \subseteq Seq(Addr) /\ SeqOf(Addr, MaxLists) \subseteq Seq(Addr)
  BY SeqOfIsSeq, MemoryDirectoryBounds
<1>. QED BY <1>1, <1>2 DEF PrincipalConf, ConfType

\* get_or_create_account_id keeps the store's ids distinct and below the
\* counter, changes no id it already gave, and gives n an id.
LEMMA CreateAccountStore ==
    ASSUME TypeInv, StoreInv, NEW n \in Names, CreateAccount(n)
    PROVE  /\ account_ids' \in [Names -> Nat]
           /\ next_id' \in Nat \ {0}
           /\ StoreInv'
           /\ \A m \in Names : account_ids[m] # 0 => account_ids'[m] = account_ids[m]
           /\ account_ids'[n] # 0
BY DEF TypeInv, StoreInv, CreateAccount, AccountId

\* Group ids agree with a store that changes no id already given.
LEMMA GroupsKept ==
    ASSUME NEW s, NEW t, NEW ids, NEW groups, NEW len \in Nat,
           \A j \in 1..len : groups[j] \in Names,
           \A m \in Names : s[m] # 0 => t[m] = s[m],
           GroupsHeld(s, ids, groups, len)
    PROVE  GroupsHeld(t, ids, groups, len)
BY DEF GroupsHeld

\* The initial states satisfy the invariant.
LEMMA InitIInv == Init => IInv
<1> SUFFICES ASSUME Init PROVE IInv
  OBVIOUS
<1>1. conf \in Seq(ConfType)
  <2>1. conf \in Seq(PrincipalConf)
    BY SeqOfIsSeq, MemoryDirectoryBounds DEF Init
  <2>. QED BY <2>1, PrincipalConfType
<1>2. TypeInv
  BY <1>1 DEF Init, Start, TypeInv
<1>3. StoreInv
  BY DEF Init, StoreInv
<1>4. DirectoryInv /\ LoopInv
  BY DEF Init, Start, DirectoryInv, LoopInv
<1>. QED BY <1>2, <1>3, <1>4 DEF IInv

\* A step that changes no id the store already gave keeps the directory
\* in agreement with the store.
LEMMA DirectoryKept ==
    ASSUME TypeInv, DirectoryInv,
           \A m \in Names : account_ids[m] # 0 => account_ids'[m] = account_ids[m],
           UNCHANGED <<conf, k, principals>>
    PROVE  DirectoryInv'
<1>1. Len(principals') = k' - 1 /\ k' <= Len(conf') + 1
  BY DEF DirectoryInv
<1>2. ASSUME NEW x \in 1..Len(principals')
      PROVE  /\ principals'[x].name = conf'[x].name
             /\ principals'[x].id = account_ids'[conf'[x].name]
             /\ principals'[x].id # 0
             /\ Len(principals'[x].member_of) = Len(conf'[x].member_of)
             /\ GroupsHeld(account_ids', principals'[x].member_of, conf'[x].member_of,
                           Len(principals'[x].member_of))
  <2>1. x \in 1..Len(principals) /\ x \in 1..Len(conf)
    BY DEF DirectoryInv, TypeInv
  <2>2. /\ principals[x].name = conf[x].name
        /\ principals[x].id = account_ids[conf[x].name]
        /\ principals[x].id # 0
        /\ Len(principals[x].member_of) = Len(conf[x].member_of)
        /\ GroupsHeld(account_ids, principals[x].member_of, conf[x].member_of,
                      Len(principals[x].member_of))
    BY <2>1 DEF DirectoryInv
  <2>3. conf[x] \in ConfType
    BY <2>1 DEF TypeInv
  <2>4. /\ conf[x].name \in Names
        /\ \A j \in 1..Len(principals[x].member_of) : conf[x].member_of[j] \in Names
        /\ Len(principals[x].member_of) \in Nat
    BY <2>2, <2>3 DEF ConfType
  <2>5. GroupsHeld(account_ids', principals[x].member_of, conf[x].member_of,
                   Len(principals[x].member_of))
    BY <2>2, <2>4, GroupsKept
  <2>. QED BY <2>2, <2>4, <2>5
<1>. QED BY <1>1, <1>2 DEF DirectoryInv

\* A failed store call only sets the result.
LEMMA StoreErrorIInv ==
    ASSUME IInv, StoreError
    PROVE  IInv'
<1>1. TypeInv' /\ StoreInv'
  BY DEF IInv, StoreError, TypeInv, StoreInv
<1>2. DirectoryInv'
  BY DirectoryKept DEF IInv, StoreError
<1>3. LoopInv'
  BY DEF IInv, StoreError, LoopInv, GroupsHeld
<1>. QED BY <1>1, <1>2, <1>3 DEF IInv

\* The id of principal k is obtained.
LEMMA GetPrincipalIdIInv ==
    ASSUME IInv, GetPrincipalId
    PROVE  IInv'
<1>1. k \in 1..Len(conf) /\ id = 0
  BY DEF GetPrincipalId, Running, IInv, TypeInv
<1>2. conf[k].name \in Names
  <2>1. conf[k] \in ConfType
    BY <1>1 DEF IInv, TypeInv
  <2>. QED BY <2>1 DEF ConfType
<1>3. CASE /\ CreateAccount(conf[k].name)
           /\ id' = Obtained(conf[k].name)
           /\ g' = 1
           /\ member_of' = <<>>
           /\ UNCHANGED <<conf, k, principals, emails_to_ids, domains, result, attempts>>
  <2>1. /\ account_ids' \in [Names -> Nat]
        /\ next_id' \in Nat \ {0}
        /\ StoreInv'
        /\ \A m \in Names : account_ids[m] # 0 => account_ids'[m] = account_ids[m]
        /\ account_ids'[conf[k].name] # 0
    BY <1>2, <1>3, CreateAccountStore DEF IInv
  <2>2. TypeInv'
    <3>1. id' \in Nat
      BY <1>2, <1>3, <2>1 DEF Obtained
    <3>2. member_of' \in Seq(Nat) /\ g' \in Nat \ {0}
      BY <1>3
    <3>. QED BY <3>1, <3>2, <2>1, <1>3 DEF IInv, TypeInv
  <2>3. DirectoryInv'
    BY <1>3, <2>1, DirectoryKept DEF IInv
  <2>4. LoopInv'
    BY <1>1, <1>3, <2>1 DEF LoopInv, GroupsHeld, Obtained
  <2>. QED BY <2>1, <2>2, <2>3, <2>4 DEF IInv
<1>4. CASE StoreError
  BY <1>4, StoreErrorIInv
<1>. QED BY <1>3, <1>4 DEF GetPrincipalId

\* The id of group g of principal k is obtained.
LEMMA GetGroupIdIInv ==
    ASSUME IInv, GetGroupId
    PROVE  IInv'
<1>1. /\ k \in 1..Len(conf)
      /\ id # 0
      /\ id = account_ids[conf[k].name]
      /\ g \in 1..Len(conf[k].member_of)
      /\ Len(member_of) = g - 1
      /\ GroupsHeld(account_ids, member_of, conf[k].member_of, g - 1)
  BY DEF GetGroupId, Running, IInv, TypeInv, LoopInv
<1>2. /\ conf[k].name \in Names
      /\ conf[k].member_of \in Seq(Names)
  <2>1. conf[k] \in ConfType
    BY <1>1 DEF IInv, TypeInv
  <2>. QED BY <2>1 DEF ConfType
<1>3. conf[k].member_of[g] \in Names
  BY <1>1, <1>2
<1>4. CASE /\ CreateAccount(conf[k].member_of[g])
           /\ member_of' = Append(member_of, Obtained(conf[k].member_of[g]))
           /\ g' = g + 1
           /\ UNCHANGED <<conf, k, id, principals, emails_to_ids, domains, result, attempts>>
  <2>1. /\ account_ids' \in [Names -> Nat]
        /\ next_id' \in Nat \ {0}
        /\ StoreInv'
        /\ \A m \in Names : account_ids[m] # 0 => account_ids'[m] = account_ids[m]
        /\ account_ids'[conf[k].member_of[g]] # 0
    BY <1>3, <1>4, CreateAccountStore DEF IInv
  <2>2. account_ids'[conf[k].member_of[g]] \in Nat
    BY <1>3, <2>1
  <2>3. TypeInv'
    <3>1. member_of' \in Seq(Nat)
      BY <1>4, <2>2 DEF IInv, TypeInv, Obtained
    <3>. QED BY <3>1, <2>1, <1>4 DEF IInv, TypeInv
  <2>4. DirectoryInv'
    BY <1>4, <2>1, DirectoryKept DEF IInv
  <2>5. id' = account_ids'[conf'[k'].name]
    BY <1>1, <1>2, <1>4, <2>1
  <2>6. GroupsHeld(account_ids', member_of', conf'[k'].member_of, g' - 1)
    <3>1. \A j \in 1..(g - 1) : conf[k].member_of[j] \in Names
      BY <1>1, <1>2
    <3>2. GroupsHeld(account_ids', member_of, conf[k].member_of, g - 1)
      BY <1>1, <2>1, <3>1, GroupsKept
    <3>3. member_of \in Seq(Nat)
      BY DEF IInv, TypeInv
    <3>. QED BY <1>1, <1>4, <2>1, <3>2, <3>3 DEF GroupsHeld, Obtained
  <2>7. LoopInv'
    BY <1>1, <1>4, <2>5, <2>6 DEF LoopInv, IInv, TypeInv
  <2>. QED BY <2>1, <2>3, <2>4, <2>7 DEF IInv
<1>5. CASE StoreError
  BY <1>5, StoreErrorIInv
<1>. QED BY <1>4, <1>5 DEF GetGroupId

\* Principal k is stored with the ids obtained for it.
LEMMA PushPrincipalIInv ==
    ASSUME IInv, PushPrincipal
    PROVE  IInv'
<1> DEFINE P == [name |-> conf[k].name, id |-> id, member_of |-> member_of,
                 emails |-> [j \in 1..Len(conf[k].email) |-> Lower[conf[k].email[j]]]]
<1>1. /\ k \in 1..Len(conf)
      /\ id # 0
      /\ id = account_ids[conf[k].name]
      /\ Len(member_of) = Len(conf[k].member_of)
      /\ GroupsHeld(account_ids, member_of, conf[k].member_of, Len(member_of))
  <2>1. Running /\ id # 0 /\ g > Len(conf[k].member_of)
    BY DEF PushPrincipal
  <2>. QED BY <2>1 DEF Running, IInv, TypeInv, LoopInv
<1>2. /\ principals' = Append(principals, P)
      /\ k' = k + 1 /\ id' = 0
      /\ UNCHANGED <<conf, account_ids, next_id, g, member_of, result, attempts>>
  BY DEF PushPrincipal
<1>3. conf[k] \in ConfType
  BY <1>1 DEF IInv, TypeInv
<1>4. P \in [name: Names, id: Nat, member_of: Seq(Nat), emails: Seq(Addr)]
  <2>1. conf[k].name \in Names /\ conf[k].email \in Seq(Addr)
    BY <1>3 DEF ConfType
  <2>2. [j \in 1..Len(conf[k].email) |-> Lower[conf[k].email[j]]] \in Seq(Addr)
    BY <2>1, MemoryDirectoryBounds
  <2>. QED BY <1>1, <2>1, <2>2 DEF IInv, TypeInv
<1>5. TypeInv'
  BY <1>2, <1>4 DEF IInv, TypeInv
<1>6. StoreInv'
  BY <1>2 DEF IInv, StoreInv
<1>7. DirectoryInv'
  <2>1. Len(principals') = k' - 1 /\ k' <= Len(conf') + 1
    BY <1>1, <1>2 DEF IInv, DirectoryInv, TypeInv
  <2>2. ASSUME NEW x \in 1..Len(principals')
        PROVE  /\ principals'[x].name = conf'[x].name
               /\ principals'[x].id = account_ids'[conf'[x].name]
               /\ principals'[x].id # 0
               /\ Len(principals'[x].member_of) = Len(conf'[x].member_of)
               /\ GroupsHeld(account_ids', principals'[x].member_of, conf'[x].member_of,
                             Len(principals'[x].member_of))
    <3>1. CASE x = k
      BY <1>1, <1>2, <3>1 DEF IInv, DirectoryInv, TypeInv
    <3>2. CASE x # k
      <4>1. x \in 1..Len(principals) /\ principals'[x] = principals[x]
        BY <1>1, <1>2, <3>2 DEF IInv, DirectoryInv, TypeInv
      <4>. QED BY <1>2, <4>1 DEF IInv, DirectoryInv
    <3>. QED BY <3>1, <3>2
  <2>. QED BY <2>1, <2>2 DEF DirectoryInv
<1>8. LoopInv'
  BY <1>2 DEF LoopInv
<1>. QED BY <1>5, <1>6, <1>7, <1>8 DEF IInv

\* from_config returns Some: only the result changes.
LEMMA FinishIInv ==
    ASSUME IInv, Finish
    PROVE  IInv'
<1>1. TypeInv' /\ StoreInv'
  BY DEF IInv, Finish, TypeInv, StoreInv
<1>2. DirectoryInv'
  BY DirectoryKept DEF IInv, Finish
<1>3. LoopInv'
  BY DEF IInv, Finish, LoopInv, GroupsHeld
<1>. QED BY <1>1, <1>2, <1>3 DEF IInv

\* A retry starts a fresh directory over the same store.
LEMMA RetryIInv ==
    ASSUME IInv, Retry
    PROVE  IInv'
<1>1. TypeInv'
  BY DEF IInv, Retry, TypeInv
<1>2. StoreInv'
  BY DEF IInv, Retry, StoreInv
<1>3. DirectoryInv' /\ LoopInv'
  BY DEF IInv, Retry, TypeInv, DirectoryInv, LoopInv
<1>. QED BY <1>1, <1>2, <1>3 DEF IInv

\* Every step of from_config and of its caller keeps the invariant.
LEMMA NextIInv == IInv /\ [Next]_vars => IInv'
<1> SUFFICES ASSUME IInv, [Next]_vars PROVE IInv'
  OBVIOUS
<1>1. CASE GetPrincipalId
  BY <1>1, GetPrincipalIdIInv
<1>2. CASE GetGroupId
  BY <1>2, GetGroupIdIInv
<1>3. CASE PushPrincipal
  BY <1>3, PushPrincipalIInv
<1>4. CASE Finish
  BY <1>4, FinishIInv
<1>5. CASE Retry
  BY <1>5, RetryIInv
<1>6. CASE UNCHANGED vars
  <2>1. TypeInv' /\ StoreInv'
    BY <1>6 DEF vars, IInv, TypeInv, StoreInv
  <2>2. DirectoryInv'
    BY <1>6, DirectoryKept DEF vars, IInv
  <2>3. LoopInv'
    BY <1>6 DEF vars, IInv, LoopInv, GroupsHeld
  <2>. QED BY <2>1, <2>2, <2>3 DEF IInv
<1>. QED BY <1>1, <1>2, <1>3, <1>4, <1>5, <1>6 DEF Next

\* Every pair the directory holds is a name and the store's id for it.
LEMMA PairsFromStore ==
    ASSUME IInv, NEW pr \in IdPairs
    PROVE  pr[1] \in Names /\ pr[2] = account_ids[pr[1]] /\ pr[2] # 0
<1>1. CASE pr \in {<<p.name, p.id>> : p \in Range(principals)}
  <2>1. PICK x \in 1..Len(principals) : pr = <<principals[x].name, principals[x].id>>
    BY <1>1 DEF Range, IInv, TypeInv
  <2>2. x \in 1..Len(conf)
    BY DEF IInv, TypeInv, DirectoryInv
  <2>3. conf[x] \in ConfType
    BY <2>2 DEF IInv, TypeInv
  <2>4. conf[x].name \in Names
    BY <2>3 DEF ConfType
  <2>. QED BY <2>1, <2>4 DEF IInv, DirectoryInv
<1>2. CASE pr \in UNION {{<<conf[x].member_of[j], principals[x].member_of[j]>> :
                          j \in 1..Len(principals[x].member_of)} : x \in 1..Len(principals)}
  <2>0. PICK x \in 1..Len(principals) :
               \E j \in 1..Len(principals[x].member_of) :
                   pr = <<conf[x].member_of[j], principals[x].member_of[j]>>
    BY <1>2
  <2>1. PICK j \in 1..Len(principals[x].member_of) :
               pr = <<conf[x].member_of[j], principals[x].member_of[j]>>
    BY <2>0
  <2>2. x \in 1..Len(conf)
    BY DEF IInv, TypeInv, DirectoryInv
  <2>3. conf[x] \in ConfType
    BY <2>2 DEF IInv, TypeInv
  <2>4. conf[x].member_of \in Seq(Names)
    BY <2>3 DEF ConfType
  <2>5. Len(principals[x].member_of) = Len(conf[x].member_of)
        /\ GroupsHeld(account_ids, principals[x].member_of, conf[x].member_of,
                      Len(principals[x].member_of))
    BY DEF IInv, DirectoryInv
  <2>6. conf[x].member_of[j] \in Names
    BY <2>4, <2>5
  <2>. QED BY <2>1, <2>5, <2>6 DEF GroupsHeld
<1>. QED BY <1>1, <1>2 DEF IdPairs

\* The invariant gives IdsAgree: the store's ids are distinct.
LEMMA IInvIdsAgree == IInv => IdsAgree
<1> SUFFICES ASSUME IInv, NEW a \in IdPairs, NEW b \in IdPairs
             PROVE  (a[1] = b[1]) <=> (a[2] = b[2])
  BY DEF IdsAgree
<1>1. a[1] \in Names /\ a[2] = account_ids[a[1]] /\ a[2] # 0
  BY PairsFromStore
<1>2. b[1] \in Names /\ b[2] = account_ids[b[1]] /\ b[2] # 0
  BY PairsFromStore
<1>. QED BY <1>1, <1>2 DEF IInv, StoreInv

\* from_config, run and retried over one data store with any calls failing,
\* gives every name in the directory (as a principal or as a group) one id,
\* and distinct names distinct ids, whatever the configuration's size.
THEOREM IdsAgreeHolds == Spec => []IdsAgree
<1>1. Init => IInv
  BY InitIInv
<1>2. IInv /\ [Next]_vars => IInv'
  BY NextIInv
<1>3. IInv => IdsAgree
  BY IInvIdsAgree
<1>. QED BY <1>1, <1>2, <1>3, PTL DEF Spec

=============================================================================
