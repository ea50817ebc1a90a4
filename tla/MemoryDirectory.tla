-------------------------- MODULE MemoryDirectory --------------------------
(***************************************************************************)
(* MemoryDirectory::from_config (directory/src/backend/memory/config.rs).  *)
(*                                                                         *)
(* The configuration is the sequence of principals config.sub_keys lists  *)
(* under "<prefix>.principals", in its order. Each is its name, its        *)
(* member-of groups, its email addresses and its email-list addresses.    *)
(* Class, secrets, description and quota are copied without a decision    *)
(* and are left out. from_config awaits the data store once per principal *)
(* name and once per group, and each call may fail; a failure returns     *)
(* None (the `.ok()?`) with the ids created so far kept by the store. The  *)
(* caller may run from_config again with the same configuration (Retry).   *)
(*                                                                         *)
(* get_or_create_account_id is not under src/: it is modelled from its    *)
(* contract, an id that the data store keeps per name, created from a     *)
(* counter on first use. An address is a model value; Lower gives the     *)
(* to_lowercase of each, and DomainOf the lowercased part after the last  *)
(* '@' (or "none" when there is no '@').                                  *)
(***************************************************************************)
EXTENDS Naturals, Sequences, FiniteSets, SequencesExt

CONSTANTS
    Names,        \* principal and group names
    Addr,         \* email addresses
    Lower,        \* [Addr -> Addr]: to_lowercase
    DomainOf,     \* [Addr -> domains or "none"]: the lowercased domain
    MaxPrincipals, MaxGroups, MaxEmails, MaxLists,  \* sizes of a configuration
    MaxAttempts   \* the calls of from_config at most

ASSUME MemoryDirectoryBounds ==
    /\ IsFiniteSet(Names)
    /\ Lower \in [Addr -> Addr]
    /\ \A n \in {MaxPrincipals, MaxGroups, MaxEmails, MaxLists, MaxAttempts} : n \in Nat

\* The configuration of one principal.
PrincipalConf == [name: Names, member_of: SeqOf(Names, MaxGroups),
                  email: SeqOf(Addr, MaxEmails), email_list: SeqOf(Addr, MaxLists)]

\* An entry of emails_to_ids: EmailType::Primary, Alias or List of an id.
Entry == [type: {"primary", "alias", "list"}, id: Nat]

VARIABLES
    conf,          \* the principals of the configuration
    account_ids,   \* the data store: account_ids[n] is n's id, 0 for none
    next_id,       \* the data store's next account id
    k,             \* the principal the loop is at
    g,             \* the member-of group the inner loop is at
    id,            \* the id obtained for principal k, 0 before
    member_of,     \* the group ids obtained for principal k
    principals,    \* directory.principals
    emails_to_ids, \* directory.emails_to_ids
    domains,       \* directory.domains
    result,        \* "running", or what from_config returned
    attempts       \* the calls of from_config so far

vars == <<conf, account_ids, next_id, k, g, id, member_of, principals,
          emails_to_ids, domains, result, attempts>>

\* A fresh MemoryDirectory and the loop at the first principal.
Start ==
    /\ k = 1 /\ g = 1 /\ id = 0 /\ member_of = <<>>
    /\ principals = <<>>
    /\ emails_to_ids = [a \in Addr |-> <<>>]
    /\ domains = {}
    /\ result = "running"

Init ==
    /\ conf \in SeqOf(PrincipalConf, MaxPrincipals)
    /\ account_ids = [n \in Names |-> 0]
    /\ next_id = 1
    /\ attempts = 1
    /\ Start

\* get_or_create_account_id(n): the id the store has for n, or a new one.
AccountId(n) == IF account_ids[n] # 0 THEN account_ids[n] ELSE next_id

\* Mutant: the store creates a new id on every call.
CreateAccountAlways(n) ==
    /\ account_ids' = [account_ids EXCEPT ![n] = next_id]
    /\ next_id' = next_id + 1

\* Mutant: the store does not advance its counter after creating an id.
CreateAccountNoBump(n) ==
    /\ account_ids' = [account_ids EXCEPT ![n] = AccountId(n)]
    /\ next_id' = next_id

\* The store's side of get_or_create_account_id(n).
CreateAccount(n) ==
    /\ account_ids' = [account_ids EXCEPT ![n] = AccountId(n)]
    /\ next_id' = IF account_ids[n] # 0 THEN next_id ELSE next_id + 1

\* The id the call returns: the store's id for n after the call.
Obtained(n) == account_ids'[n]

Running == result = "running" /\ k <= Len(conf)

\* A call to the data store fails: from_config returns None.
StoreError ==
    /\ result' = "none"
    /\ UNCHANGED <<conf, account_ids, next_id, k, g, id, member_of, principals,
                   emails_to_ids, domains, attempts>>

\* let id = directory.data_store.get_or_create_account_id(&name).await ...?
GetPrincipalId ==
    /\ Running
    /\ id = 0
    /\ \/ /\ CreateAccount(conf[k].name)
          /\ id' = Obtained(conf[k].name)
          /\ g' = 1
          /\ member_of' = <<>>
          /\ UNCHANGED <<conf, k, principals, emails_to_ids, domains, result, attempts>>
       \/ StoreError

\* member_of.push(get_or_create_account_id(&group).await ...?)
GetGroupId ==
    /\ Running
    /\ id # 0
    /\ g <= Len(conf[k].member_of)
    /\ \/ /\ CreateAccount(conf[k].member_of[g])
          /\ member_of' = Append(member_of, Obtained(conf[k].member_of[g]))
          /\ g' = g + 1
          /\ UNCHANGED <<conf, k, id, principals, emails_to_ids, domains, result, attempts>>
       \/ StoreError

\* The index entries of principal k, in the order the code pushes them: its
\* addresses under the address as written (the first Primary, the others
\* Alias), then its list addresses under their lowercase form.
Pushes ==
    LET E == conf[k].email
        L == conf[k].email_list
    IN  [j \in 1..Len(E) |->
            [key |-> E[j], entry |-> [type |-> IF j > 1 THEN "alias" ELSE "primary",
                                      id |-> id]]]
        \o [j \in 1..Len(L) |-> [key |-> Lower[L[j]], entry |-> [type |-> "list", id |-> id]]]

\* The entries principal k adds under the key a, in order.
EntriesFor(a) ==
    LET s == SelectSeq(Pushes, LAMBDA r : r.key = a) IN [j \in 1..Len(s) |-> s[j].entry]

\* The addresses, the lists and the principal are stored; the next one.
PushPrincipal ==
    /\ Running
    /\ id # 0
    /\ g > Len(conf[k].member_of)
    /\ LET E == conf[k].email
           L == conf[k].email_list
       IN  /\ emails_to_ids' = [a \in Addr |-> emails_to_ids[a] \o EntriesFor(a)]
           /\ domains' = domains \cup ({DomainOf[e] : e \in Range(E) \cup Range(L)}
                                       \ {"none"})
           /\ principals' = Append(principals,
                                   [name |-> conf[k].name, id |-> id,
                                    member_of |-> member_of,
                                    emails |-> [j \in 1..Len(E) |-> Lower[E[j]]]])
    /\ k' = k + 1
    /\ id' = 0
    /\ UNCHANGED <<conf, account_ids, next_id, g, member_of, result, attempts>>

\* The loop ends: Some(directory).
Finish ==
    /\ result = "running"
    /\ k > Len(conf)
    /\ result' = "some"
    /\ UNCHANGED <<conf, account_ids, next_id, k, g, id, member_of, principals,
                   emails_to_ids, domains, attempts>>

\* from_config is called again after it returned None; the store is kept.
Retry ==
    /\ result = "none"
    /\ attempts < MaxAttempts
    /\ attempts' = attempts + 1
    /\ k' = 1 /\ g' = 1 /\ id' = 0 /\ member_of' = <<>>
    /\ principals' = <<>>
    /\ emails_to_ids' = [a \in Addr |-> <<>>]
    /\ domains' = {}
    /\ result' = "running"
    /\ UNCHANGED <<conf, account_ids, next_id>>

Next == GetPrincipalId \/ GetGroupId \/ PushPrincipal \/ Finish \/ Retry

Spec == Init /\ [][Next]_vars

-----------------------------------------------------------------------------
(* Properties                                                              *)

\* Every variable has its type; the store's counter stays within one id
\* per name.
TypeOK ==
    /\ conf \in SeqOf(PrincipalConf, MaxPrincipals)
    /\ account_ids \in [Names -> Nat]
    /\ next_id \in 1..(Cardinality(Names) + 1)
    /\ k \in 1..(MaxPrincipals + 1) /\ g \in 1..(MaxGroups + 1)
    /\ id \in Nat
    /\ member_of \in Seq(Nat)
    /\ emails_to_ids \in [Addr -> Seq(Entry)]
    /\ result \in {"running", "some", "none"}
    /\ attempts \in 1..MaxAttempts

\* Every (name, id) pair the directory holds: its principals, and the
\* groups of their member_of lists.
IdPairs ==
    {<<p.name, p.id>> : p \in Range(principals)}
    \cup UNION {{<<conf[x].member_of[j], principals[x].member_of[j]>> :
                 j \in 1..Len(principals[x].member_of)} : x \in 1..Len(principals)}

\* Across principals, their groups and the attempts that failed part way
\* and were retried, the directory gives one name one id and two names two
\* ids: a group named before its principal is loaded resolves to the
\* principal's own id.
IdsAgree ==
    \A a, b \in IdPairs : (a[1] = b[1]) <=> (a[2] = b[2])

\* Every address a principal lists (stored lowercased in its emails) is a
\* key of emails_to_ids that leads back to the principal as Primary or Alias.
EmailsIndexed ==
    \A x \in 1..Len(principals) : \A e \in Range(principals[x].emails) :
        \E en \in Range(emails_to_ids[e]) :
            en.id = principals[x].id /\ en.type \in {"primary", "alias"}

=============================================================================
