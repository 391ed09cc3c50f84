------------------------------ MODULE Accounts ------------------------------
(***************************************************************************)
(* Who is a user and who belongs to which organisation: the first-login    *)
(* provisioning of domain/auth and the members of domain/org.  A call is a *)
(* goroutine whose queries interleave with other calls' and may fail.      *)
(*                                                                         *)
(* The repositories give every new row the same key, a placeholder for the *)
(* Snowflake generator, so the primary key refuses a table's second row.   *)
(***************************************************************************)
EXTENDS Naturals, FiniteSets

CONSTANTS
    AccountCalls,
    Asks,      \* what each call asks: see AsksOK
    Nobody

AsksOK(a) ==
    \/ /\ DOMAIN a = {"kind", "parsed", "sub", "email"} /\ a.kind = "validate"
       /\ a.parsed \in BOOLEAN /\ a.email \in BOOLEAN
    \/ DOMAIN a = {"kind", "slug"} /\ a.kind = "create_org"
    \/ DOMAIN a = {"kind", "org", "user"} /\ a.kind \in {"add", "remove"}

ASSUME AccountsOK == \A c \in AccountCalls : AsksOK(Asks[c])

VARIABLES
    users,    \* rows [id, key], where the key is the external ID
    orgs,     \* rows [id, key], where the key is the slug
    members,  \* rows [id, key, live], where the key is <<organisation, user>>
    account   \* [pc, answer] of each call

accountVars == <<users, orgs, members, account>>

PlaceholderId == 1

AccountsInit(active) ==
    /\ users = {} /\ orgs = {} /\ members = {}
    /\ account = [c \in AccountCalls |->
                     [pc |-> IF c \in active THEN Asks[c].kind ELSE "none", answer |-> Nobody]]

AccountGoes(c, pc) == account' = [account EXCEPT ![c].pc = pc]

AnswersUser(c, user) == account' = [account EXCEPT ![c] = [pc |-> "ok", answer |-> user]]

\* A row that is soft-deleted still has its keys.
KeysTaken(table, key) == \E m \in table : m.id = PlaceholderId \/ m.key = key

MemberTaken_LiveOnly(pair) == \E m \in members : m.key = pair /\ m.live

MemberTaken(pair) == KeysTaken(members, pair)

-----------------------------------------------------------------------------
\* ValidateToken and GetOrCreateUser.

UsersOf(c) == {u \in users : u.key = Asks[c].sub}

\* The user is asked for twice: by ValidateToken, where only an unknown user
\* with an e-mail is taken further, and by GetOrCreateUser.
FindByExternalID(c) ==
    /\ account[c].pc = "validate"
    /\ \/ ~Asks[c].parsed /\ AccountGoes(c, "refused")
       \/ Asks[c].parsed /\ UsersOf(c) # {} /\ AccountGoes(c, "login")
       \/ Asks[c].parsed /\ UsersOf(c) = {}
          /\ AccountGoes(c, IF Asks[c].email THEN "find" ELSE "refused")
       \/ AccountGoes(c, "refused")
    /\ UNCHANGED <<users, orgs, members>>

FindAgain(c) ==
    /\ account[c].pc = "find"
    /\ \/ AccountGoes(c, IF UsersOf(c) # {} THEN "login" ELSE "create")
       \/ AccountGoes(c, "refused")
    /\ UNCHANGED <<users, orgs, members>>

UpdateLastLogin(c) ==
    /\ account[c].pc = "login"
    /\ \/ \E u \in UsersOf(c) : AnswersUser(c, u)
       \/ AccountGoes(c, "refused")
    /\ UNCHANGED <<users, orgs, members>>

CreateFails_Answered(c) == AnswersUser(c, [id |-> PlaceholderId, key |-> Asks[c].sub])

CreateFails(c) == AccountGoes(c, "refused")

CreateUser(c) ==
    LET u == [id |-> PlaceholderId, key |-> Asks[c].sub]
    IN  /\ account[c].pc = "create"
        /\ \/ ~KeysTaken(users, u.key) /\ users' = users \cup {u} /\ AnswersUser(c, u)
           \/ CreateFails(c) /\ UNCHANGED users
        /\ UNCHANGED <<orgs, members>>

-----------------------------------------------------------------------------
\* Organisations and members.

CreateOrg(c) ==
    /\ account[c].pc = "create_org"
    /\ \/ /\ ~KeysTaken(orgs, Asks[c].slug)
          /\ orgs' = orgs \cup {[id |-> PlaceholderId, key |-> Asks[c].slug]}
          /\ AccountGoes(c, "ok")
       \/ AccountGoes(c, "refused") /\ UNCHANGED orgs
    /\ UNCHANGED <<users, members>>

Pair(c) == <<Asks[c].org, Asks[c].user>>

\* AddMember looks for a live row first, then inserts.
FindMember(c) ==
    /\ account[c].pc = "add"
    /\ \/ AccountGoes(c, IF \E m \in members : m.key = Pair(c) /\ m.live
                         THEN "refused" ELSE "insert")
       \/ AccountGoes(c, "refused")
    /\ UNCHANGED <<users, orgs, members>>

\* The row refers to rows of both tables.
InsertMember(c) ==
    /\ account[c].pc = "insert"
    /\ \/ /\ \E o \in orgs : o.id = Asks[c].org
          /\ \E u \in users : u.id = Asks[c].user
          /\ ~MemberTaken(Pair(c))
          /\ members' = members \cup {[id |-> PlaceholderId, key |-> Pair(c), live |-> TRUE]}
          /\ AccountGoes(c, "ok")
       \/ AccountGoes(c, "refused") /\ UNCHANGED members
    /\ UNCHANGED <<users, orgs>>

\* A soft delete; none to delete is no error.
RemoveMember(c) ==
    /\ account[c].pc = "remove"
    /\ \/ /\ members' = {IF m.key = Pair(c) THEN [m EXCEPT !.live = FALSE] ELSE m : m \in members}
          /\ AccountGoes(c, "ok")
       \/ AccountGoes(c, "refused") /\ UNCHANGED members
    /\ UNCHANGED <<users, orgs>>

AccountsNext ==
    \E c \in AccountCalls :
        \/ FindByExternalID(c) \/ FindAgain(c) \/ UpdateLastLogin(c) \/ CreateUser(c)
        \/ CreateOrg(c) \/ FindMember(c) \/ InsertMember(c) \/ RemoveMember(c)

AccountsSpec ==
    (\E active \in SUBSET AccountCalls : AccountsInit(active)) /\ [][AccountsNext]_accountVars

-----------------------------------------------------------------------------
(* Properties.                                                             *)

\* Whoever a call is told to be has a row, under the subject of the call's own
\* token, also when other first requests of the same subject got in between.
AnsweredUserIsStored ==
    \A c \in AccountCalls :
        LET u == account[c].answer
        IN  u # Nobody => u \in users /\ u.key = Asks[c].sub

\* AddMember's check and its insert are apart, and the check sees live rows
\* only: all the same nobody is a member twice, nor again after a removal.  With
\* the placeholder there is one membership in all; the proof uses the key of the
\* pair alone.
NoSecondMembership ==
    [][\A m \in members' \ members :
          /\ \A n \in members' \ {m} : n.key # m.key
          /\ m.live => \A n \in members : n.key # m.key]_accountVars
=============================================================================
