------------------------------ MODULE Accounts ------------------------------
(***************************************************************************)
(* The rows of nguoidung and what changes them: registrations, the          *)
(* administrators' user management, profiles (services/users), identities   *)
(* of the external provider that are linked or given an account             *)
(* (services/auth), and the browsers that go by what they were told of      *)
(* their account.                                                          *)
(*                                                                         *)
(* A request is authenticated, then reads what it is about and checks it,   *)
(* then commits: other requests move in between, and it goes on believing   *)
(* the rows it has loaded.                                                  *)
(***************************************************************************)
EXTENDS Access

CONSTANTS People,      \* the ids that rows may get
          Founders,    \* the roles of the accounts that exist when a behaviour begins
          Addresses,   \* names by which rows are unique: user names and e-mails
          HomeOf,      \* the address of each founder
          Identities,  \* subjects of the external provider
          AddressOf,   \* the e-mail in an identity's token
          Verified,    \* the identities whose e-mail the provider has verified
          Writers,     \* slots for requests that write
          Granted,     \* the roles and the addresses that requests ask for
          Named,
          Watched,     \* the accounts whose browsers are followed
          NoOne

ASSUME Distinct == /\ NoOne \notin People \cup Addresses \cup Identities
                   /\ Verified \subseteq Identities
                   /\ Watched \subseteq People /\ Granted \subseteq Roles /\ Named \subseteq Addresses
ASSUME Founded == /\ DOMAIN Founders \subseteq People /\ Founders \in [DOMAIN Founders -> Roles]
                  /\ HomeOf \in [DOMAIN Founders -> Addresses]
                  /\ \A p, q \in DOMAIN Founders : HomeOf[p] = HomeOf[q] => p = q
ASSUME Addressed == AddressOf \in [Identities -> Addresses]

VARIABLES row,   \* nguoidung, by id: role, whether enabled, e-mail, cognito_sub
          req,   \* requests: the caller's row and the row they are about, as loaded; the UPDATE
          page   \* per account, its browser: the role it knows and whether that is old

usersVars == <<row, req, page>>

Fields == {"role", "active", "email", "sub"}
NoRow == [role |-> "none", active |-> FALSE, email |-> NoOne, sub |-> NoOne]
Idle == [pc |-> "idle"]
NewAccount(e, role, i) == [role |-> role, active |-> TRUE, email |-> e, sub |-> i]

UsersInit ==
  /\ row = [p \in People |-> IF p \in DOMAIN Founders
              THEN NewAccount(HomeOf[p], Founders[p], NoOne) ELSE NoRow]
  /\ req = [w \in Writers |-> Idle]
  /\ page = [p \in Watched |-> [role |-> Visitor, old |-> FALSE]]

Exists(p) == row[p].role # "none"
Holding(field, value) == {p \in People : Exists(p) /\ row[p][field] = value}
-----------------------------------------------------------------------------
(* Requests                                                                *)

\* get_current_user and require_role: the row of the caller is loaded, once.
Authenticate(w, p, handler) ==
  /\ req[w] = Idle /\ row[p].active /\ <<handler, row[p].role>> \in Routes
  /\ req' = [req EXCEPT ![w] = [pc |-> "load", kind |-> handler, by |-> p, as |-> row[p]]]
  /\ UNCHANGED <<row, page>>
Asked(w, handler) == req[w].pc = "load" /\ req[w].kind = handler

\* The INSERT, or UPDATE of q, that waits for the commit; without columns there is none.
Write(w, by, role, q, columns) ==
  /\ req' = [req EXCEPT ![w] = IF DOMAIN columns = {} THEN Idle ELSE
       [pc |-> "commit", by |-> by, role |-> role, about |-> q, set |-> columns]]
  /\ UNCHANGED <<row, page>>

\* A new name is looked for before its row is inserted.
register(w, e) ==
  /\ req[w] = Idle /\ Holding("email", e) = {}
  /\ Write(w, NoOne, Visitor, NoOne, NewAccount(e, "customer", NoOne))
create_user(w, e, role) ==
  /\ Asked(w, "create_user") /\ Holding("email", e) = {}
  /\ Write(w, req[w].by, req[w].as.role, NoOne, NewAccount(e, role, NoOne))

\* The UPDATE names the columns whose values the request changed from what it had loaded.
\* mutant: it names the columns that the request mentioned
Mentioned(loaded, sent) == sent
Changed(loaded, sent) == [f \in {g \in DOMAIN sent : sent[g] # loaded[g]} |-> sent[f]]

\* The own row is the one that authentication has loaded; any other is read now.
Loaded(w, q) == IF q = req[w].by THEN req[w].as ELSE row[q]
MayUpdate(as, by, q, sent) ==
  /\ as.role \in MANAGEMENT_ROLES \/ by = q
  /\ "role" \in DOMAIN sent => as.role = "admin"
update_user(w, q, sent) ==
  /\ Asked(w, "update_user") /\ Exists(q) /\ MayUpdate(req[w].as, req[w].by, q, sent)
  /\ LET new == Changed(Loaded(w, q), sent)
     IN /\ "email" \in DOMAIN new => Holding("email", new.email) = {}
        /\ Write(w, req[w].by, req[w].as.role, q, new)
delete_user(w, q) ==
  /\ Asked(w, "delete_user") /\ Exists(q) /\ q # req[w].by
  /\ Write(w, req[w].by, req[w].as.role, q, Changed(row[q], [active |-> FALSE]))

\* An identity has its account by its subject, or by its e-mail if that is verified and
\* nobody else's, or is given one.
provision_cognito_user(w, i) ==
  LET linked == Holding("sub", i)
      named == Holding("email", AddressOf[i])
  IN /\ req[w] = Idle
     /\ \/ \E q \in linked : row[q].active /\ UNCHANGED <<row, req, page>>
        \/ \E q \in named :
             /\ linked = {} /\ i \in Verified /\ row[q].sub \in {NoOne, i} /\ row[q].active
             /\ Write(w, NoOne, Visitor, q, [sub |-> i])
        \/ /\ linked = {} /\ named = {}
           /\ Write(w, NoOne, Visitor, NoOne, NewAccount(AddressOf[i], "customer", i))

\* Refused on the way, or the connection is lost.
Abandon(w) == req[w] # Idle /\ req' = [req EXCEPT ![w] = Idle] /\ UNCHANGED <<row, page>>

\* The unique columns are the database's: an INSERT or UPDATE that meets one fails, a 500.
\* mutant: the service's look before it writes is all there is
Unchecked(table) == TRUE
Allowed(table) ==
  \A p, q \in People, field \in {"email", "sub"} :
    p # q /\ table[p][field] # NoOne => table[p][field] # table[q][field]
Target(w) == IF req[w].about # NoOne THEN {req[w].about} ELSE {p \in People : ~Exists(p)}
Commit(w) ==
  /\ req[w].pc = "commit"
  /\ \E q \in Target(w) :
       LET table == [row EXCEPT ![q] = [f \in DOMAIN NoRow |->
                       IF f \in DOMAIN req[w].set THEN req[w].set[f] ELSE @[f]]]
       IN row' = IF Allowed(table) THEN table ELSE row
  /\ page' = [p \in Watched |-> [page[p] EXCEPT
                !.old = @ \/ (page[p].role # Visitor /\ row'[p] # row[p])]]
  /\ req' = [req EXCEPT ![w] = Idle]
-----------------------------------------------------------------------------
(* Browsers                                                                *)

\* GET /auth/me: the capabilities of the role, once per page load or sign-in.
get_current_user_info(p) ==
  /\ row[p].active
  /\ page' = [page EXCEPT ![p] = [role |-> row[p].role, old |-> FALSE]]
  /\ UNCHANGED <<row, req>>

\* What the server takes somebody for, and refuses of what the pages offer.
Viewer(p) == IF row[p].active THEN row[p].role ELSE Visitor
Refused(p) == Refusals[Viewer(p)][page[p].role]

\* A request mentions one of these.
Bodies == [active : BOOLEAN] \cup [email : Named] \cup [role : Granted]
UsersNext ==
  \/ \E w \in Writers :
       \/ \E p \in People, h \in {"create_user", "update_user", "delete_user"} : Authenticate(w, p, h)
       \/ \E e \in Named : register(w, e) \/ \E r \in Granted : create_user(w, e, r)
       \/ \E q \in People, sent \in Bodies : update_user(w, q, sent)
       \/ \E q \in People : delete_user(w, q)
       \/ \E i \in Identities : provision_cognito_user(w, i)
       \/ Abandon(w) \/ Commit(w)
  \/ \E p \in Watched : get_current_user_info(p)
UsersSpec == UsersInit /\ [][UsersNext]_usersVars
-----------------------------------------------------------------------------
(* Properties                                                              *)

UsersTypeOK ==
  /\ row \in [People -> [role : Roles \cup {"none"}, active : BOOLEAN,
                         email : Addresses \cup {NoOne}, sub : Identities \cup {NoOne}]]
  /\ \A w \in Writers :
       \/ req[w] = Idle
       \/ req[w].pc = "load" /\ req[w].by \in People /\ req[w].as.role \in Roles
       \/ /\ req[w].pc = "commit" /\ req[w].by \in People \cup {NoOne} /\ req[w].role \in Anyone
          /\ req[w].about \in People \cup {NoOne} /\ DOMAIN req[w].set \subseteq DOMAIN NoRow
  /\ page \in [Watched -> [role : Anyone, old : BOOLEAN]]

\* However registrations, profiles and sign-ins from outside cross, nobody has two
\* accounts and no two share an address or an identity (auth_service.py:63-75, 169-190;
\* user_service.py:96-101, 137-140, which look first and write later).
AccountsWhole ==
  /\ UsersTypeOK
  /\ \A p, q \in People : p # q /\ Exists(p) /\ Exists(q) =>
       /\ row[p].email # row[q].email /\ row[p].email # NoOne
       /\ row[p].sub = NoOne \/ row[p].sub # row[q].sub

\* Roles change only by a request whose caller was an administrator when it was let in (one
\* demoted meanwhile goes on as loaded, also about the own role), registrations and identities
\* from outside make customers, and who has been disabled is enabled again only by somebody
\* else, who managed when let in: a profile of one's own saved from an old row brings nothing
\* back (user_service.py:124-153, 155-174).
OthersGrant ==
  \A p \in People : row'[p] # row[p] =>
    LET was == row[p]  is == row'[p]
        Settled == {req[w] : w \in {v \in Writers : req[v].pc = "commit" /\ req'[v] = Idle}}
    IN /\ \/ is.role = was.role \/ (was.role = "none" /\ is.role = "customer")
          \/ \E r \in Settled : r.role = "admin"
       /\ \/ was.role = "none" \/ was.active \/ ~is.active
          \/ \E r \in Settled : r.by # p /\ r.role \in MANAGEMENT_ROLES
RightsHold == [][OthersGrant]_row

\* The page of an order offers to who does not manage what the service keeps to the
\* management: every status, and the cancellation of an order somebody else placed.
Withheld(role) ==
  {c \in ({"update_order_status"} \X Ties) \cup ({"cancel_order"} \X (Ties \ {"placed"})) :
     role \notin MANAGEMENT_ROLES}

\* Page and server agree, but for those two buttons: nothing else that a page offers would
\* be refused, unless the account has changed since its browser asked
\* (docs/specs/09-p0-p1-remediation.md:341; AdminOrderDetailPage.tsx, order_service.py:498, 745).
PagesServed == \A p \in Watched : page[p].old \/ Refused(p) \subseteq Withheld(page[p].role)
=============================================================================
