--------------------------- MODULE StorageProofs ---------------------------
(***************************************************************************)
(* Proofs about Storage for any number of sessions, rows and statements.   *)
(*                                                                         *)
(* What a session holds of a row that exists opens to the row's secret,    *)
(* encrypted or not, so that whatever it stores does too.  Its snapshot is *)
(* what the row shows until the commit, or the row is clouded; so a commit *)
(* without a delta changes nothing, and a delta that is told tells what    *)
(* the row shows.                                                          *)
(***************************************************************************)
EXTENDS Storage, TLAPS

Pcs == {"none", "idle", "encrypt", "guard", "snapshot", "write", "commit", "diff"}

Secrets == AtRest \cup Plain

Shows == Values \cup {Blank}

SessionState ==
    [pc : Pcs, org : Orgs \cup {NoRow}, at : Rows \cup {NoRow}, val : Shows, secret : Secrets,
     hash : BOOLEAN, does : Statements, snapshot : Shows \cup {NoRow}, blind : BOOLEAN,
     failed : BOOLEAN, saves : Nat]

Entry == [old : Shows \cup {NoRow}, new : Shows \cup {NoRow}]

\* A session by itself.
SessionOK(m) ==
    /\ m \in SessionState
    /\ m.pc \notin {"none", "idle"} => m.at \in Rows
    /\ m.pc \in {"none", "idle"} => m.does = "save" /\ ~m.blind
    /\ m.pc = "guard" => m.does \in Inserts
    /\ m.pc = "encrypt" => m.does # "delete"
    /\ m.pc = "snapshot" => m.does \in {"save", "delete"}
    /\ m.pc \in {"guard", "snapshot", "write", "commit"} /\ m.does # "delete" /\ ~m.blind
           => m.secret \in AtRest
    /\ m.blind => m.pc \in {"write", "commit", "diff"} /\ m.does \in {"save", "delete"}
    /\ m.snapshot # NoRow => /\ m.pc \in {"write", "commit", "diff"}
                             /\ m.does \in {"save", "delete"}

-----------------------------------------------------------------------------
\* A session beside the rows, the locks and the clouded rows.
ShownIn(rows, r) == IF rows[r] = NoRow \/ rows[r].deleted THEN NoRow ELSE rows[r].val

ValueBefore(m) == IF m.does \in Inserts THEN NoRow ELSE m.snapshot
ValueAfter(m) == IF m.does = "delete" THEN NoRow ELSE m.val

PendingOf(m, r) ==
    m.at = r /\ m.pc = "diff" /\ ValueBefore(m) # ValueAfter(m) /\ ~m.blind

\* What s will store has a row's lock, and a row as the statement wants it.
LockedOK(m, s, rows, locks) ==
    m.pc = "commit" =>
        /\ locks[m.at] = s
        /\ m.does = "create" => rows[m.at] = NoRow
        /\ m.does \in {"save", "delete"} => rows[m.at] # NoRow /\ ~rows[m.at].deleted

\* A model that was loaded or stored.
OfRow(m) == /\ m.at \in Rows /\ ~m.blind
            /\ m.does # "create" \/ (m.pc = "diff" /\ ~m.failed)

SecretOK(m, rows) ==
    OfRow(m) => rows[m.at] # NoRow /\ Opened(m.secret) = Opened(rows[m.at].secret)

FreshOK(m, rows, cl) ==
    m.pc \in {"write", "commit"} /\ m.snapshot # NoRow /\ m.at \notin cl
        => m.snapshot = ShownIn(rows, m.at)

PendingOK(m, rows, cl) ==
    \A r \in Rows : r \notin cl /\ PendingOf(m, r) => ValueAfter(m) = ShownIn(rows, r)

Coherent(m, s, rows, locks, cl) ==
    /\ LockedOK(m, s, rows, locks) /\ SecretOK(m, rows)
    /\ FreshOK(m, rows, cl) /\ PendingOK(m, rows, cl)

TrailIn(deltas, r) == IF deltas[r] = <<>> THEN NoRow ELSE Last(deltas[r]).new

LockOK(r) ==
    \A s \in Sessions : lock[r] = s => session[s].pc = "commit" /\ session[s].at = r

TrailOK(r) ==
    r \notin clouded /\ (\A s \in Sessions : ~PendingOf(session[s], r))
        => Trail(r) = ShownIn(row, r)

StorageInv ==
    /\ session \in [Sessions -> SessionState]
    /\ lock \in [Rows -> Sessions \cup {NoRow}]
    /\ row \in [Rows -> RowState \cup {NoRow}]
    /\ delta \in [Rows -> Seq(Entry)]
    /\ clouded \in SUBSET Rows
    /\ \A s \in Sessions : SessionOK(session[s]) /\ Coherent(session[s], s, row, lock, clouded)
    /\ \A r \in Rows : LockOK(r) /\ TrailOK(r)

LEMMA StorageInvInit ==
    ASSUME NEW active \in SUBSET Sessions, StorageInit(active)
    PROVE  StorageInv
  <1>1. ASSUME NEW pc \in {"none", "idle"}, NEW m, m = [Idle EXCEPT !.pc = pc]
        PROVE  SessionOK(m) /\ m.pc = pc /\ m.at = NoRow /\ m.snapshot = NoRow
    BY <1>1 DEF Idle, SessionOK, SessionState, Pcs, Shows, Secrets, AtRest, Statements, Inserts
  <1>2. \A s \in Sessions : /\ SessionOK(session[s]) /\ session[s].pc \in {"none", "idle"}
                            /\ session[s].at = NoRow /\ session[s].snapshot = NoRow
    BY <1>1 DEF StorageInit, Idle
  <1>3. session \in [Sessions -> SessionState]
    BY <1>2 DEF StorageInit, SessionOK
  <1>4. NoRow \notin Sessions
    BY StorageOK
  <1>5. ASSUME NEW s \in Sessions PROVE Coherent(session[s], s, row, lock, clouded)
    <2>1. session[s].at \notin Rows \/ \A r \in Rows : row[r] = NoRow
      BY DEF StorageInit
    <2>2. LockedOK(session[s], s, row, lock) /\ FreshOK(session[s], row, clouded)
      BY <1>2 DEF LockedOK, FreshOK
    <2>3. PendingOK(session[s], row, clouded)
      BY <1>2 DEF PendingOK, PendingOf
    <2>4. SecretOK(session[s], row)
      <3>1. NoRow \notin Rows
        BY StorageOK
      <3> QED BY <1>2, <3>1 DEF SecretOK, OfRow
    <2> QED BY <2>2, <2>3, <2>4 DEF Coherent
  <1>6. ASSUME NEW r \in Rows PROVE LockOK(r) /\ TrailOK(r)
    BY <1>4 DEF StorageInit, LockOK, TrailOK, Trail, ShownIn
  <1> QED BY <1>2, <1>3, <1>5, <1>6 DEF StorageInit, StorageInv

\* A step of one session that changes no row: the trail of a row that counts is
\* left alone, with the delta that is still to tell, or it tells what is shown.
LEMMA Moves ==
    ASSUME StorageInv, NEW s \in Sessions, NEW m, SessionOK(m),
           session' = [session EXCEPT ![s] = m], row' = row,
           delta' \in [Rows -> Seq(Entry)],
           clouded' \in SUBSET Rows, clouded \subseteq clouded',
           lock' \in [Rows -> Sessions \cup {NoRow}],
           \A r \in Rows, u \in Sessions : u # s => (lock'[r] = u <=> lock[r] = u),
           \A r \in Rows : lock'[r] = s => m.pc = "commit" /\ m.at = r,
           Coherent(m, s, row, lock', clouded'),
           \A r \in Rows :
               \/ r \in clouded' \/ TrailIn(delta', r) = ShownIn(row, r)
               \/ delta'[r] = delta[r] /\ (PendingOf(session[s], r) => PendingOf(m, r))
    PROVE  StorageInv'
  <1>1. session'[s] = m /\ \A u \in Sessions : u # s => session'[u] = session[u]
    BY DEF StorageInv
  <1>2. session' \in [Sessions -> SessionState]
    BY DEF StorageInv, SessionOK
  <1>3. ASSUME NEW u \in Sessions, u # s
        PROVE  Coherent(session[u], u, row, lock', clouded')
    <2>1. Coherent(session[u], u, row, lock, clouded) /\ SessionOK(session[u])
      BY DEF StorageInv
    <2>2. LockedOK(session[u], u, row, lock')
      BY <1>3, <2>1 DEF Coherent, LockedOK, SessionOK
    <2>3. FreshOK(session[u], row, clouded') /\ PendingOK(session[u], row, clouded')
      BY <2>1 DEF Coherent, FreshOK, PendingOK
    <2> QED BY <2>1, <2>2, <2>3 DEF Coherent
  <1>4. ASSUME NEW u \in Sessions
        PROVE  SessionOK(session'[u]) /\ Coherent(session'[u], u, row', lock', clouded')
    BY <1>1, <1>3 DEF StorageInv
  <1>5. ASSUME NEW r \in Rows PROVE LockOK(r)'
    BY <1>1 DEF StorageInv, LockOK
  <1>6. ASSUME NEW r \in Rows PROVE TrailOK(r)'
    <2> SUFFICES ASSUME r \notin clouded', \A u \in Sessions : ~PendingOf(session'[u], r)
                 PROVE  Trail(r)' = ShownIn(row', r)
      BY DEF TrailOK
    <2>1. CASE TrailIn(delta', r) = ShownIn(row, r)
      BY <2>1 DEF Trail, TrailIn
    <2>2. CASE delta'[r] = delta[r] /\ (PendingOf(session[s], r) => PendingOf(m, r))
      <3>1. \A u \in Sessions : ~PendingOf(session[u], r)
        BY <1>1, <2>2
      <3>2. Trail(r) = ShownIn(row, r)
        BY <3>1 DEF StorageInv, TrailOK
      <3> QED BY <2>2, <3>2 DEF Trail
    <2> QED BY <2>1, <2>2
  <1>7. row' \in [Rows -> RowState \cup {NoRow}]
    BY DEF StorageInv
  <1> QED BY <1>2, <1>4, <1>5, <1>6, <1>7 DEF StorageInv

\* A session that has no lock and no delta to tell has nothing to give back.
LEMMA NothingHeld ==
    ASSUME StorageInv, NEW s \in Sessions, session[s].pc # "commit"
    PROVE  \A r \in Rows : lock[r] # s
  BY DEF StorageInv, LockOK

\* Before its commit a session keeps its locks and its trail.
LEMMA Prepares ==
    ASSUME StorageInv, NEW s \in Sessions, NEW m, SessionOK(m),
           session[s].pc \notin {"commit", "diff"}, m.pc \notin {"commit", "diff"},
           session' = [session EXCEPT ![s] = m], UNCHANGED <<row, lock, delta, clouded>>,
           SecretOK(m, row), FreshOK(m, row, clouded)
    PROVE  StorageInv'
  <1>1. /\ lock \in [Rows -> Sessions \cup {NoRow}] /\ clouded \in SUBSET Rows
        /\ \A r \in Rows : lock[r] # s
    BY NothingHeld DEF StorageInv
  <1>2. Coherent(m, s, row, lock', clouded')
    BY DEF Coherent, LockedOK, PendingOK, PendingOf
  <1>3. delta' \in [Rows -> Seq(Entry)] /\ \A r \in Rows : ~PendingOf(session[s], r)
    BY DEF PendingOf, StorageInv
  <1> QED BY <1>1, <1>2, <1>3, Moves

\* A session at rest.
LEMMA RestIs ==
    ASSUME StorageInv, NEW s \in Sessions, NEW at \in Rows \cup {NoRow}, session' = Rest(s, at)
    PROVE  \E m : /\ SessionOK(m) /\ session' = [session EXCEPT ![s] = m]
                  /\ m.pc = "idle" /\ m.at = at /\ m.does = "save" /\ m.snapshot = NoRow
                  /\ ~m.blind /\ m.secret = session[s].secret
  <1> DEFINE m == [session[s] EXCEPT !.pc = "idle", !.at = at, !.does = "save",
                     !.snapshot = NoRow, !.blind = FALSE, !.failed = FALSE, !.hash = TRUE]
  <1>1. /\ m \in SessionState /\ m.pc = "idle" /\ m.at = at /\ m.does = "save"
        /\ m.snapshot = NoRow /\ ~m.blind /\ m.secret = session[s].secret
    <2>1. session[s] \in SessionState
      BY DEF StorageInv
    <2> QED BY <2>1 DEF SessionState, Pcs, Statements
  <1>2. session' = [session EXCEPT ![s] = m]
    BY DEF Rest
  <1> HIDE DEF m
  <1>3. SessionOK(m)
    BY <1>1 DEF SessionOK
  <1> QED BY <1>1, <1>2, <1>3

\* One that forgets its model, and leaves no delta untold of a row that counts.
LEMMA RestsEmpty ==
    ASSUME StorageInv, NEW s \in Sessions, session' = Rest(s, NoRow), UNCHANGED <<row, delta>>,
           lock' = Released(s), clouded' \in SUBSET Rows, clouded \subseteq clouded',
           \A r \in Rows : PendingOf(session[s], r) => r \in clouded'
    PROVE  StorageInv'
  <1>1. PICK m : /\ SessionOK(m) /\ session' = [session EXCEPT ![s] = m]
                 /\ m.pc = "idle" /\ m.at = NoRow
    BY RestIs
  <1>2. Coherent(m, s, row, lock', clouded')
    BY <1>1, StorageOK DEF Coherent, LockedOK, SecretOK, OfRow, FreshOK, PendingOK, PendingOf
  <1>3. /\ lock' \in [Rows -> Sessions \cup {NoRow}]
        /\ \A r \in Rows : lock'[r] # s
        /\ \A r \in Rows, u \in Sessions : u # s => (lock'[r] = u <=> lock[r] = u)
    BY StorageOK DEF Released, StorageInv
  <1>4. delta' \in [Rows -> Seq(Entry)]
    BY DEF StorageInv
  <1> QED BY <1>1, <1>2, <1>3, <1>4, Moves

-----------------------------------------------------------------------------
\* What encryption and decryption do to what a secret opens to.
LEMMA CipherOpens ==
    ASSUME NEW c \in Ciphers
    PROVE  Opened(c) = c.plain /\ c.plain \in Plain \ Prefixed /\ c # Blank
  <1>1. c \notin {Blank} \cup Plain
    BY NoRowOK
  <1>2. c.plain \in Plain \ Prefixed
    BY DEF Ciphers
  <1> QED BY <1>1, <1>2 DEF Opened

LEMMA DecryptedOpens ==
    ASSUME NEW stored \in AtRest, stored \notin Plain
    PROVE  Decrypted(stored) \in Secrets /\ Opened(Decrypted(stored)) = Opened(stored)
  <1>1. CASE stored = Blank
    BY <1>1 DEF Decrypted, Secrets, AtRest
  <1>2. CASE stored # Blank
    <2>1. stored \in Ciphers
      BY <1>2, StorageOK DEF AtRest
    <2>2. /\ Decrypted(stored) = stored.plain /\ stored.plain \in Plain
          /\ Opened(stored) = stored.plain
      BY <1>2, <2>1, CipherOpens DEF Decrypted
    <2> QED BY <2>2 DEF Opened, Secrets
  <1> QED BY <1>1, <1>2

LEMMA EncryptedOpens ==
    ASSUME NEW s \in Sessions, session[s] \in SessionState
    PROVE  Encrypted(s) \in AtRest /\ Opened(Encrypted(s)) = Opened(session[s].secret)
  <1>1. session[s].secret \in Secrets /\ session[s].saves \in Nat
    BY DEF SessionState
  <1>2. CASE session[s].secret \in Plain \ Prefixed
    <2> DEFINE c == Cipher(session[s].secret, s, session[s].saves)
    <2>1. c \in Ciphers /\ c.plain = session[s].secret /\ Encrypted(s) = c
      BY <1>1, <1>2 DEF Ciphers, Cipher, Encrypted
    <2> HIDE DEF c
    <2> QED BY <1>2, <2>1, CipherOpens DEF Opened, AtRest
  <1>3. CASE session[s].secret \notin Plain \ Prefixed
    BY <1>1, <1>3 DEF Encrypted, Secrets, AtRest
  <1> QED BY <1>2, <1>3

-----------------------------------------------------------------------------
LEMMA RequestKeeps ==
    ASSUME StorageInv, NEW s \in Sessions,
           TenantMiddleware(s) \/ Load(s) \/ Fill(s) \/ Change(s) \/ Where(s)
    PROVE  StorageInv'
  <1>0. /\ SessionOK(session[s]) /\ session[s] \in SessionState /\ session[s].pc = "idle"
        /\ session[s].does = "save" /\ ~session[s].blind /\ session[s].snapshot = NoRow
        /\ SecretOK(session[s], row)
    BY DEF StorageInv, SessionOK, Coherent, TenantMiddleware, Load, Fill, Change, Where
  <1>1. UNCHANGED <<row, lock, delta, clouded>>
    BY DEF TenantMiddleware, Load, Fill, Change, Where
  <1>2. CASE TenantMiddleware(s)
    <2>1. PICK o \in Orgs : session' = [session EXCEPT ![s].org = o]
      BY <1>2 DEF TenantMiddleware
    <2>2. PICK m : m = [session[s] EXCEPT !.org = o]
      OBVIOUS
    <2>3. session' = [session EXCEPT ![s] = m]
      BY <2>1, <2>2
    <2>4. /\ m \in SessionState /\ m.pc = "idle" /\ m.at = session[s].at /\ m.does = "save"
          /\ ~m.blind /\ m.snapshot = NoRow /\ m.secret = session[s].secret
          /\ m.failed = session[s].failed
      BY <1>0, <2>2 DEF SessionState
    <2>5. SessionOK(m) /\ SecretOK(m, row) /\ FreshOK(m, row, clouded)
      BY <1>0, <2>4 DEF SessionOK, SecretOK, OfRow, FreshOK
    <2> QED BY <1>0, <1>1, <2>3, <2>4, <2>5, Prepares
  <1>3. CASE Load(s)
    <2>1. PICK r \in Rows :
             /\ Live(r) /\ row[r].secret \notin Plain
             /\ session' = [session EXCEPT ![s] =
                   [@ EXCEPT !.at = r, !.val = row[r].val, !.secret = Decrypted(row[r].secret)]]
      BY <1>3 DEF Load
    <2>2. PICK secret : secret = Decrypted(row[r].secret)
      OBVIOUS
    <2>3. PICK m : m = [session[s] EXCEPT !.at = r, !.val = row[r].val, !.secret = secret]
      OBVIOUS
    <2>4. session' = [session EXCEPT ![s] = m]
      BY <2>1, <2>2, <2>3
    <2>5. row[r] # NoRow /\ row[r].val \in Shows /\ row[r].secret \in AtRest
      BY <2>1 DEF StorageInv, Live, RowState, Shows
    <2>6. secret \in Secrets /\ Opened(secret) = Opened(row[r].secret)
      BY <2>1, <2>2, <2>5, DecryptedOpens
    <2>7. /\ m \in SessionState /\ m.pc = "idle" /\ m.at = r /\ m.does = "save"
          /\ ~m.blind /\ m.snapshot = NoRow /\ m.secret = secret
      BY <1>0, <2>3, <2>5, <2>6 DEF SessionState
    <2>8. SessionOK(m) /\ SecretOK(m, row) /\ FreshOK(m, row, clouded)
      BY <2>5, <2>6, <2>7 DEF SessionOK, SecretOK, FreshOK
    <2> QED BY <1>0, <1>1, <2>4, <2>7, <2>8, Prepares
  <1>4. CASE Fill(s)
    <2>1. PICK r \in Rows, v \in Values, p \in Plain \cup {Blank}, h \in BOOLEAN :
             /\ InScope(s, r) /\ row[r] = NoRow
             /\ session' = [session EXCEPT ![s] =
                    [@ EXCEPT !.at = r, !.val = v, !.secret = p, !.hash = h,
                              !.does = "create", !.pc = "encrypt",
                              !.saves = session[s].saves + 1]]
      BY <1>4 DEF Fill
    <2>2. PICK n : n = session[s].saves + 1
      OBVIOUS
    <2>3. PICK m : m = [session[s] EXCEPT !.at = r, !.val = v, !.secret = p, !.hash = h,
                                          !.does = "create", !.pc = "encrypt", !.saves = n]
      OBVIOUS
    <2>4. session' = [session EXCEPT ![s] = m]
      BY <2>1, <2>2, <2>3
    <2>5. p \in Secrets /\ v \in Shows /\ n \in Nat
      BY <1>0, <2>2 DEF Secrets, AtRest, Shows, SessionState
    <2>6. /\ m \in SessionState /\ m.pc = "encrypt" /\ m.at = r /\ m.does = "create"
          /\ ~m.blind /\ m.snapshot = NoRow
      BY <1>0, <2>3, <2>5 DEF SessionState, Pcs, Statements, Inserts
    <2>7. SessionOK(m) /\ SecretOK(m, row) /\ FreshOK(m, row, clouded)
      BY <2>6 DEF SessionOK, SecretOK, OfRow, FreshOK
    <2> QED BY <1>0, <1>1, <2>4, <2>6, <2>7, Prepares
  <1>5. CASE Change(s)
    <2>0. session[s].at \in Rows /\ session[s].saves + 1 \in Nat
      <3>1. session[s].at \in Rows \cup {NoRow} /\ session[s].saves \in Nat
        BY <1>0 DEF SessionState
      <3>2. session[s].at # NoRow
        BY <1>5, Zenon DEF Change
      <3> QED BY <3>1, <3>2
    <2>1. ASSUME NEW v \in Shows,
                 session' = [session EXCEPT ![s] =
                     [@ EXCEPT !.val = v, !.does = "save", !.pc = "encrypt",
                               !.saves = session[s].saves + 1]]
          PROVE  StorageInv'
      <3>1. PICK n : n = session[s].saves + 1
        OBVIOUS
      <3>2. PICK m : m = [session[s] EXCEPT !.val = v, !.does = "save", !.pc = "encrypt",
                                            !.saves = n]
        OBVIOUS
      <3>3. session' = [session EXCEPT ![s] = m]
        BY <2>1, <3>1, <3>2
      <3>4. /\ m \in SessionState /\ m.pc = "encrypt" /\ m.at = session[s].at /\ m.does = "save"
            /\ ~m.blind /\ m.snapshot = NoRow /\ m.secret = session[s].secret
        BY <1>0, <2>0, <3>1, <3>2 DEF SessionState, Pcs, Statements, Inserts
      <3>5. SessionOK(m) /\ SecretOK(m, row) /\ FreshOK(m, row, clouded)
        BY <1>0, <2>0, <3>4 DEF SessionOK, SecretOK, OfRow, FreshOK
      <3> QED BY <1>0, <1>1, <3>3, <3>4, <3>5, Prepares
    <2>2. ASSUME session' = [session EXCEPT ![s] =
                     [@ EXCEPT !.does = "delete", !.pc = "snapshot",
                               !.saves = session[s].saves + 1]]
          PROVE  StorageInv'
      <3>1. PICK n : n = session[s].saves + 1
        OBVIOUS
      <3>2. PICK m : m = [session[s] EXCEPT !.does = "delete", !.pc = "snapshot", !.saves = n]
        OBVIOUS
      <3>3. session' = [session EXCEPT ![s] = m]
        BY <2>2, <3>1, <3>2
      <3>4. /\ m \in SessionState /\ m.pc = "snapshot" /\ m.at = session[s].at
            /\ m.does = "delete" /\ ~m.blind /\ m.snapshot = NoRow
            /\ m.secret = session[s].secret
        BY <1>0, <2>0, <3>1, <3>2 DEF SessionState, Pcs, Statements
      <3>5. SessionOK(m) /\ SecretOK(m, row) /\ FreshOK(m, row, clouded)
        BY <1>0, <2>0, <3>4 DEF SessionOK, SecretOK, OfRow, FreshOK
      <3> QED BY <1>0, <1>1, <3>3, <3>4, <3>5, Prepares
    <2> QED BY <1>5, <2>1, <2>2 DEF Change, Shows
  <1>6. CASE Where(s)
    <2>1. PICK r \in Rows, v \in Values, does \in {"save", "delete"} :
             session' = [session EXCEPT ![s] =
                    [@ EXCEPT !.at = r, !.val = v, !.does = does, !.blind = TRUE,
                              !.pc = "write", !.saves = session[s].saves + 1]]
      BY <1>6 DEF Where
    <2>2. PICK n : n = session[s].saves + 1
      OBVIOUS
    <2>3. PICK m : m = [session[s] EXCEPT !.at = r, !.val = v, !.does = does, !.blind = TRUE,
                                          !.pc = "write", !.saves = n]
      OBVIOUS
    <2>4. session' = [session EXCEPT ![s] = m]
      BY <2>1, <2>2, <2>3
    <2>5. v \in Shows /\ n \in Nat
      BY <1>0, <2>2 DEF Shows, SessionState
    <2>6. /\ m \in SessionState /\ m.pc = "write" /\ m.at = r /\ m.does = does
          /\ m.blind /\ m.snapshot = NoRow
      BY <1>0, <2>3, <2>5 DEF SessionState, Pcs, Statements
    <2>7. SessionOK(m) /\ SecretOK(m, row) /\ FreshOK(m, row, clouded)
      BY <2>6 DEF SessionOK, SecretOK, OfRow, FreshOK
    <2> QED BY <1>0, <1>1, <2>4, <2>6, <2>7, Prepares
  <1> QED BY <1>2, <1>3, <1>4, <1>5, <1>6

\* The session's own view of recordDelta.
LEMMA TellsIs ==
    ASSUME NEW s \in Sessions
    PROVE  /\ Old(s) = ValueBefore(session[s]) /\ New(s) = ValueAfter(session[s])
           /\ \A r \in Rows : Pending(s, r) <=> PendingOf(session[s], r)
           /\ Tells(s) <=> ValueBefore(session[s]) # ValueAfter(session[s]) /\ ~session[s].blind
  BY DEF Old, New, Tells, Pending, PendingOf, ValueBefore, ValueAfter

\* A failed statement: if it has a delta to tell, its row does not count.
LEMMA FailsKeeps ==
    ASSUME StorageInv, NEW s \in Sessions, Fails(s),
           session[s].pc \in {"encrypt", "guard", "snapshot", "write", "commit"}
    PROVE  StorageInv'
  <1>0. /\ SessionOK(session[s]) /\ session[s] \in SessionState /\ session[s].at \in Rows
        /\ SecretOK(session[s], row) /\ UNCHANGED <<row, delta>> /\ clouded \in SUBSET Rows
        /\ delta \in [Rows -> Seq(Entry)]
    BY DEF StorageInv, SessionOK, Coherent, Fails
  <1>1. \A r \in Rows : ~PendingOf(session[s], r)
    BY DEF PendingOf
  <1>2. CASE session' = Rest(s, NoRow) /\ UNCHANGED clouded
    BY <1>0, <1>1, <1>2, RestsEmpty DEF Fails
  <1>3. CASE /\ session' = [session EXCEPT ![s] = [@ EXCEPT !.pc = "diff", !.failed = TRUE]]
             /\ clouded' = IF Tells(s) THEN clouded \cup {session[s].at} ELSE clouded
             /\ ~(session[s].does = "save" /\ session[s].pc # "commit")
    <2>1. PICK m : m = [session[s] EXCEPT !.pc = "diff", !.failed = TRUE]
      OBVIOUS
    <2>2. session' = [session EXCEPT ![s] = m]
      BY <1>3, <2>1
    <2>3. /\ m \in SessionState /\ m.pc = "diff" /\ m.failed /\ m.at = session[s].at
          /\ m.does = session[s].does /\ m.blind = session[s].blind /\ m.val = session[s].val
          /\ m.snapshot = session[s].snapshot /\ m.secret = session[s].secret
      BY <1>0, <2>1 DEF SessionState, Pcs
    <2>4. SessionOK(m) /\ SecretOK(m, row)
      BY <1>0, <2>3 DEF SessionOK, SecretOK, OfRow
    <2>5. /\ lock' \in [Rows -> Sessions \cup {NoRow}]
          /\ \A r \in Rows : lock'[r] # s
          /\ \A r \in Rows, u \in Sessions : u # s => (lock'[r] = u <=> lock[r] = u)
      BY StorageOK DEF Fails, Released, StorageInv
    <2>6. PendingOK(m, row, clouded')
      <3>1. ASSUME NEW r \in Rows, PendingOf(m, r) PROVE r \in clouded'
        <4>1. Tells(s) /\ r = session[s].at
          BY <2>3, <3>1, TellsIs DEF PendingOf, ValueBefore, ValueAfter
        <4> QED BY <1>3, <4>1
      <3> QED BY <3>1 DEF PendingOK
    <2>7. Coherent(m, s, row, lock', clouded')
      BY <2>3, <2>4, <2>6 DEF Coherent, LockedOK, FreshOK
    <2>8. clouded' \in SUBSET Rows /\ clouded \subseteq clouded'
      BY <1>0, <1>3
    <2> QED BY <1>0, <1>1, <2>2, <2>4, <2>5, <2>7, <2>8, Moves
  <1> QED BY <1>2, <1>3 DEF Fails

LEMMA CallbacksKeep ==
    ASSUME StorageInv, NEW s \in Sessions, Encrypt(s) \/ Guard(s) \/ Snapshot(s)
    PROVE  StorageInv'
  <1>0. /\ SessionOK(session[s]) /\ session[s] \in SessionState /\ SecretOK(session[s], row)
        /\ session[s].pc \in {"encrypt", "guard", "snapshot"} /\ session[s].at \in Rows
        /\ session[s].snapshot = NoRow /\ ~session[s].blind
    BY DEF StorageInv, SessionOK, Coherent, Encrypt, Guard, Snapshot
  <1>1. CASE Encrypt(s)
    <2>1. PICK secret : secret = Encrypted(s)
      OBVIOUS
    <2>2. PICK pc : pc = IF session[s].does \in Inserts THEN "guard" ELSE "snapshot"
      OBVIOUS
    <2>3. PICK m : m = [session[s] EXCEPT !.secret = secret, !.pc = pc]
      OBVIOUS
    <2>4. session' = [session EXCEPT ![s] = m] /\ UNCHANGED <<row, lock, delta, clouded>>
      BY <1>1, <2>1, <2>2, <2>3 DEF Encrypt
    <2>5. secret \in AtRest /\ Opened(secret) = Opened(session[s].secret)
      BY <1>0, <2>1, EncryptedOpens
    <2>6. pc \in {"guard", "snapshot"} /\ session[s].does # "delete"
      BY <1>0, <1>1, <2>2 DEF Encrypt, SessionOK
    <2>7. /\ m \in SessionState /\ m.pc = pc /\ m.at = session[s].at /\ m.secret = secret
          /\ m.does = session[s].does /\ ~m.blind /\ m.snapshot = NoRow
      BY <1>0, <2>3, <2>5, <2>6 DEF SessionState, Pcs, Secrets
    <2>8. SessionOK(m)
      BY <1>0, <2>2, <2>5, <2>6, <2>7 DEF SessionOK, SessionState, Statements, Inserts
    <2>9. SecretOK(m, row) /\ FreshOK(m, row, clouded)
      BY <1>0, <1>1, <2>5, <2>6, <2>7 DEF SecretOK, OfRow, FreshOK
    <2> QED BY <1>0, <2>4, <2>6, <2>7, <2>8, <2>9, Prepares
  <1>2. CASE Guard(s)
    <2>1. CASE Fails(s)
      BY <1>0, <2>1, FailsKeeps
    <2>2. CASE /\ session' = [session EXCEPT ![s].pc = "write"]
               /\ UNCHANGED <<row, lock, delta, clouded>>
      <3>1. PICK m : m = [session[s] EXCEPT !.pc = "write"]
        OBVIOUS
      <3>2. session' = [session EXCEPT ![s] = m]
        BY <2>2, <3>1
      <3>3. /\ m \in SessionState /\ m.pc = "write" /\ m.at = session[s].at
            /\ m.secret = session[s].secret /\ m.does = session[s].does /\ ~m.blind
            /\ m.snapshot = NoRow
        BY <1>0, <3>1 DEF SessionState, Pcs
      <3>4. SessionOK(m) /\ SecretOK(m, row) /\ FreshOK(m, row, clouded)
        BY <1>0, <1>2, <3>3 DEF Guard, SessionOK, SecretOK, OfRow, FreshOK
      <3> QED BY <1>0, <2>2, <3>2, <3>3, <3>4, Prepares
    <2> QED BY <1>2, <2>1, <2>2 DEF Guard
  <1>3. CASE Snapshot(s)
    <2>1. PICK old : old = IF Matches(session[s].at, session[s])
                           THEN row[session[s].at].val ELSE NoRow
      OBVIOUS
    <2>2. PICK m : m = [session[s] EXCEPT !.pc = "write", !.snapshot = old]
      OBVIOUS
    <2>3. session' = [session EXCEPT ![s] = m] /\ UNCHANGED <<row, lock, delta, clouded>>
      BY <1>3, <2>1, <2>2 DEF Snapshot
    <2>4. /\ old \in Shows \cup {NoRow}
          /\ old # NoRow => old = ShownIn(row, session[s].at)
      BY <1>0, <2>1 DEF StorageInv, Matches, Live, RowState, Shows, ShownIn
    <2>5. /\ m \in SessionState /\ m.pc = "write" /\ m.at = session[s].at
          /\ m.secret = session[s].secret /\ m.does = session[s].does /\ ~m.blind
          /\ m.snapshot = old
      BY <1>0, <2>2, <2>4 DEF SessionState, Pcs
    <2>6. SessionOK(m) /\ SecretOK(m, row) /\ FreshOK(m, row, clouded)
      BY <1>0, <1>3, <2>4, <2>5 DEF Snapshot, SessionOK, SecretOK, OfRow, FreshOK
    <2> QED BY <1>0, <2>3, <2>5, <2>6, Prepares
  <1> QED BY <1>1, <1>2, <1>3

LEMMA WriteKeeps ==
    ASSUME StorageInv, NEW s \in Sessions, Write(s)
    PROVE  StorageInv'
  <1>0. /\ SessionOK(session[s]) /\ session[s] \in SessionState /\ session[s].pc = "write"
        /\ SecretOK(session[s], row) /\ FreshOK(session[s], row, clouded)
        /\ session[s].at \in Rows /\ lock[session[s].at] = NoRow
        /\ delta \in [Rows -> Seq(Entry)] /\ clouded \in SUBSET Rows
        /\ lock \in [Rows -> Sessions \cup {NoRow}]
    BY DEF StorageInv, SessionOK, Coherent, Write
  <1>1. s # NoRow /\ \A r \in Rows : lock[r] # s /\ ~PendingOf(session[s], r)
    BY <1>0, NothingHeld, StorageOK DEF PendingOf
  <1>2. CASE /\ Finds(s)
             /\ lock' = [lock EXCEPT ![session[s].at] = s]
             /\ session' = [session EXCEPT ![s].pc = "commit"]
             /\ UNCHANGED <<row, delta, clouded>>
    <2>1. PICK m : m = [session[s] EXCEPT !.pc = "commit"]
      OBVIOUS
    <2>2. session' = [session EXCEPT ![s] = m]
      BY <1>2, <2>1
    <2>3. /\ m \in SessionState /\ m.pc = "commit" /\ m.at = session[s].at
          /\ m.secret = session[s].secret /\ m.does = session[s].does
          /\ m.blind = session[s].blind /\ m.snapshot = session[s].snapshot
      BY <1>0, <2>1 DEF SessionState, Pcs
    <2>4. SessionOK(m) /\ SecretOK(m, row) /\ FreshOK(m, row, clouded)
      BY <1>0, <2>3 DEF SessionOK, SecretOK, OfRow, FreshOK
    <2>5. LockedOK(m, s, row, lock')
      BY <1>0, <1>2, <2>3 DEF LockedOK, Finds, Live
    <2>6. Coherent(m, s, row, lock', clouded')
      BY <1>2, <2>3, <2>4, <2>5 DEF Coherent, PendingOK, PendingOf
    <2>7. /\ lock' \in [Rows -> Sessions \cup {NoRow}]
          /\ \A r \in Rows : lock'[r] = s => m.at = r
          /\ \A r \in Rows, u \in Sessions : u # s => (lock'[r] = u <=> lock[r] = u)
      BY <1>0, <1>1, <1>2, <2>3, StorageOK
    <2> QED BY <1>0, <1>1, <1>2, <2>2, <2>3, <2>4, <2>6, <2>7, Moves
  <1>3. CASE Fails(s)
    BY <1>0, <1>3, FailsKeeps
  <1>4. CASE /\ ~Finds(s) /\ session[s].does = "delete"
             /\ session' = [session EXCEPT ![s].pc = "diff"]
             /\ UNCHANGED <<row, lock, delta, clouded>>
    <2>1. PICK m : m = [session[s] EXCEPT !.pc = "diff"]
      OBVIOUS
    <2>2. session' = [session EXCEPT ![s] = m]
      BY <1>4, <2>1
    <2>3. /\ m \in SessionState /\ m.pc = "diff" /\ m.at = session[s].at
          /\ m.secret = session[s].secret /\ m.does = "delete"
          /\ m.blind = session[s].blind /\ m.snapshot = session[s].snapshot
      BY <1>0, <1>4, <2>1 DEF SessionState, Pcs
    <2>4. SessionOK(m) /\ SecretOK(m, row)
      BY <1>0, <1>4, <2>3 DEF SessionOK, SecretOK, OfRow
    <2>5. ShownIn(row, m.at) = NoRow
      BY <1>4, <2>3 DEF Finds, Live, ShownIn
    <2>6. Coherent(m, s, row, lock', clouded')
      BY <2>3, <2>4, <2>5 DEF Coherent, LockedOK, FreshOK, PendingOK, PendingOf, ValueAfter
    <2> QED BY <1>0, <1>1, <1>4, <2>2, <2>4, <2>6, Moves
  <1>5. CASE session' = Rest(s, NoRow) /\ UNCHANGED <<row, lock, delta, clouded>>
    <2>1. lock' = Released(s)
      BY <1>0, <1>1, <1>5 DEF Released
    <2> QED BY <1>0, <1>1, <1>5, <2>1, RestsEmpty
  <1>6. CASE /\ ~Finds(s) /\ session[s].does \notin {"create", "delete"} /\ ~session[s].blind
             /\ session' = [session EXCEPT ![s] =
                    [@ EXCEPT !.does = "upsert", !.snapshot = NoRow, !.pc = "encrypt"]]
             /\ UNCHANGED <<row, lock, delta, clouded>>
    <2>1. PICK m : m = [session[s] EXCEPT !.does = "upsert", !.snapshot = NoRow, !.pc = "encrypt"]
      OBVIOUS
    <2>2. session' = [session EXCEPT ![s] = m]
      BY <1>6, <2>1
    <2>3. /\ m \in SessionState /\ m.pc = "encrypt" /\ m.at = session[s].at
          /\ m.secret = session[s].secret /\ m.does = "upsert" /\ ~m.blind
          /\ m.snapshot = NoRow
      BY <1>0, <1>6, <2>1 DEF SessionState, Pcs, Statements, Inserts
    <2>4. SessionOK(m) /\ SecretOK(m, row) /\ FreshOK(m, row, clouded)
      BY <1>0, <1>6, <2>3 DEF SessionOK, SecretOK, OfRow, FreshOK
    <2> QED BY <1>0, <1>6, <2>2, <2>3, <2>4, Prepares
  <1> QED BY <1>2, <1>3, <1>4, <1>5, <1>6 DEF Write

\* What a commit makes of the row.
LEMMA StoredIs ==
    ASSUME StorageInv, NEW s \in Sessions, session[s].pc = "commit", NEW r \in Rows,
           r = session[s].at
    PROVE  /\ Stored(s) \in RowState /\ Stored(s) # NoRow
           /\ row[r] # NoRow => Opened(Stored(s).secret) = Opened(row[r].secret)
           /\ session[s].does # "delete" /\ ~session[s].blind
                 => Stored(s).secret = session[s].secret
           /\ Stored(s).deleted <=> session[s].does = "delete"
           /\ session[s].does # "delete" => Stored(s).val = session[s].val
  <1>1. /\ SessionOK(session[s]) /\ session[s] \in SessionState
        /\ LockedOK(session[s], s, row, lock) /\ SecretOK(session[s], row)
    BY DEF StorageInv, Coherent, SessionOK
  <1>2. session[s].does \in {"save", "delete"} => row[r] \in RowState /\ ~row[r].deleted
    BY <1>1 DEF StorageInv, LockedOK
  <1>3. session[s].does = "create" => row[r] = NoRow
    BY <1>1 DEF LockedOK
  <1>4. session[s].val \in Values \cup {Blank}
    BY <1>1 DEF SessionState, Shows
  <1>5. CASE session[s].does = "delete" \/ session[s].blind
    <2>1. session[s].does \in {"save", "delete"}
      BY <1>1, <1>5 DEF SessionOK
    <2>2. row[r] \in RowState /\ ~row[r].deleted
      BY <1>2, <2>1
    <2>3. CASE session[s].does = "delete"
      <3>1. Stored(s) = [row[r] EXCEPT !.deleted = TRUE]
        BY <2>3 DEF Stored
      <3>2. Stored(s) \in RowState /\ Stored(s).deleted /\ Stored(s).secret = row[r].secret
        BY <2>2, <3>1 DEF RowState
      <3> QED BY <2>3, <3>2, NoRowOK
    <2>4. CASE session[s].does # "delete"
      <3>1. Stored(s) = [row[r] EXCEPT !.val = session[s].val]
        BY <1>5, <2>4 DEF Stored
      <3>2. /\ Stored(s) \in RowState /\ ~Stored(s).deleted /\ Stored(s).secret = row[r].secret
            /\ Stored(s).val = session[s].val
        BY <1>4, <2>2, <3>1 DEF RowState
      <3> QED BY <1>5, <2>4, <3>2, NoRowOK
    <2> QED BY <2>3, <2>4
  <1>6. CASE session[s].does # "delete" /\ ~session[s].blind
    <2>1. Stored(s) = [val |-> session[s].val, secret |-> session[s].secret, deleted |-> FALSE]
      BY <1>6 DEF Stored
    <2>2. session[s].secret \in AtRest
      BY <1>1, <1>6 DEF SessionOK
    <2>3. Stored(s) \in RowState /\ Stored(s).secret = session[s].secret /\ ~Stored(s).deleted
          /\ Stored(s).val = session[s].val
      BY <1>4, <2>1, <2>2 DEF RowState
    <2>4. row[r] # NoRow => Opened(session[s].secret) = Opened(row[r].secret)
      BY <1>1, <1>3, <1>6 DEF SecretOK, OfRow
    <2> QED BY <1>6, <2>3, <2>4, NoRowOK
  <1> QED BY <1>5, <1>6

LEMMA CommitKeeps ==
    ASSUME StorageInv, NEW s \in Sessions, Commit(s)
    PROVE  StorageInv'
  <1>1. PICK r : r = session[s].at
    OBVIOUS
  <1>2. PICK old : old = session[s]
    OBVIOUS
  <1>3. PICK m : m = [old EXCEPT !.pc = "diff"]
    OBVIOUS
  <1>4. /\ SessionOK(old) /\ Coherent(old, s, row, lock, clouded) /\ old \in SessionState
        /\ old.pc = "commit" /\ r \in Rows /\ lock[r] = s /\ s # NoRow /\ old.at = r
    BY <1>1, <1>2, StorageOK DEF StorageInv, SessionOK, Coherent, LockedOK, Commit
  <1>5. /\ m \in SessionState /\ m.pc = "diff" /\ m.at = r /\ m.secret = old.secret
        /\ m.does = old.does /\ m.blind = old.blind /\ m.snapshot = old.snapshot /\ m.val = old.val
    BY <1>3, <1>4 DEF SessionState, Pcs
  <1>6. PICK new : new = Stored(s)
    OBVIOUS
  <1>7. /\ new \in RowState /\ new # NoRow
        /\ row[r] # NoRow => Opened(new.secret) = Opened(row[r].secret)
        /\ old.does # "delete" /\ ~old.blind => new.secret = old.secret
        /\ new.deleted <=> old.does = "delete"
        /\ old.does # "delete" => new.val = old.val
    BY <1>1, <1>2, <1>4, <1>6, StoredIs
  <1>8. /\ row' = [row EXCEPT ![r] = new] /\ lock' = Released(s) /\ delta' = delta
        /\ session' = [session EXCEPT ![s] = m]
    BY <1>1, <1>2, <1>3, <1>6 DEF Commit
  <1>9. /\ clouded \subseteq clouded' /\ clouded' \in SUBSET Rows
        /\ \A q \in Rows : q # r => (q \in clouded' <=> q \in clouded)
        /\ old.blind \/ Overtakes(s, r) \/ (old.does = "delete" /\ old.snapshot = NoRow)
               => r \in clouded'
    BY <1>1, <1>2, <1>4 DEF Commit, StorageInv
  <1>10. /\ row' \in [Rows -> RowState \cup {NoRow}] /\ row'[r] = new
         /\ \A q \in Rows : q # r => row'[q] = row[q]
    BY <1>4, <1>7, <1>8 DEF StorageInv
  <1>11. /\ lock' \in [Rows -> Sessions \cup {NoRow}]
         /\ \A q \in Rows : lock'[q] # s
         /\ \A q \in Rows, u \in Sessions : u # s => (lock'[q] = u <=> lock[q] = u)
    BY <1>8, StorageOK DEF Released, StorageInv
  <1>12. /\ session' \in [Sessions -> SessionState] /\ session'[s] = m
         /\ \A u \in Sessions : u # s => session'[u] = session[u]
    BY <1>5, <1>8 DEF StorageInv
  <1>13. /\ ShownIn(row', r) = ValueAfter(old)
         /\ \A q \in Rows : q # r => ShownIn(row', q) = ShownIn(row, q)
    BY <1>7, <1>10 DEF ShownIn, ValueAfter
  <1>14. ASSUME NEW u \in Sessions, u # s, r \notin clouded'
         PROVE  /\ ~PendingOf(session[u], r)
                /\ session[u].pc = "write" /\ session[u].at = r => session[u].snapshot = NoRow
    <2>1. ~Overtakes(s, r)
      BY <1>9, <1>14
    <2> QED BY <1>4, <1>14, <2>1, TellsIs DEF Overtakes
  <1>15. ASSUME NEW u \in Sessions, u # s
         PROVE  SessionOK(session[u]) /\ Coherent(session[u], u, row', lock', clouded')
    <2>1. SessionOK(session[u]) /\ Coherent(session[u], u, row, lock, clouded)
      BY DEF StorageInv
    <2>2. session[u].pc = "commit" => session[u].at \in Rows /\ session[u].at # r
      BY <1>4, <1>15, <2>1 DEF SessionOK, Coherent, LockedOK
    <2>3. LockedOK(session[u], u, row', lock')
      BY <1>10, <1>11, <1>15, <2>1, <2>2 DEF Coherent, LockedOK
    <2>4. SecretOK(session[u], row')
      BY <1>7, <1>10, <2>1 DEF Coherent, SecretOK, OfRow
    <2>5. FreshOK(session[u], row', clouded')
      <3>1. SUFFICES ASSUME session[u].pc \in {"write", "commit"}, session[u].snapshot # NoRow,
                            session[u].at \notin clouded'
                     PROVE  session[u].snapshot = ShownIn(row', session[u].at)
        BY DEF FreshOK
      <3>2. session[u].at \in Rows /\ session[u].at # r
        BY <1>14, <1>15, <2>1, <2>2, <3>1 DEF SessionOK
      <3> QED BY <1>9, <1>13, <2>1, <3>1, <3>2 DEF Coherent, FreshOK
    <2>6. PendingOK(session[u], row', clouded')
      BY <1>9, <1>13, <1>14, <1>15, <2>1 DEF Coherent, PendingOK
    <2> QED BY <2>1, <2>3, <2>4, <2>5, <2>6 DEF Coherent
  <1>16. SessionOK(m) /\ Coherent(m, s, row', lock', clouded')
    <2>1. SessionOK(m)
      BY <1>4, <1>5 DEF SessionOK
    <2>2. SecretOK(m, row')
      <3>1. old.does = "delete" /\ ~old.blind
                => row[r] # NoRow /\ Opened(old.secret) = Opened(row[r].secret)
        BY <1>4 DEF Coherent, SecretOK, OfRow
      <3> QED BY <1>5, <1>7, <1>10, <3>1 DEF SecretOK, OfRow
    <2>3. PendingOK(m, row', clouded')
      BY <1>5, <1>13 DEF PendingOK, PendingOf, ValueAfter
    <2> QED BY <1>5, <2>1, <2>2, <2>3 DEF Coherent, LockedOK, FreshOK
  <1>17. ASSUME NEW u \in Sessions
         PROVE  SessionOK(session'[u]) /\ Coherent(session'[u], u, row', lock', clouded')
    BY <1>12, <1>15, <1>16
  <1>18. ASSUME NEW q \in Rows PROVE LockOK(q)'
    BY <1>11, <1>12 DEF StorageInv, LockOK
  <1>19. ASSUME NEW q \in Rows PROVE TrailOK(q)'
    <2> SUFFICES ASSUME q \notin clouded', \A u \in Sessions : ~PendingOf(session'[u], q)
                 PROVE  Trail(q)' = ShownIn(row', q)
      BY DEF TrailOK
    <2>1. \A u \in Sessions : ~PendingOf(session[u], q)
      BY <1>2, <1>4, <1>12 DEF PendingOf
    <2>2. Trail(q)' = ShownIn(row, q)
      BY <1>8, <1>9, <2>1 DEF StorageInv, TrailOK, Trail
    <2>3. CASE q = r
      <3>1. ~old.blind /\ ValueBefore(old) = ValueAfter(old)
        BY <1>5, <1>9, <1>12, <2>3 DEF PendingOf, ValueBefore, ValueAfter
      <3>2. old.does \notin Inserts /\ old.snapshot # NoRow
        BY <1>4, <1>9, <2>3, <3>1, StorageOK
           DEF ValueBefore, ValueAfter, SessionState, Shows, Inserts
      <3>3. old.snapshot = ShownIn(row, r)
        BY <1>4, <1>9, <2>3, <3>2 DEF Coherent, FreshOK
      <3> QED BY <1>13, <2>2, <2>3, <3>1, <3>2, <3>3 DEF ValueBefore
    <2>4. CASE q # r
      BY <1>13, <2>2, <2>4
    <2> QED BY <2>3, <2>4
  <1> QED BY <1>8, <1>9, <1>10, <1>11, <1>12, <1>17, <1>18, <1>19 DEF StorageInv

LEMMA AppendedLast ==
    ASSUME NEW d \in Seq(Entry), NEW e \in Entry
    PROVE  Append(d, e) \in Seq(Entry) /\ Append(d, e) # <<>> /\ Last(Append(d, e)) = e
  <1>1. Len(Append(d, e)) = Len(d) + 1 /\ Append(d, e)[Len(d) + 1] = e /\ Len(d) \in Nat
    OBVIOUS
  <1> QED BY <1>1 DEF Last

LEMMA RecordDeltaKeeps ==
    ASSUME StorageInv, NEW s \in Sessions, RecordDelta(s)
    PROVE  StorageInv'
  <1>1. PICK r : r = session[s].at
    OBVIOUS
  <1>2. /\ SessionOK(session[s]) /\ session[s] \in SessionState /\ session[s].pc = "diff"
        /\ SecretOK(session[s], row) /\ PendingOK(session[s], row, clouded)
        /\ r \in Rows /\ clouded \in SUBSET Rows /\ delta \in [Rows -> Seq(Entry)]
        /\ lock \in [Rows -> Sessions \cup {NoRow}]
    BY <1>1 DEF StorageInv, SessionOK, Coherent, RecordDelta
  <1>3. UNCHANGED <<row, lock>> /\ \A q \in Rows : lock[q] # s
    BY <1>2, NothingHeld DEF RecordDelta
  <1>4. CASE session' = Rest(s, NoRow) /\ clouded' = clouded \cup {r} /\ UNCHANGED delta
    <2>1. lock' = Released(s)
      BY <1>2, <1>3 DEF Released
    <2>2. \A q \in Rows : PendingOf(session[s], q) => q \in clouded'
      BY <1>1, <1>4 DEF PendingOf
    <2> QED BY <1>2, <1>3, <1>4, <2>1, <2>2, RestsEmpty
  <1>5. ASSUME NEW at \in Rows \cup {NoRow},
               at # NoRow => at = r /\ ~session[s].failed /\ ~session[s].blind,
               session' = Rest(s, at), UNCHANGED clouded,
               delta' = IF Tells(s)
                        THEN [delta EXCEPT ![r] = Append(@, [old |-> Old(s), new |-> New(s)])]
                        ELSE delta
        PROVE  StorageInv'
    <2>1. PICK m : /\ SessionOK(m) /\ session' = [session EXCEPT ![s] = m]
                   /\ m.pc = "idle" /\ m.at = at /\ m.does = "save" /\ m.snapshot = NoRow
                   /\ ~m.blind /\ m.secret = session[s].secret
      BY <1>5, RestIs
    <2>2. SecretOK(m, row)
      <3>1. CASE at = NoRow
        BY <2>1, <3>1, StorageOK DEF SecretOK, OfRow
      <3>2. CASE at # NoRow
        <4>1. OfRow(session[s]) /\ m.at = session[s].at
          BY <1>1, <1>2, <1>5, <2>1, <3>2 DEF OfRow
        <4> QED BY <1>2, <2>1, <4>1 DEF SecretOK
      <3> QED BY <3>1, <3>2
    <2>3. Coherent(m, s, row, lock', clouded')
      BY <2>1, <2>2 DEF Coherent, LockedOK, FreshOK, PendingOK, PendingOf
    <2>4. PICK e : e = [old |-> Old(s), new |-> New(s)]
      OBVIOUS
    <2>5. e \in Entry /\ e.new = ValueAfter(session[s])
      BY <1>2, <2>4, TellsIs DEF Entry, ValueBefore, ValueAfter, SessionState, Shows
    <2>6. Coherent(m, s, row, lock', clouded')
      BY <1>5, <2>3
    <2>7. CASE Tells(s)
      <3>1. delta' = [delta EXCEPT ![r] = Append(delta[r], e)]
        BY <1>5, <2>4, <2>7
      <3>2. /\ delta' \in [Rows -> Seq(Entry)] /\ TrailIn(delta', r) = e.new
            /\ \A q \in Rows : q # r => delta'[q] = delta[q]
        <4>1. /\ Append(delta[r], e) \in Seq(Entry) /\ Append(delta[r], e) # <<>>
              /\ Last(Append(delta[r], e)) = e
          BY <1>2, <2>5, AppendedLast
        <4> QED BY <1>2, <3>1, <4>1 DEF TrailIn
      <3>3. PendingOf(session[s], r)
        BY <1>1, <1>2, <2>7, TellsIs DEF PendingOf
      <3>4. r \notin clouded => e.new = ShownIn(row, r)
        BY <1>2, <2>5, <3>3 DEF PendingOK
      <3>5. \A q \in Rows : q # r => ~PendingOf(session[s], q)
        BY <1>1 DEF PendingOf
      <3>6. ASSUME NEW q \in Rows
            PROVE  \/ q \in clouded' \/ TrailIn(delta', q) = ShownIn(row, q)
                   \/ delta'[q] = delta[q] /\ (PendingOf(session[s], q) => PendingOf(m, q))
        <4>1. CASE q = r
          BY <1>5, <3>2, <3>4, <4>1
        <4>2. CASE q # r
          BY <3>2, <3>5, <4>2
        <4> QED BY <4>1, <4>2
      <3>7. delta' \in [Rows -> Seq(Entry)]
        BY <3>2
      <3> QED BY <1>2, <1>3, <1>5, <2>1, <2>6, <3>6, <3>7, Moves
    <2>8. CASE ~Tells(s)
      <3>1. \A q \in Rows : ~PendingOf(session[s], q)
        BY <2>8, TellsIs DEF PendingOf
      <3> QED BY <1>2, <1>3, <1>5, <2>1, <2>3, <2>8, <3>1, Moves
    <2> QED BY <2>7, <2>8
  <1>6. PICK at : at = IF session[s].failed \/ session[s].blind \/ session[s].does = "delete"
                       THEN NoRow ELSE r
    OBVIOUS
  <1>7. /\ at \in Rows \cup {NoRow}
        /\ at # NoRow => at = r /\ ~session[s].failed /\ ~session[s].blind
    BY <1>2, <1>6
  <1>8. CASE /\ session' = Rest(s, at)
             /\ UNCHANGED clouded
             /\ delta' = IF Tells(s)
                         THEN [delta EXCEPT ![r] = Append(@, [old |-> Old(s), new |-> New(s)])]
                         ELSE delta
    BY <1>5, <1>7, <1>8
  <1>9. \/ /\ session' = Rest(s, at)
           /\ UNCHANGED clouded
           /\ delta' = IF Tells(s)
                       THEN [delta EXCEPT ![r] = Append(@, [old |-> Old(s), new |-> New(s)])]
                       ELSE delta
        \/ session' = Rest(s, NoRow) /\ clouded' = clouded \cup {r} /\ UNCHANGED delta
    BY <1>1, <1>6 DEF RecordDelta
  <1> QED BY <1>4, <1>8, <1>9

LEMMA StopKeeps ==
    ASSUME StorageInv, NEW s \in Sessions, Stop(s)
    PROVE  StorageInv'
  <1>1. clouded \in SUBSET Rows /\ session[s].at \in Rows
    BY DEF StorageInv, SessionOK, Stop
  <1>2. \A r \in Rows : PendingOf(session[s], r) => r \in clouded'
    <2>1. \A r \in Rows : PendingOf(session[s], r) => Pending(s, r) /\ r = session[s].at
      BY TellsIs DEF PendingOf
    <2> QED BY <2>1 DEF Stop
  <1>3. clouded \subseteq clouded' /\ clouded' \in SUBSET Rows
    BY <1>1 DEF Stop
  <1> QED BY <1>2, <1>3, RestsEmpty DEF Stop

LEMMA StutterKeeps ==
    ASSUME StorageInv, UNCHANGED storageVars
    PROVE  StorageInv'
  BY DEF StorageInv, storageVars, LockOK, TrailOK, Trail

LEMMA StorageInvNext ==
    ASSUME StorageInv, [StorageNext]_storageVars
    PROVE  StorageInv'
  <1>1. ASSUME NEW s \in Sessions, Fail(s) PROVE StorageInv'
    BY <1>1, FailsKeeps DEF Fail
  <1> QED BY <1>1, RequestKeeps, CallbacksKeep, WriteKeeps, CommitKeeps, RecordDeltaKeeps,
             StopKeeps, StutterKeeps DEF StorageNext

\* Every reachable state of the plugins satisfies the invariant.
THEOREM StorageInvariance == StorageSpec => []StorageInv
  <1>1. (\E active \in SUBSET Sessions : StorageInit(active)) => StorageInv
    BY StorageInvInit
  <1>2. StorageInv /\ [StorageNext]_storageVars => StorageInv'
    BY StorageInvNext
  <1> QED BY <1>1, <1>2, PTL DEF StorageSpec

-----------------------------------------------------------------------------
\* The audit trail, for any number of sessions and statements: the last delta of
\* a row tells what the row shows, but for the rows that the property excepts
\* (recordDelta).
THEOREM TrailCorrect == StorageSpec => []TrailTellsTheRow
  <1>1. StorageInv => TrailTellsTheRow
    <2> SUFFICES ASSUME StorageInv, NEW r \in Rows, r \notin clouded,
                        \A s \in Sessions : ~Pending(s, r)
                 PROVE  Trail(r) = Shown(r)
      BY DEF TrailTellsTheRow
    <2>1. \A s \in Sessions : ~PendingOf(session[s], r)
      BY TellsIs
    <2>2. TrailOK(r)
      BY DEF StorageInv
    <2> QED BY <2>1, <2>2 DEF TrailOK, Shown, ShownIn
  <1> QED BY <1>1, StorageInvariance, PTL

\* Encryption at rest: no statement, however it overlaps with others, changes
\* what a stored secret opens to (encrypt, decrypt and isBase64Ciphertext).
THEOREM SecretCorrect == StorageSpec => SecretKept
  <1> DEFINE Kept == \A r \in Rows : row[r] # NoRow =>
                         row'[r] # NoRow /\ Opened(row'[r].secret) = Opened(row[r].secret)
  <1>1. StorageInv /\ [StorageNext]_storageVars => [Kept]_storageVars
    <2> SUFFICES ASSUME StorageInv, StorageNext PROVE Kept
      OBVIOUS
    <2>1. CASE row' = row
      BY <2>1
    <2>2. ASSUME NEW s \in Sessions, Commit(s), NEW r \in Rows, row[r] # NoRow
          PROVE  row'[r] # NoRow /\ Opened(row'[r].secret) = Opened(row[r].secret)
      <3>1. row' = [row EXCEPT ![session[s].at] = Stored(s)] /\ session[s].pc = "commit"
        BY <2>2 DEF Commit
      <3>2. row \in [Rows -> RowState \cup {NoRow}]
        BY DEF StorageInv
      <3>3. CASE r = session[s].at
        <4>1. Stored(s) # NoRow /\ Opened(Stored(s).secret) = Opened(row[r].secret)
          BY <2>2, <3>1, <3>3, StoredIs
        <4> QED BY <3>1, <3>2, <3>3, <4>1
      <3>4. CASE r # session[s].at
        BY <2>2, <3>1, <3>2, <3>4
      <3> QED BY <3>3, <3>4
    <2>3. row' = row \/ \E s \in Sessions : Commit(s)
      BY DEF StorageNext, TenantMiddleware, Load, Fill, Change, Where, Encrypt, Guard, Fails,
             Snapshot, Write, RecordDelta, Fail, Stop
    <2> QED BY <2>1, <2>2, <2>3
  <1> QED BY <1>1, StorageInvariance, PTL DEF StorageSpec, SecretKept
=============================================================================
