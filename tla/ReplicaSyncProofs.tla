--------------------------- MODULE ReplicaSyncProofs ---------------------------
(***************************************************************************)
(* Proofs about ReplicaSync, for every set of Sessions and Projects and    *)
(* every bound: what the renderer selects it holds, a replica that lags    *)
(* behind the commit stream knows it or missed a commit while a bootstrap  *)
(* was in flight, and a cached Session is left behind the cursor, with     *)
(* nothing under way that brings it up to date, in three ways only.        *)
(***************************************************************************)
EXTENDS ReplicaSync, Integers, TLAPS

Records == [rev : Nat, life : {"active", "archived"}]
Dbs == [Sessions -> Records]
Commits == [topic : {"project.changed", "session.changed", "session.removed",
                     "session.usage.changed"},
            subject : Sessions \cup {None}, mode : {"none", "upsert", "invalidate_all"},
            db : Dbs, projects : SUBSET Projects]

\* The sequence numbers a query may have been read at.
Read == (0..Len(log)) \cup {None}

Boots == [ph : {"idle", "asked", "loading"}, at : Read, s : Sessions \cup {None}, prev : BOOLEAN]
Loads == [s : Sessions, at : Read, nav : Nat \cup {None}]
Merges == [p : Projects \cup {None}, nav : Nat, at : Read]

\* What is in the replica.
Replica ==
  /\ cursor \in Read /\ rprojects \subseteq Projects /\ sess \in Dbs
  /\ selProj \in Projects \cup {None} /\ selSess \in Sessions \cup {None} /\ nav \in Nat

\* What it has asked for.
Asked ==
  /\ boot \in Boots /\ (boot.ph = "loading" => boot.s \in Sessions)
  /\ loads \subseteq Loads /\ merges \subseteq Merges

\* The commit stream, and what of it is on its way.
Stream ==
  /\ log \in Seq(Commits) /\ events \in Seq(1..Len(log)) /\ replies \subseteq 1..Len(log)
  /\ faults \in Nat /\ subscribed \in BOOLEAN

\* What commit n leaves of the database before it: all but the Session it is about, which
\* exists after a change; or it removes one Session, or those of Projects.
Follows(n) ==
  /\ log[n].topic = "session.changed" =>
       log[n].subject \in Sessions /\ Exists(log[n].db[log[n].subject])
  /\ log[n].topic = "session.removed" => log[n].subject \in Sessions
  /\ log[n].topic # "project.changed" => log[n].projects = ProjectsAt(n - 1)
  /\ \A s \in Sessions :
       \/ log[n].db[s] = DbAt(n - 1)[s]
       \/ log[n].topic = "session.changed" /\ log[n].subject = s
       \/ log[n].topic = "session.removed" /\ log[n].subject = s /\ ~Exists(log[n].db[s])
       \/ /\ log[n].topic = "project.changed" /\ ~Exists(log[n].db[s])
          /\ ProjectOf[s] \notin log[n].projects

Types == Stream /\ Replica /\ Asked /\ \A n \in 1..Len(log) : Follows(n)

------------------------------------------------------------------------------
(* The database. *)

LEMMA DbTyped ==
  ASSUME log \in Seq(Commits)
  PROVE  /\ \A n \in 0..Len(log) : DbAt(n) \in Dbs /\ ProjectsAt(n) \subseteq Projects
         /\ Len(log) \in Nat
<1>1. InitialDb \in Dbs
  BY DEF InitialDb, Dbs, Records, Absent
<1>2. \A n \in 1..Len(log) : log[n] \in Commits
  OBVIOUS
<1> QED
  BY <1>1, <1>2, SessionsAssumption DEF DbAt, ProjectsAt, Commits

\* The Sessions of the database are in its Projects and known to the log; a Session that exists
\* at two moments exists in between, and only gets newer.
AtHome == \A s \in Sessions, n \in 0..Len(log) :
            Exists(DbAt(n)[s]) => ProjectOf[s] \in ProjectsAt(n) /\ ~Unused(s)
Grows == \A s \in Sessions, m \in 0..Len(log), n \in 0..Len(log) :
           m <= n /\ Exists(DbAt(m)[s]) /\ Exists(DbAt(n)[s]) => DbAt(m)[s].rev <= DbAt(n)[s].rev
StaysGone == \A s \in Sessions, k \in 0..Len(log), m \in 0..Len(log), n \in 0..Len(log) :
               k <= m /\ m <= n /\ Exists(DbAt(k)[s]) /\ Exists(DbAt(n)[s]) => Exists(DbAt(m)[s])
History == AtHome /\ Grows /\ StaysGone

\* What a command makes of the database: it changes one Session that exists or never did, or
\* removes one, or those of a Project.
Sound(c) ==
  /\ c \in Commits
  /\ c.topic = "session.changed" =>
       /\ c.subject \in Sessions /\ Exists(c.db[c.subject])
       /\ c.projects = ProjectsAt(Sequence)
       /\ \/ Exists(Db[c.subject]) /\ Db[c.subject].rev <= c.db[c.subject].rev
          \/ Unused(c.subject) /\ ProjectOf[c.subject] \in ProjectsAt(Sequence)
  /\ c.topic = "session.removed" => c.subject \in Sessions
  /\ c.topic # "project.changed" => c.projects = ProjectsAt(Sequence)
  /\ \A s \in Sessions :
       \/ c.db[s] = Db[s] /\ (Exists(Db[s]) /\ ProjectOf[s] \in ProjectsAt(Sequence) =>
                                ProjectOf[s] \in c.projects)
       \/ c.topic = "session.changed" /\ c.subject = s
       \/ c.topic = "session.removed" /\ c.subject = s /\ ~Exists(c.db[s])
       \/ c.topic = "project.changed" /\ ~Exists(c.db[s]) /\ ProjectOf[s] \notin c.projects

LEMMA ChangesFollow ==
  ASSUME log \in Seq(Commits), NEW c \in Changes
  PROVE  Sound(c)
<1> DEFINE ps == ProjectsAt(Sequence)
<1>1. Db \in Dbs /\ ps \subseteq Projects
  BY DbTyped DEF Db, Sequence
<1>0. ~Exists(Absent) /\ Absent \in Records
  BY DEF Exists, Absent, Records
<1>2. ASSUME NEW qs \in SUBSET Projects PROVE Sound(ProjectChange(qs))
  <2> DEFINE d == [s \in Sessions |-> IF ProjectOf[s] \in qs THEN Db[s] ELSE Absent]
  <2>1. d \in Dbs /\ \A s \in Sessions : \/ d[s] = Db[s] /\ ProjectOf[s] \in qs
                                         \/ ~Exists(d[s]) /\ ProjectOf[s] \notin qs
    BY <1>0, <1>1 DEF Dbs
  <2>2. /\ ProjectChange(qs).topic = "project.changed" /\ ProjectChange(qs).db = d
        /\ ProjectChange(qs).projects = qs /\ ProjectChange(qs).subject = None
        /\ ProjectChange(qs) \in Commits
    BY <2>1 DEF ProjectChange, Change, Commits
  <2> HIDE DEF d
  <2> QED
    BY <2>1, <2>2 DEF Sound
<1>3. ASSUME NEW s \in Sessions, NEW mode \in {"none", "upsert", "invalidate_all"},
             NEW r \in Records, Exists(r),
             \/ Exists(Db[s]) /\ Db[s].rev <= r.rev
             \/ Unused(s) /\ ProjectOf[s] \in ps
      PROVE  Sound(SessionChange(s, mode, r))
  <2> DEFINE d == [Db EXCEPT ![s] = r]
             x == SessionChange(s, mode, r)
  <2>1. d \in Dbs /\ d[s] = r /\ \A q \in Sessions \ {s} : d[q] = Db[q]
    BY <1>1 DEF Dbs
  <2>2. /\ x.topic = "session.changed" /\ x.db = d /\ x.subject = s /\ x.projects = ps
        /\ x \in Commits
    BY <1>1, <2>1 DEF SessionChange, Change, Commits
  <2> HIDE DEF d, x
  <2>3. Sound(x)
    BY <1>3, <2>1, <2>2 DEF Sound
  <2> QED
    BY <2>3 DEF x
<1>4. ASSUME NEW s \in Sessions
      PROVE  /\ Db[s] \in Records /\ Next_(Db[s]) \in Records /\ Exists(Next_(Db[s]))
             /\ Db[s].rev <= Next_(Db[s]).rev
  BY <1>1 DEF Dbs, Records, Next_, Exists
<1>5. ASSUME NEW s \in Sessions,
             Exists(Db[s]) \/ (Unused(s) /\ ProjectOf[s] \in ps)
      PROVE  /\ Sound(AppendChange(s)) /\ Sound(RewindChange(s))
             /\ \A l \in {"active", "archived"} : Sound(SetLife(s, l))
  <2> DEFINE r == Next_(Db[s])
  <2>1. r \in Records /\ Exists(r) /\ Db[s].rev <= r.rev
    BY <1>4
  <2> HIDE DEF r
  <2>2. Sound(AppendChange(s)) /\ Sound(RewindChange(s))
    BY <1>3, <1>5, <2>1 DEF AppendChange, RewindChange, r
  <2>3. ASSUME NEW l \in {"active", "archived"} PROVE Sound(SetLife(s, l))
    <3>1. /\ [r EXCEPT !.life = l] \in Records /\ Exists([r EXCEPT !.life = l])
          /\ [r EXCEPT !.life = l].rev = r.rev
      BY <2>1 DEF Records, Exists
    <3> QED
      BY <1>3, <1>5, <2>1, <3>1 DEF SetLife, r
  <2> QED
    BY <2>2, <2>3
<1>6. ASSUME NEW s \in Sessions PROVE Sound(UsageChange(s)) /\ Sound(RemoveSessionChange(s))
  <2>1. Sound(UsageChange(s))
    <3> DEFINE x == UsageChange(s)
    <3>1. /\ x.topic = "session.usage.changed" /\ x.db = Db /\ x.projects = ps /\ x \in Commits
      BY <1>1 DEF UsageChange, Change, Commits
    <3> HIDE DEF x
    <3>2. Sound(x)
      BY <3>1 DEF Sound
    <3> QED
      BY <3>2 DEF x
  <2>2. Sound(RemoveSessionChange(s))
    <3> DEFINE d == [Db EXCEPT ![s] = Absent]
               x == RemoveSessionChange(s)
    <3>1. d \in Dbs /\ ~Exists(d[s]) /\ \A q \in Sessions \ {s} : d[q] = Db[q]
      BY <1>0, <1>1 DEF Dbs
    <3>2. /\ x.topic = "session.removed" /\ x.db = d /\ x.subject = s /\ x.projects = ps
          /\ x \in Commits
      BY <1>1, <3>1 DEF RemoveSessionChange, Change, Commits
    <3> HIDE DEF d, x
    <3>3. Sound(x)
      BY <3>1, <3>2 DEF Sound
    <3> QED
      BY <3>3 DEF x
  <2> QED
    BY <2>1, <2>2
<1>7. \/ \E qs \in SUBSET Projects : c = ProjectChange(qs)
      \/ \E s \in Sessions :
           \/ c \in {UsageChange(s), RemoveSessionChange(s)}
           \/ /\ Exists(Db[s]) \/ (Unused(s) /\ ProjectOf[s] \in ps)
              /\ \/ c \in {AppendChange(s), RewindChange(s)}
                 \/ \E l \in {"active", "archived"} : c = SetLife(s, l)
  <2>1. CASE \/ c \in {ProjectChange(ps \cup {p}) : p \in NewProjects}
             \/ c \in {ProjectChange(ps \ {p}) : p \in ps}
    BY <1>1, <2>1 DEF NewProjects
  <2>2. CASE ~(\/ c \in {ProjectChange(ps \cup {p}) : p \in NewProjects}
               \/ c \in {ProjectChange(ps \ {p}) : p \in ps})
    <3> DEFINE Of(s) == CASE ~Exists(Db[s])  -> IF ProjectOf[s] \in ps /\ Unused(s)
                                                THEN {AppendChange(s)} ELSE {}
                          [] Live(Db[s])     -> {AppendChange(s), RewindChange(s),
                                                 UsageChange(s), SetLife(s, "archived")}
                          [] OTHER           -> {SetLife(s, "active"), RemoveSessionChange(s)}
    <3>1. c \in UNION {Of(s) : s \in Sessions}
      BY <2>2 DEF Changes
    <3>2. PICK s \in Sessions : c \in Of(s)
      BY <3>1
    <3>3. \/ c \in {UsageChange(s), RemoveSessionChange(s)}
          \/ /\ Exists(Db[s]) \/ (Unused(s) /\ ProjectOf[s] \in ps)
             /\ \/ c \in {AppendChange(s), RewindChange(s)}
                \/ \E l \in {"active", "archived"} : c = SetLife(s, l)
      BY <3>2, Zenon DEF Live
    <3> QED
      BY <3>3
  <2> QED
    BY <2>1, <2>2
<1> QED
  BY <1>2, <1>5, <1>6, <1>7

LEMMA Grown ==
  ASSUME log \in Seq(Commits), NEW c \in Commits, log' = Append(log, c)
  PROVE  /\ log' \in Seq(Commits) /\ Len(log') = Len(log) + 1 /\ log'[Len(log) + 1] = c
         /\ \A n \in 1..Len(log) : log'[n] = log[n]
         /\ \A n \in 0..Len(log) : DbAt(n)' = DbAt(n) /\ ProjectsAt(n)' = ProjectsAt(n)
         /\ Read \subseteq Read' /\ Loads \subseteq Loads' /\ Merges \subseteq Merges'
         /\ Boots \subseteq Boots'
<1>1. /\ log' \in Seq(Commits) /\ Len(log') = Len(log) + 1 /\ log'[Len(log) + 1] = c
      /\ \A n \in 1..Len(log) : log'[n] = log[n]
  OBVIOUS
<1>2. Len(log) \in Nat
  OBVIOUS
<1>3. Read \subseteq Read'
  BY <1>1, <1>2 DEF Read
<1>4. \A n \in 0..Len(log) : DbAt(n)' = DbAt(n) /\ ProjectsAt(n)' = ProjectsAt(n)
  BY <1>1, <1>2 DEF DbAt, ProjectsAt, InitialDb
<1> QED
  BY <1>1, <1>3, <1>4 DEF Loads, Merges, Boots

LEMMA HistoryGrows ==
  ASSUME log \in Seq(Commits), History, NEW c, Sound(c), log' = Append(log, c),
         NEW N \in Nat, N = Len(log)
  PROVE  History' /\ Follows(N + 1)'
<1>1. /\ N \in Nat /\ Len(log') = N + 1 /\ log'[N + 1] = c /\ c \in Commits
      /\ \A n \in 1..N : log'[n] = log[n]
      /\ \A n \in 0..N : DbAt(n)' = DbAt(n) /\ ProjectsAt(n)' = ProjectsAt(n)
  BY Grown DEF Sound
<1>2. /\ DbAt(N + 1)' = c.db /\ ProjectsAt(N + 1)' = c.projects
      /\ Db = DbAt(N) /\ ProjectsAt(Sequence) = ProjectsAt(N)
  <2>1. N + 1 # 0
    OBVIOUS
  <2>2. DbAt(N + 1)' = log'[N + 1].db /\ ProjectsAt(N + 1)' = log'[N + 1].projects
    BY <2>1 DEF DbAt, ProjectsAt
  <2> QED
    BY <1>1, <2>2 DEF Db, Sequence
<1>3. /\ \A n \in 0..N : DbAt(n) \in Dbs
      /\ c.db \in Dbs
  BY <1>1, DbTyped DEF Commits
<1>4. ASSUME NEW s \in Sessions PROVE (Unused(s)' => Unused(s)) /\ (c.subject = s => ~Unused(s)')
  BY <1>1 DEF Unused, Sequence
<1>5. \A s \in Sessions, n \in 0..N :
         Exists(DbAt(n)[s]) => ProjectOf[s] \in ProjectsAt(n) /\ ~Unused(s)
  BY DEF History, AtHome
<1>6. ASSUME NEW s \in Sessions, Exists(c.db[s])
      PROVE  \/ c.db[s] = DbAt(N)[s] /\ ProjectOf[s] \in c.projects
             \/ /\ c.subject = s /\ ProjectOf[s] \in c.projects
                /\ Unused(s) \/ (Exists(DbAt(N)[s]) /\ DbAt(N)[s].rev <= c.db[s].rev)
  BY <1>1, <1>2, <1>5, <1>6 DEF Sound
<1>7. \A n \in 0..(N + 1) : n \in 0..N \/ n = N + 1
  BY <1>1
<1>8. N \in 0..N /\ \A n \in 0..N : n <= N /\ n # N + 1
  BY <1>1
<1>9. AtHome'
  <2>1. ASSUME NEW s \in Sessions, NEW n \in 0..(N + 1), Exists(DbAt(n)'[s])
        PROVE  ProjectOf[s] \in ProjectsAt(n)' /\ ~Unused(s)'
    <3>1. CASE n \in 0..N
      <4>1. Exists(DbAt(n)[s]) /\ ProjectsAt(n)' = ProjectsAt(n)
        BY <1>1, <2>1, <3>1
      <4> QED
        BY <1>4, <1>5, <3>1, <4>1
    <3>2. CASE n = N + 1
      BY <1>2, <1>4, <1>5, <1>6, <1>8, <2>1, <3>2
    <3> QED
      BY <1>7, <3>1, <3>2
  <2> QED
    BY <1>1, <2>1 DEF AtHome
<1>10. Grows'
  <2>1. ASSUME NEW s \in Sessions, NEW m \in 0..(N + 1), NEW n \in 0..(N + 1), m <= n,
               Exists(DbAt(m)'[s]), Exists(DbAt(n)'[s])
        PROVE  DbAt(m)'[s].rev <= DbAt(n)'[s].rev
    <3>1. CASE n \in 0..N
      <4>1. m \in 0..N
        BY <1>1, <1>7, <2>1, <3>1
      <4> QED
        BY <1>1, <2>1, <3>1, <4>1 DEF History, Grows
    <3>2. CASE n = N + 1 /\ m = N + 1
      BY <1>2, <1>3, <3>2 DEF Dbs, Records
    <3>3. CASE n = N + 1 /\ m \in 0..N
      <4>1. Exists(DbAt(m)[s]) /\ Exists(c.db[s]) /\ DbAt(m)'[s] = DbAt(m)[s] /\ DbAt(n)'[s] = c.db[s]
        BY <1>1, <1>2, <2>1, <3>3
      <4>2. Exists(DbAt(N)[s]) /\ DbAt(N)[s].rev <= c.db[s].rev
        BY <1>3, <1>5, <1>6, <1>8, <3>3, <4>1 DEF Dbs, Records
      <4>3. DbAt(m)[s].rev <= DbAt(N)[s].rev
        BY <1>8, <3>3, <4>1, <4>2 DEF History, Grows
      <4>4. DbAt(m)[s].rev \in Nat /\ DbAt(N)[s].rev \in Nat /\ c.db[s].rev \in Nat
        BY <1>3, <1>8, <3>3 DEF Dbs, Records
      <4> QED
        BY <4>1, <4>2, <4>3, <4>4
    <3> QED
      BY <1>7, <3>1, <3>2, <3>3
  <2> QED
    BY <1>1, <2>1 DEF Grows
<1>11. StaysGone'
  <2>1. ASSUME NEW s \in Sessions, NEW k \in 0..(N + 1), NEW m \in 0..(N + 1), NEW n \in 0..(N + 1),
               k <= m, m <= n, Exists(DbAt(k)'[s]), Exists(DbAt(n)'[s])
        PROVE  Exists(DbAt(m)'[s])
    <3>1. CASE n \in 0..N
      <4>1. m \in 0..N /\ k \in 0..N
        BY <1>1, <1>7, <2>1, <3>1
      <4> QED
        BY <1>1, <2>1, <3>1, <4>1 DEF History, StaysGone
    <3>2. CASE n = N + 1 /\ m = N + 1
      BY <2>1, <3>2
    <3>3. CASE n = N + 1 /\ m \in 0..N
      <4>1. k \in 0..N
        BY <1>1, <1>7, <2>1, <3>3
      <4>2. Exists(DbAt(k)[s]) /\ Exists(c.db[s]) /\ DbAt(m)'[s] = DbAt(m)[s]
        BY <1>1, <1>2, <2>1, <3>3, <4>1
      <4>3. Exists(DbAt(N)[s])
        BY <1>5, <1>6, <1>8, <4>1, <4>2
      <4> QED
        BY <1>8, <2>1, <3>3, <4>1, <4>2, <4>3 DEF History, StaysGone
    <3> QED
      BY <1>7, <3>1, <3>2, <3>3
  <2> QED
    BY <1>1, <2>1 DEF StaysGone
<1>12. Follows(N + 1)'
  <2>1. DbAt(N + 1 - 1)' = Db /\ ProjectsAt(N + 1 - 1)' = ProjectsAt(Sequence)
    <3>1. N + 1 - 1 = N
      BY <1>1
    <3> QED
      BY <1>1, <1>2, <1>8, <3>1
  <2> QED
    BY <1>1, <2>1 DEF Follows, Sound
<1> QED
  BY <1>9, <1>10, <1>11, <1>12 DEF History

\* What is read at or after a commit is not outdated for it.
LEMMA Fresh ==
  ASSUME log \in Seq(Commits), History, NEW s \in Sessions, NEW n \in 0..Len(log),
         NEW m \in 0..Len(log), n <= m
  PROVE  ~Outdated(DbAt(m)[s], s, n)
<1>1. ASSUME Exists(DbAt(m)[s]), DbAt(m)[s].rev < DbAt(n)[s].rev PROVE FALSE
  <2>1. DbAt(n)[s].rev \in Nat /\ DbAt(m)[s].rev \in Nat
    BY DbTyped DEF Dbs, Records
  <2>2. Exists(DbAt(n)[s])
    BY <1>1, <2>1 DEF Exists
  <2>3. DbAt(n)[s].rev <= DbAt(m)[s].rev
    BY <1>1, <2>2 DEF History, Grows
  <2> QED
    BY <1>1, <2>1, <2>3
<1>2. ASSUME Exists(DbAt(m)[s]), ~Exists(DbAt(n)[s]), NEW k \in 0..n, Exists(DbAt(k)[s]) PROVE FALSE
  <2>1. k \in 0..Len(log) /\ k <= n
    BY DbTyped
  <2> QED
    BY <1>2, <2>1 DEF History, StaysGone
<1> QED
  BY <1>1, <1>2 DEF Outdated

------------------------------------------------------------------------------
(* The replica. *)

LEMMA FallbackFits ==
  ASSUME NEW c, NEW p, NEW f \in Fallback(c, p)
  PROVE  f # None => f \in Sessions /\ Cached(c, f) /\ ProjectOf[f] = p
BY DEF Fallback, Live, Cached

LEMMA LoadStarted ==
  ASSUME Types, NEW f \in Sessions \cup {None}, StartLoadIfAny(f), UNCHANGED log
  PROVE  loads' \subseteq Loads' /\ loads \subseteq loads' /\ (f # None => Load(f) \in loads')
<1>1. loads \subseteq Loads /\ Loads' = Loads
  BY DEF Types, Asked, Loads, Read
<1>2. CASE f = None
  BY <1>1, <1>2 DEF StartLoadIfAny
<1>3. CASE f # None
  <2>1. loads' = loads \cup {Load(f)} /\ Load(f) \in Loads
    BY <1>3 DEF StartLoadIfAny, StartLoad, Ask, Load, Loads, Read
  <2> QED
    BY <1>1, <2>1
<1> QED
  BY <1>2, <1>3

\* The list of Projects is the one of the cursor.
Listed == cursor # None => rprojects = ProjectsAt(cursor)

\* What applying commit n makes of the cached record of s: it is the commit's, or it goes, or the
\* commit did not touch it, or it is loaded again.
Abreast(n, s) ==
  /\ \/ ~Cached(sess', s)
     \/ sess'[s] = log[n].db[s]
     \/ sess'[s] = sess[s] /\ log[n].db[s].rev = DbAt(n - 1)[s].rev
     \/ Load(s) \in loads'
  /\ loads \subseteq loads'

LEMMA ProjectsApplied ==
  ASSUME Types, SelectionConsistent, UNCHANGED log, NEW n \in 1..Len(log),
         log[n].topic = "project.changed", ApplyProjects(log[n]),
         History, rprojects = ProjectsAt(n - 1)
  PROVE  /\ rprojects' = log[n].projects /\ rprojects' \subseteq Projects /\ sess' \in Dbs /\ selProj' \in Projects \cup {None}
         /\ selSess' \in Sessions \cup {None} /\ nav' = nav /\ boot' = boot
         /\ loads' \subseteq Loads' /\ merges' \subseteq Merges'
         /\ SelectionConsistent' /\ \A s \in Sessions : Abreast(n, s)
<1> DEFINE c == log[n]
           kept == [s \in Sessions |-> IF ProjectOf[s] \in rprojects \ c.projects
                                       THEN Absent ELSE sess[s]]
<1>1. c \in Commits /\ sess \in Dbs /\ Follows(n)
  BY DEF Types, Stream, Replica
<1>2. kept \in Dbs
  BY <1>1 DEF Dbs, Records, Absent
<1>3. /\ rprojects' = c.projects /\ sess' = kept /\ nav' = nav /\ boot' = boot
      /\ c.projects \subseteq Projects
  BY <1>1 DEF ApplyProjects, Commits
<1>5. loads \subseteq Loads' /\ merges \subseteq Merges'
  BY DEF Types, Asked, Loads, Merges, Read
<1>4. ASSUME NEW s \in Sessions, Cached(sess', s)
      PROVE  sess'[s] = log[n].db[s] \/ (sess'[s] = sess[s] /\ log[n].db[s].rev = DbAt(n - 1)[s].rev)
  <2>1. sess'[s] = sess[s] /\ (ProjectOf[s] \in rprojects => ProjectOf[s] \in c.projects)
    BY <1>3, <1>4 DEF Cached, Exists, Absent
  <2>2. \/ c.db[s] = DbAt(n - 1)[s]
        \/ ~Exists(c.db[s]) /\ ProjectOf[s] \notin c.projects
    BY <1>1 DEF Follows
  <2>3. n - 1 \in 0..Len(log) /\ s \in Sessions
    BY <1>1 DEF Types, Stream
  <2>4. Exists(DbAt(n - 1)[s]) => ProjectOf[s] \in c.projects
    BY <2>1, <2>3 DEF History, AtHome
  <2>5. c.db \in Dbs /\ DbAt(n - 1) \in Dbs
    BY <1>1, <2>3, DbTyped DEF Commits, Types, Stream
  <2> QED
    BY <2>1, <2>2, <2>4, <2>5 DEF Dbs, Records, Exists
<1>6. CASE selProj # None /\ selProj \notin c.projects
  <2>1. PICK p \in (IF c.projects = {} THEN {None} ELSE c.projects) :
          /\ selProj' = p
          /\ \E f \in Fallback(kept, p) :
               /\ selSess' = f
               /\ StartLoadIfAny(f)
               /\ merges' = IF f = None /\ p # None
                            THEN merges \cup {[p |-> p, nav |-> nav, at |-> None]}
                            ELSE merges
    BY <1>6, Zenon DEF ApplyProjects
  <2>2. p \in Projects \cup {None}
    BY <1>3
  <2>3. PICK f \in Fallback(kept, p) :
          /\ selSess' = f /\ StartLoadIfAny(f)
          /\ merges' = IF f = None /\ p # None
                       THEN merges \cup {[p |-> p, nav |-> nav, at |-> None]} ELSE merges
    BY <2>1, Zenon
  <2> HIDE DEF kept
  <2>4. f # None => f \in Sessions /\ Cached(kept, f) /\ ProjectOf[f] = p
    BY FallbackFits
  <2>5. loads' \subseteq Loads' /\ loads \subseteq loads'
    BY <2>3, <2>4, LoadStarted
  <2>6. [p |-> p, nav |-> nav, at |-> None] \in Merges'
    BY <2>2 DEF Merges, Read, Types, Replica
  <2>7. merges' \subseteq Merges'
    BY <1>5, <2>3, <2>6
  <2> QED
    BY <1>2, <1>3, <1>4, <2>1, <2>2, <2>3, <2>4, <2>5, <2>7 DEF SelectionConsistent, Abreast
<1>7. CASE ~(selProj # None /\ selProj \notin c.projects)
  <2>1. UNCHANGED <<selProj, selSess, loads, merges>>
    BY <1>7 DEF ApplyProjects
  <2>2. selSess # None => selSess \in Sessions /\ ProjectOf[selSess] \in Projects
    BY SessionsAssumption DEF Types, Replica
  <2>3. selSess # None => Cached(kept, selSess) /\ ProjectOf[selSess] = selProj
    BY <1>7, <2>2, NoneAssumption DEF SelectionConsistent, Cached
  <2> QED
    BY <1>2, <1>3, <1>4, <1>5, <2>1, <2>3 DEF SelectionConsistent, Types, Replica, Abreast
<1> QED
  BY <1>6, <1>7

LEMMA SessionApplied ==
  ASSUME Types, SelectionConsistent, UNCHANGED log, NEW n \in 1..Len(log),
         log[n].topic = "session.changed", ApplySession(log[n])
  PROVE  /\ rprojects' = rprojects /\ rprojects' \subseteq Projects /\ sess' \in Dbs /\ selProj' \in Projects \cup {None}
         /\ selSess' \in Sessions \cup {None} /\ nav' = nav /\ boot' = boot
         /\ loads' \subseteq Loads' /\ merges' \subseteq Merges'
         /\ SelectionConsistent' /\ \A s \in Sessions : Abreast(n, s)
<1> DEFINE c == log[n]
           s == c.subject
           incoming == c.db[s]
<1>1. /\ c \in Commits /\ sess \in Dbs /\ Follows(n) /\ s \in Sessions /\ incoming \in Records
      /\ incoming.rev > 0
  <2>1. c \in Commits /\ sess \in Dbs /\ Follows(n)
    BY DEF Types, Stream, Replica
  <2>2. s \in Sessions /\ Exists(incoming)
    BY <2>1 DEF Follows
  <2> QED
    BY <2>1, <2>2 DEF Commits, Dbs, Exists
<1>2. /\ merges \subseteq Merges' /\ loads \subseteq Loads' /\ rprojects \subseteq Projects
      /\ selProj \in Projects \cup {None} /\ selSess \in Sessions \cup {None}
  BY DEF Types, Asked, Replica, Loads, Merges, Read
<1>3. CASE Cached(sess, s) /\ incoming.rev > sess[s].rev + 1
  <2>1. StartLoad(s) /\ UNCHANGED <<cache, choice, boot, queries>>
    BY <1>3 DEF ApplySession
  <2>2. StartLoadIfAny(s)
    BY <1>1, <2>1, NoneAssumption DEF StartLoadIfAny
  <2>3. loads' \subseteq Loads' /\ loads \subseteq loads' /\ Load(s) \in loads'
    BY <1>1, <2>2, LoadStarted, NoneAssumption
  <2>4. \A q \in Sessions : Abreast(n, q)
    BY <1>1, <2>1, <2>3 DEF Abreast, Follows, cache
  <2> QED
    BY <1>1, <1>2, <2>1, <2>3, <2>4 DEF SelectionConsistent, cache, choice, queries
<1>4. CASE ~(Cached(sess, s) /\ incoming.rev > sess[s].rev + 1)
  <2>1. /\ sess' = [sess EXCEPT ![s] = incoming]
        /\ IF incoming.life = "archived" /\ s = selSess
           THEN \E f \in Fallback(sess', ProjectOf[s]) : selSess' = f /\ StartLoadIfAny(f)
           ELSE /\ UNCHANGED selSess
                /\ StartLoadIfAny(IF c.mode = "invalidate_all" /\ s = selSess THEN s ELSE None)
        /\ UNCHANGED <<rprojects, selProj, nav, boot, queries>>
    BY <1>4, Zenon DEF ApplySession
  <2>2. /\ sess' \in Dbs /\ sess'[s] = incoming /\ \A q \in Sessions \ {s} : sess'[q] = sess[q]
        /\ \A q \in Sessions : Cached(sess, q) => Cached(sess', q)
    BY <1>1, <2>1 DEF Dbs, Cached, Exists
  <2>3. ASSUME loads \subseteq loads' PROVE \A q \in Sessions : Abreast(n, q)
    BY <1>1, <2>2, <2>3 DEF Abreast, Follows
  <2>4. CASE incoming.life = "archived" /\ s = selSess
    <3>1. PICK f \in Fallback(sess', ProjectOf[s]) : selSess' = f /\ StartLoadIfAny(f)
      BY <2>1, <2>4
    <3>2. f # None => f \in Sessions /\ Cached(sess', f) /\ ProjectOf[f] = ProjectOf[s]
      BY FallbackFits
    <3>3. loads' \subseteq Loads' /\ loads \subseteq loads'
      BY <3>1, <3>2, LoadStarted
    <3>4. ProjectOf[s] = selProj
      BY <1>1, <2>4, NoneAssumption DEF SelectionConsistent
    <3> QED
      BY <1>1, <1>2, <2>1, <2>2, <2>3, <3>1, <3>2, <3>3, <3>4 DEF SelectionConsistent, queries
  <2>5. CASE ~(incoming.life = "archived" /\ s = selSess)
    <3>1. UNCHANGED selSess /\ \E f \in Sessions \cup {None} : StartLoadIfAny(f)
      BY <1>1, <2>1, <2>5
    <3>2. loads' \subseteq Loads' /\ loads \subseteq loads'
      BY <3>1, LoadStarted
    <3> QED
      BY <1>1, <1>2, <2>1, <2>2, <2>3, <3>1, <3>2 DEF SelectionConsistent, queries
  <2> QED
    BY <2>4, <2>5
<1> QED
  BY <1>3, <1>4

LEMMA RemovedApplied ==
  ASSUME Types, SelectionConsistent, UNCHANGED log, NEW n \in 1..Len(log),
         log[n].topic = "session.removed", ApplyRemoved(log[n])
  PROVE  /\ rprojects' = rprojects /\ rprojects' \subseteq Projects /\ sess' \in Dbs /\ selProj' \in Projects \cup {None}
         /\ selSess' \in Sessions \cup {None} /\ nav' = nav /\ boot' = boot
         /\ loads' \subseteq Loads' /\ merges' \subseteq Merges'
         /\ SelectionConsistent' /\ \A s \in Sessions : Abreast(n, s)
<1> DEFINE s == log[n].subject
<1>1. sess \in Dbs /\ Follows(n) /\ s \in Sessions
  BY DEF Types, Replica, Follows
<1>2. /\ merges \subseteq Merges' /\ rprojects \subseteq Projects /\ nav \in Nat
      /\ selProj \in Projects \cup {None} /\ selSess \in Sessions \cup {None}
  BY DEF Types, Asked, Replica, Merges, Read
<1>3. /\ sess' = [sess EXCEPT ![s] = Absent]
      /\ \E f \in (IF selSess = s THEN Fallback(sess', ProjectOf[s]) ELSE {selSess}) :
            selSess' = f /\ StartLoadIfAny(f)
      /\ UNCHANGED <<rprojects, selProj, nav, boot, queries>>
  BY Zenon DEF ApplyRemoved
<1>4. /\ sess' \in Dbs /\ ~Cached(sess', s) /\ \A q \in Sessions \ {s} : sess'[q] = sess[q]
  BY <1>1, <1>3 DEF Dbs, Records, Absent, Cached, Exists
<1>5. ASSUME loads \subseteq loads' PROVE \A q \in Sessions : Abreast(n, q)
  BY <1>1, <1>4, <1>5 DEF Abreast, Follows
<1>6. PICK f \in (IF selSess = s THEN Fallback(sess', ProjectOf[s]) ELSE {selSess}) :
        selSess' = f /\ StartLoadIfAny(f)
  BY <1>3
<1>7. f # None => f \in Sessions /\ Cached(sess', f) /\ ProjectOf[f] = selProj
  <2>1. CASE selSess = s
    <3>1. ProjectOf[s] = selProj
      BY <1>1, <2>1, NoneAssumption DEF SelectionConsistent
    <3> QED
      BY <1>6, <2>1, <3>1, FallbackFits
  <2>2. CASE selSess # s
    BY <1>2, <1>4, <1>6, <2>2 DEF SelectionConsistent, Cached
  <2> QED
    BY <2>1, <2>2
<1>8. loads' \subseteq Loads' /\ loads \subseteq loads'
  BY <1>6, <1>7, LoadStarted
<1> QED
  BY <1>2, <1>3, <1>4, <1>5, <1>6, <1>7, <1>8 DEF SelectionConsistent, queries

LEMMA Applied ==
  ASSUME Types, SelectionConsistent, UNCHANGED log, NEW n \in 1..Len(log),
         Apply(log[n]), History, rprojects = ProjectsAt(n - 1)
  PROVE  /\ rprojects' = ProjectsAt(n) /\ rprojects' \subseteq Projects /\ sess' \in Dbs /\ selProj' \in Projects \cup {None}
         /\ selSess' \in Sessions \cup {None} /\ nav' = nav /\ boot' = boot
         /\ loads' \subseteq Loads' /\ merges' \subseteq Merges'
         /\ SelectionConsistent' /\ \A s \in Sessions : Abreast(n, s)
<1>1. log[n].topic \in {"project.changed", "session.changed", "session.removed",
                        "session.usage.changed"}
  <2>1. log[n] \in Commits
    BY DEF Types, Stream
  <2> QED
    BY <2>1 DEF Commits
<1>0. /\ ProjectsAt(n) = log[n].projects
      /\ log[n].topic # "project.changed" => log[n].projects = ProjectsAt(n - 1)
  BY DEF ProjectsAt, Types, Follows
<1>2. CASE log[n].topic = "project.changed"
  BY <1>0, <1>2, ProjectsApplied DEF Apply
<1>3. CASE log[n].topic = "session.changed"
  BY <1>0, <1>3, SessionApplied DEF Apply
<1>4. CASE log[n].topic = "session.removed"
  BY <1>0, <1>4, RemovedApplied DEF Apply
<1>5. CASE log[n].topic = "session.usage.changed"
  <2>1. UNCHANGED <<cache, choice, boot, loads, queries>>
    BY <1>5 DEF Apply
  <2>2. Follows(n)
    BY DEF Types
  <2>3. \A s \in Sessions : Abreast(n, s)
    BY <1>5, <2>1, <2>2 DEF Abreast, Follows, cache
  <2> QED
    BY <1>0, <1>5, <2>1, <2>3 DEF Types, Replica, Asked, SelectionConsistent, cache, choice, queries, Loads,
       Merges, Read
<1> QED
  BY <1>1, <1>2, <1>3, <1>4, <1>5

\* What the store makes of a commit: it applies the next one, drops one it knows, and asks for
\* a snapshot at a gap.
Reconciled(n) ==
  \/ /\ cursor = None \/ n > cursor + 1
     /\ cursor' = cursor /\ sess' = sess /\ loads' = loads
     /\ boot' = IF boot.ph = "idle" THEN BootAsked ELSE boot
  \/ /\ cursor # None /\ n <= cursor
     /\ cursor' = cursor /\ sess' = sess /\ loads' = loads /\ boot' = boot
  \/ /\ cursor # None /\ n = cursor + 1
     /\ cursor' = n /\ boot' = boot /\ \A s \in Sessions : Abreast(n, s)

LEMMA ReconcileWorks ==
  ASSUME Types, SelectionConsistent, UNCHANGED log, NEW n \in 1..Len(log), Reconcile(n),
         History, Listed
  PROVE  Replica' /\ Asked' /\ SelectionConsistent' /\ Listed' /\ Reconciled(n)
<1>1. CASE cursor = None \/ n > cursor + 1
  <2>1. StartBootstrap /\ UNCHANGED <<cursor, cache, choice, loads, queries>>
    <3>1. CASE cursor = None
      BY <3>1 DEF Reconcile
    <3>2. CASE cursor # None
      <4>1. cursor \in Nat /\ n > cursor + 1 /\ ~(n <= cursor)
        BY <1>1, <3>2 DEF Types, Replica, Read
      <4> QED
        BY <3>2, <4>1 DEF Reconcile
    <3> QED
      BY <3>1, <3>2
  <2>2. Replica' /\ SelectionConsistent' /\ Listed'
    BY <2>1 DEF Types, Replica, SelectionConsistent, Listed, ProjectsAt, cache, choice, Read
  <2>3. Asked'
    BY <2>1 DEF Types, Asked, StartBootstrap, BootAsked, Idle, Boots, Loads, Merges, Read, queries
  <2> QED
    BY <1>1, <2>1, <2>2, <2>3 DEF Reconciled, StartBootstrap, cache
<1>2. CASE cursor # None /\ n <= cursor
  <2>1. UNCHANGED renderer
    BY <1>2 DEF Reconcile, Types, Replica, Read
  <2> QED
    BY <1>2, <2>1 DEF Reconciled, renderer, cache, choice, queries, Types, Replica, Asked,
       SelectionConsistent, Read, Boots, Loads, Merges, Listed, ProjectsAt
<1>3. CASE cursor # None /\ n = cursor + 1
  <2>1. cursor' = n /\ Apply(log[n])
    BY <1>3 DEF Reconcile, Types, Replica, Read
  <2>0. rprojects = ProjectsAt(n - 1)
    BY <1>3 DEF Listed, Types, Replica, Read
  <2>2. /\ rprojects' = ProjectsAt(n) /\ rprojects' \subseteq Projects /\ sess' \in Dbs /\ selProj' \in Projects \cup {None}
        /\ selSess' \in Sessions \cup {None} /\ nav' = nav /\ boot' = boot
        /\ loads' \subseteq Loads' /\ merges' \subseteq Merges'
        /\ SelectionConsistent' /\ \A s \in Sessions : Abreast(n, s)
    BY <2>0, <2>1, Applied
  <2>3. Replica'
    BY <2>1, <2>2 DEF Replica, Read, Types
  <2>4. Asked'
    BY <2>2 DEF Asked, Types, Boots, Read
  <2>5. Listed'
    BY <2>1, <2>2 DEF Listed, ProjectsAt
  <2> QED
    BY <1>3, <2>1, <2>2, <2>3, <2>4, <2>5 DEF Reconciled
<1> QED
  BY <1>1, <1>2, <1>3 DEF Types, Replica, Read

\* A late answer never makes a cached record older.
LEMMA Installed ==
  ASSUME Types, NEW s \in Sessions, NEW r \in Records, Exists(r), InstallSession(s, r)
  PROVE  /\ sess' \in Dbs
         /\ \A q \in Sessions : Cached(sess, q) => Cached(sess', q)
         /\ \A q \in Sessions \ {s} : sess'[q] = sess[q]
         /\ \/ sess'[s] = sess[s] /\ Cached(sess, s) /\ r.rev <= sess[s].rev
            \/ sess'[s] = r /\ ~(Cached(sess, s) /\ sess[s].rev > r.rev)
<1>1. sess \in Dbs
  BY DEF Types, Replica
<1>2. \/ sess' = sess /\ Cached(sess, s) /\ r.rev <= sess[s].rev
      \/ sess' = [sess EXCEPT ![s] = r] /\ ~(Cached(sess, s) /\ sess[s].rev > r.rev)
  BY <1>1 DEF InstallSession, Dbs, Records
<1> QED
  BY <1>1, <1>2 DEF Dbs, Records, Cached, Exists

------------------------------------------------------------------------------
(* What is on its way. *)

\* How far the stream has come to the renderer.
Delivered == Len(log) - Len(events)

\* While no push is lost, the pushes on their way are the newest commits, in order; and a
\* replica that has not got as far as they have was waiting for a snapshot, or is.
Chased ==
  faults = 0 =>
    /\ Len(events) <= Len(log)
    /\ \A i \in 1..Len(events) : events[i] = Delivered + i
    /\ subscribed =>
         \/ boot.ph = "asked" /\ (boot.at # None /\ Delivered > boot.at => Delivered \in windowed)
         \/ boot.ph # "asked" /\ cursor # None /\ (cursor >= Delivered \/ Delivered \in windowed)

\* Before it subscribes the store is idle and has asked for nothing.
Unborn == ~subscribed => boot = Idle /\ replies = {}

IInv == Types /\ SelectionConsistent /\ Chased /\ Unborn /\ History /\ Listed

LEMMA InitIInv ==
  ASSUME Init
  PROVE  IInv
<1>1. Types
  <2>1. sess \in Dbs /\ Idle \in Boots
    BY DEF Init, Dbs, Records, Absent, Idle, Boots, Read
  <2>2. Stream /\ Len(log) = 0
    <3>1. \A S : <<>> \in Seq(S) /\ Len(<<>>) = 0
      OBVIOUS
    <3> QED
      BY <3>1 DEF Init, Stream
  <2>3. Replica
    BY <2>1 DEF Init, Replica, Read
  <2>4. Asked
    BY <2>1 DEF Init, Asked, Idle
  <2> QED
    BY <2>2, <2>3, <2>4 DEF Types
<1>2. History
  <2>1. Len(log) = 0 /\ 0..0 = {0}
    BY DEF Init
  <2>2. DbAt(0) = InitialDb /\ ProjectsAt(0) = Opened
    BY DEF DbAt, ProjectsAt
  <2>3. \A s \in Sessions : /\ Exists(InitialDb[s]) => s \in Persisted
                             /\ InitialDb[s].rev \in Nat
    BY DEF InitialDb, Exists, Absent
  <2>4. AtHome
    BY <2>1, <2>2, <2>3, SessionsAssumption DEF AtHome, Unused
  <2>5. Grows /\ StaysGone
    BY <2>1, <2>2, <2>3 DEF Grows, StaysGone
  <2> QED
    BY <2>4, <2>5 DEF History
<1> QED
  BY <1>1, <1>2 DEF Init, IInv, SelectionConsistent, Chased, Unborn, Listed

------------------------------------------------------------------------------
(* Steps. *)

\* A step of NeverLeftBehind.
Excused(s) == Merged(s) \/ UnaskedAnswer(s) \/ FailedReload(s)
NotLeft == \A s \in Sessions : Adrift(s)' => Adrift(s) \/ Excused(s)

LEMMA StreamSteady ==
  ASSUME Types, UNCHANGED log, events' \in Seq(1..Len(log)), replies' \subseteq 1..Len(log),
         faults' \in Nat, subscribed' \in BOOLEAN, Replica', Asked'
  PROVE  Types'
<1>1. Stream'
  BY DEF Types, Stream
<1>2. \A n \in 1..Len(log) : Follows(n)'
  BY DEF Types, Follows, DbAt, ProjectsAt, InitialDb
<1> QED
  BY <1>1, <1>2 DEF Types

LEMMA ReloadsTyped ==
  ASSUME Types, NEW s \in Sessions, NEW l \in Reloads(s)
  PROVE  l.s = s /\ l.at \in Read
<1>1. \/ l \in loads /\ l.s = s
      \/ boot.s = s /\ l = boot
  BY DEF Reloads
<1>2. boot \in Boots /\ loads \subseteq Loads
  BY DEF Types, Asked
<1>3. boot.at \in Read
  BY <1>2 DEF Boots
<1>4. \A k \in Loads : k.at \in Read
  BY DEF Loads
<1> QED
  BY <1>1, <1>2, <1>3, <1>4

LEMMA LoadsDiffer ==
  ASSUME Types
  PROVE  boot \notin loads
<1>1. \A b \in Boots, l \in Loads : b # l
  BY DEF Boots, Loads
<1> QED
  BY <1>1 DEF Types, Asked

\* A step that leaves the stream, the cursor and the record of s, and answers no load of it.
LEMMA Unmoved ==
  ASSUME UNCHANGED <<log, cursor>>, NEW s \in Sessions, sess'[s] = sess[s],
         Reloads(s) \subseteq Reloads(s)'
  PROVE  Adrift(s)' => Adrift(s)
<1>1. \A n : DbAt(n)' = DbAt(n)
  BY DEF DbAt, InitialDb
<1>2. \A r, n : Outdated(r, s, n)' <=> Outdated(r, s, n)
  BY <1>1 DEF Outdated
<1>3. ASSUME Adrift(s)' PROVE Adrift(s)
  <2>1. /\ cursor # None /\ Outdated(sess[s], s, cursor)
        /\ \A l \in Reloads(s)' : l.at # None /\ Outdated(DbAt(l.at)[s], s, cursor)
    BY <1>1, <1>2, <1>3 DEF Adrift
  <2> QED
    BY <2>1 DEF Adrift
<1> QED
  BY <1>3

LEMMA ReloadsGrow ==
  ASSUME loads \subseteq loads', boot' = boot \/ boot.ph # "loading", NEW s \in Sessions
  PROVE  Reloads(s) \subseteq Reloads(s)'
BY DEF Reloads

LEMMA AllUnmoved ==
  ASSUME UNCHANGED <<log, cursor, sess>>, loads \subseteq loads', boot' = boot \/ boot.ph # "loading"
  PROVE  NotLeft
BY ReloadsGrow, Unmoved DEF NotLeft

LEMMA ReconciledKeepsUp ==
  ASSUME Types, History, UNCHANGED log, NEW n \in 1..Len(log), Replica', Reconciled(n)
  PROVE  NotLeft
<1>1. sess \in Dbs /\ sess' \in Dbs
  BY DEF Types, Replica
<1>2. CASE cursor' = cursor /\ sess' = sess /\ loads' = loads
  <2>1. boot' = boot \/ boot.ph # "loading"
    BY <1>2, NoneAssumption DEF Reconciled, Types, Replica, Read
  <2> QED
    BY <1>2, <2>1, AllUnmoved
<1>3. CASE /\ cursor # None /\ n = cursor + 1 /\ cursor' = n /\ boot' = boot
           /\ \A s \in Sessions : Abreast(n, s)
  <2>1. log[n].db = DbAt(n) /\ log \in Seq(Commits) /\ log[n].db \in Dbs
    BY <1>3, DbTyped DEF DbAt, Types, Stream
  <2>2. cursor \in 0..Len(log) /\ n - 1 = cursor /\ DbAt(cursor) \in Dbs /\ n \in Nat /\ n # None
    BY <1>3, DbTyped, NoneAssumption DEF Types, Stream, Replica, Read
  <2>3. \A m : DbAt(m)' = DbAt(m)
    BY DEF DbAt, InitialDb
  <2>4. ASSUME NEW s \in Sessions, Adrift(s)' PROVE Adrift(s)
    <3>1. /\ Outdated(sess'[s], s, n)
          /\ \A l \in Reloads(s)' : l.at # None /\ Outdated(DbAt(l.at)[s], s, n)
      BY <1>3, <2>3, <2>4 DEF Adrift, Outdated
    <3>2. Abreast(n, s)
      BY <1>3
    <3>3. Cached(sess', s)
      BY <3>1 DEF Outdated, Cached
    <3>4. sess'[s] # log[n].db[s]
      BY <2>1, <3>1, Fresh
    <3>5. Load(s) \notin loads'
      BY <3>1 DEF Reloads, Load
    <3>6. sess'[s] = sess[s] /\ log[n].db[s].rev = DbAt(cursor)[s].rev /\ loads \subseteq loads'
      BY <2>2, <3>2, <3>3, <3>4, <3>5 DEF Abreast
    <3>7. ASSUME NEW r, Outdated(r, s, n) PROVE Outdated(r, s, cursor)
      <4>1. ASSUME ~Exists(DbAt(n)[s]), NEW m \in 0..n, Exists(DbAt(m)[s])
            PROVE  m \in 0..cursor
        BY <2>2, <4>1
      <4> QED
        BY <2>1, <3>6, <3>7, <4>1 DEF Outdated, Exists
    <3>8. Reloads(s) \subseteq Reloads(s)'
      BY <1>3, <3>6, ReloadsGrow
    <3> QED
      BY <1>3, <3>1, <3>6, <3>7, <3>8 DEF Adrift
  <2> QED
    BY <2>4 DEF NotLeft
<1> QED
  BY <1>2, <1>3 DEF Reconciled

LEMMA StillChased ==
  ASSUME Chased, UNCHANGED <<log, events, windowed, subscribed, cursor>>, faults' = 0 => faults = 0,
         boot' = boot \/ (boot.ph # "asked" /\ boot'.ph # "asked")
  PROVE  Chased'
BY DEF Chased, Delivered

LEMMA HistoryKept ==
  ASSUME History, UNCHANGED log
  PROVE  History'
<1>1. \A n : DbAt(n)' = DbAt(n) /\ ProjectsAt(n)' = ProjectsAt(n)
  BY DEF DbAt, ProjectsAt, InitialDb
<1>2. \A s : Unused(s)' <=> Unused(s)
  BY DEF Unused, Sequence
<1> QED
  BY <1>1, <1>2 DEF History, AtHome, Grows, StaysGone

LEMMA CommandStep ==
  ASSUME IInv, Command
  PROVE  IInv' /\ NotLeft
<1>1. PICK c \in Changes, lost \in BOOLEAN :
        /\ Fault(lost) /\ log' = Append(log, c)
        /\ events' = IF lost THEN events ELSE Append(events, Sequence + 1)
        /\ (replies' = replies \cup {Sequence + 1} /\ subscribed) \/ replies' = replies
  BY DEF Command
<1>2. Types /\ Stream /\ log \in Seq(Commits) /\ Len(log) \in Nat
  BY DEF IInv, Types, Stream
<1>0. PICK N \in Nat : N = Len(log)
  BY <1>2
<1>3. Sound(c) /\ c \in Commits
  BY <1>2, ChangesFollow DEF Sound
<1>4. /\ log' \in Seq(Commits) /\ Len(log') = Len(log) + 1 /\ log'[Len(log) + 1] = c
      /\ \A n \in 1..Len(log) : log'[n] = log[n]
      /\ \A n \in 0..Len(log) : DbAt(n)' = DbAt(n) /\ ProjectsAt(n)' = ProjectsAt(n)
      /\ Read \subseteq Read' /\ Loads \subseteq Loads' /\ Merges \subseteq Merges'
      /\ Boots \subseteq Boots'
  BY <1>1, <1>2, <1>3, Grown
<1>5. faults' \in Nat /\ (faults' = 0 => ~lost /\ faults = 0)
  BY <1>1, <1>2 DEF Fault, Stream
<1>6. UNCHANGED <<windowed, buffer, overflowed, subscribed, cursor, rprojects, sess, selProj,
                  selSess, nav, boot, loads, merges, searches>>
  BY DEF Command, preload, renderer, cache, choice, queries
<1>7. \A n \in 1..(N + 1) : Follows(n)'
  <2>1. ASSUME NEW n \in 1..N PROVE Follows(n)'
    <3>1. Follows(n) /\ log'[n] = log[n] /\ DbAt(n - 1)' = DbAt(n - 1)
          /\ ProjectsAt(n - 1)' = ProjectsAt(n - 1)
      BY <1>0, <1>2, <1>4 DEF Types
    <3> QED
      BY <3>1 DEF Follows
  <2>2. Follows(N + 1)'
    BY <1>0, <1>1, <1>2, <1>3, HistoryGrows DEF IInv
  <2>3. \A n \in 1..(N + 1) : n \in 1..N \/ n = N + 1
    OBVIOUS
  <2> QED
    BY <2>1, <2>2, <2>3
<1>8. events' \in Seq(1..Len(log'))
  <2>1. 1..N \subseteq 1..(N + 1) /\ N + 1 \in 1..(N + 1)
    OBVIOUS
  <2>2. \A S, T : S \subseteq T => Seq(S) \subseteq Seq(T)
    OBVIOUS
  <2>3. events \in Seq(1..(N + 1))
    BY <1>0, <1>2, <2>1, <2>2 DEF Stream
  <2>4. \A S : \A q \in Seq(S), x \in S : Append(q, x) \in Seq(S)
    OBVIOUS
  <2>5. Append(events, N + 1) \in Seq(1..(N + 1))
    BY <2>1, <2>3, <2>4
  <2> QED
    BY <1>0, <1>1, <1>4, <2>3, <2>5 DEF Sequence
<1>9. replies' \subseteq 1..Len(log')
  <2>1. replies \subseteq 1..N /\ 1..N \subseteq 1..(N + 1) /\ N + 1 \in 1..(N + 1)
    BY <1>0, <1>2 DEF Stream
  <2> QED
    BY <1>0, <1>1, <1>4, <2>1 DEF Sequence
<1>10. Types'
  <2>1. Stream'
    BY <1>2, <1>4, <1>5, <1>6, <1>8, <1>9 DEF Stream
  <2>2. Replica'
    BY <1>2, <1>4, <1>6 DEF Replica, Types
  <2>3. Asked'
    BY <1>2, <1>4, <1>6 DEF Asked, Types
  <2> QED
    BY <1>0, <1>4, <1>7, <2>1, <2>2, <2>3 DEF Types
<1>11. Chased'
  <2>1. CASE faults' = 0
    <3>1. /\ faults = 0 /\ events' = Append(events, Len(log) + 1) /\ events \in Seq(1..Len(log))
          /\ Len(events) \in Nat
      BY <1>1, <1>2, <1>5, <2>1 DEF Stream, Sequence
    <3>2. Len(events') = Len(events) + 1 /\ Delivered' = Delivered
      BY <1>2, <1>4, <3>1 DEF Delivered
    <3>3. Len(events) <= Len(log) /\ \A i \in 1..Len(events) : events[i] = Delivered + i
      BY <3>1 DEF IInv, Chased
    <3>4. \A i \in 1..Len(events') : events'[i] = Delivered' + i
      <4>1. ASSUME NEW i \in 1..Len(events') PROVE events'[i] = Delivered' + i
        <5>1. CASE i = Len(events) + 1
          <6>1. events'[i] = Len(log) + 1 /\ Delivered' = Len(log) - Len(events)
            BY <3>1, <3>2, <5>1 DEF Delivered
          <6> QED
            BY <1>2, <3>1, <5>1, <6>1
        <5>2. CASE i # Len(events) + 1
          <6>1. i \in 1..Len(events) /\ events'[i] = events[i]
            BY <3>1, <3>2, <5>2
          <6> QED
            BY <3>2, <3>3, <6>1
        <5> QED
          BY <5>1, <5>2
      <4> QED
        BY <4>1
    <3> QED
      BY <1>2, <1>4, <1>6, <3>1, <3>2, <3>3, <3>4 DEF IInv, Chased
  <2> QED
    BY <2>1 DEF Chased
<1>12. NotLeft
  <2>1. cursor # None => cursor \in 0..Len(log)
    BY <1>2 DEF Types, Replica, Read
  <2>2. ASSUME NEW s \in Sessions, Adrift(s)' PROVE Adrift(s)
    <3>1. Reloads(s)' = Reloads(s) /\ cursor' = cursor /\ sess' = sess
      BY <1>6 DEF Reloads
    <3>2. /\ cursor # None /\ cursor \in 0..Len(log)
          /\ \A m \in 0..cursor : DbAt(m)' = DbAt(m)
      BY <1>2, <1>4, <2>1, <2>2, <3>1 DEF Adrift
    <3>3. ASSUME NEW r, Outdated(r, s, cursor)' PROVE Outdated(r, s, cursor)
      BY <3>1, <3>2, <3>3 DEF Outdated
    <3>4. \A l \in Reloads(s) : l.at # None => DbAt(l.at)' = DbAt(l.at)
      BY <1>2, <1>4, ReloadsTyped DEF Read
    <3> QED
      BY <2>2, <3>1, <3>2, <3>3, <3>4 DEF Adrift
  <2> QED
    BY <2>2 DEF NotLeft
<1>13. History' /\ Listed'
  <2>1. History'
    BY <1>1, <1>2, <1>3, HistoryGrows DEF IInv
  <2>2. Listed'
    BY <1>2, <1>4, <1>6 DEF IInv, Listed, Types, Replica, Read
  <2> QED
    BY <2>1, <2>2
<1> QED
  BY <1>1, <1>6, <1>10, <1>11, <1>12, <1>13 DEF IInv, SelectionConsistent, Unborn

LEMMA EventStep ==
  ASSUME IInv, DeliverEvent
  PROVE  IInv' /\ NotLeft
<1>1. Types /\ Stream /\ events \in Seq(1..Len(log)) /\ Len(events) \in Nat /\ Len(log) \in Nat
  BY DEF IInv, Types, Stream
<1> DEFINE n == Head(events)
<1>2. /\ events' = Tail(events) /\ events' \in Seq(1..Len(log)) /\ n \in 1..Len(log)
      /\ Len(events') = Len(events) - 1 /\ Len(events) > 0 /\ n = events[1]
      /\ \A i \in 1..Len(events') : events'[i] = events[i + 1]
  BY <1>1 DEF DeliverEvent
<1>3. UNCHANGED <<log, faults, replies>>
  BY DEF DeliverEvent, backend
<1>4. Delivered' = Delivered + 1
  BY <1>1, <1>2, <1>3 DEF Delivered
<1>5. faults = 0 =>
        /\ Len(events') <= Len(log) /\ n = Delivered' /\ Delivered \in Nat
        /\ \A i \in 1..Len(events') : events'[i] = Delivered' + i
  <2>1. ASSUME faults = 0
        PROVE  Len(events) <= Len(log) /\ \A i \in 1..Len(events) : events[i] = Delivered + i
    BY <2>1 DEF IInv, Chased
  <2>2. ASSUME faults = 0 PROVE Delivered \in Nat /\ n = Delivered'
    <3>1. Delivered \in Nat /\ 1 \in 1..Len(events)
      BY <1>1, <1>2, <2>1, <2>2 DEF Delivered
    <3> QED
      BY <1>2, <1>4, <2>1, <2>2, <3>1
  <2>3. ASSUME faults = 0, NEW i \in 1..Len(events') PROVE events'[i] = Delivered' + i
    <3>1. i + 1 \in 1..Len(events) /\ events'[i] = events[i + 1]
      BY <1>1, <1>2
    <3>2. events[i + 1] = Delivered + (i + 1) /\ Delivered \in Nat
      BY <2>1, <2>2, <2>3, <3>1
    <3> QED
      BY <1>4, <3>1, <3>2
  <2> QED
    BY <1>1, <1>2, <2>1, <2>2, <2>3
<1> HIDE DEF n
<1>6. CASE subscribed
  <2>1. Reconcile(n) /\ Witness(n) /\ UNCHANGED <<buffer, overflowed, subscribed>>
    BY <1>6 DEF DeliverEvent, preload, n
  <2>2. Replica' /\ Asked' /\ SelectionConsistent' /\ Listed' /\ Reconciled(n)
    BY <1>1, <1>2, <1>3, <2>1, ReconcileWorks DEF IInv
  <2>3. Types'
    BY <1>1, <1>2, <1>3, <2>1, <2>2, StreamSteady DEF Stream
  <2>4. NotLeft
    BY <1>1, <1>2, <1>3, <2>2, ReconciledKeepsUp DEF IInv
  <2>5. Chased'
    <3>1. SUFFICES ASSUME faults' = 0
                   PROVE  \/ boot'.ph = "asked" /\
                                (boot'.at # None /\ Delivered' > boot'.at => Delivered' \in windowed')
                          \/ /\ boot'.ph # "asked" /\ cursor' # None
                             /\ (cursor' >= Delivered' \/ Delivered' \in windowed')
      BY <1>3, <1>5 DEF Chased
    <3>2. /\ n = Delivered' /\ Delivered \in Nat /\ n = Delivered + 1 /\ n # None
          /\ cursor \in Nat \cup {None}
          /\ \/ boot.ph = "asked"
             \/ boot.ph # "asked" /\ cursor # None /\ (cursor >= Delivered \/ Delivered \in windowed)
      BY <1>1, <1>3, <1>4, <1>5, <1>6, <3>1, NoneAssumption DEF IInv, Chased, Types, Replica, Read
    <3>3. boot.ph # "idle" => n \in windowed'
      BY <1>1, <1>3, <2>1, <3>1 DEF Witness
    <3>4. BootAsked.ph = "asked" /\ BootAsked.at = None
      BY DEF BootAsked, Idle
    <3>5. CASE boot.ph = "idle"
      <4>1. CASE cursor > n
        BY <2>2, <3>2, <3>4, <3>5, <4>1 DEF Reconciled
      <4>2. CASE ~(cursor > n)
        BY <2>2, <3>2, <3>4, <3>5, <4>2 DEF Reconciled
      <4> QED
        BY <4>1, <4>2
    <3>6. CASE boot.ph # "idle"
      <4>1. boot' = boot /\ (boot.ph # "asked" => cursor' # None)
        BY <2>2, <3>2, <3>6 DEF Reconciled
      <4> QED
        BY <3>2, <3>3, <3>6, <4>1
    <3> QED
      BY <3>5, <3>6
  <2> QED
    BY <1>3, <1>6, <2>1, <2>2, <2>3, <2>4, <2>5, HistoryKept DEF IInv, Unborn
<1>7. CASE ~subscribed
  <2>1. UNCHANGED <<subscribed, cursor, rprojects, sess, selProj, selSess, nav, boot, loads,
                    merges, searches, windowed>>
    BY <1>7 DEF DeliverEvent, renderer, cache, choice, queries
  <2>2. Replica' /\ Asked'
    BY <1>1, <1>3, <2>1 DEF Types, Replica, Asked, Read, Boots, Loads, Merges
  <2>3. Types'
    BY <1>1, <1>2, <1>3, <2>1, <2>2, StreamSteady DEF Stream
  <2>4. Chased'
    BY <1>3, <1>5, <1>7, <2>1 DEF Chased
  <2>5. NotLeft
    BY <1>3, <2>1, AllUnmoved
  <2>6. History' /\ Listed'
    BY <1>3, <2>1, HistoryKept DEF IInv, Listed, ProjectsAt
  <2> QED
    BY <1>3, <2>1, <2>3, <2>4, <2>5, <2>6 DEF IInv, Unborn, SelectionConsistent
<1> QED
  BY <1>6, <1>7

LEMMA ReplyStep ==
  ASSUME IInv, DeliverReply
  PROVE  IInv' /\ NotLeft
<1>1. Types /\ Stream /\ events \in Seq(1..Len(log)) /\ Len(events) \in Nat /\ Len(log) \in Nat
  BY DEF IInv, Types, Stream
<1>2. PICK n \in replies : replies' = replies \ {n} /\ Reconcile(n) /\ Witness(n)
  BY DEF DeliverReply
<1>3. UNCHANGED <<log, faults, events, subscribed>> /\ n \in 1..Len(log) /\ subscribed
  BY <1>1, <1>2 DEF DeliverReply, backend, preload, Stream, IInv, Unborn
<1>4. Replica' /\ Asked' /\ SelectionConsistent' /\ Listed' /\ Reconciled(n)
  BY <1>1, <1>2, <1>3, ReconcileWorks DEF IInv
<1>5. Types'
  BY <1>1, <1>2, <1>3, <1>4, StreamSteady DEF Stream
<1>6. NotLeft
  BY <1>1, <1>3, <1>4, ReconciledKeepsUp DEF IInv
<1>7. Chased'
  <2>1. windowed \subseteq windowed' /\ Delivered' = Delivered /\ Delivered \in Int
    BY <1>1, <1>2, <1>3 DEF Witness, Delivered
  <2>2. /\ boot' = boot \/ (boot'.ph = "asked" /\ boot'.at = None)
        /\ cursor' = cursor \/ (cursor # None /\ cursor' # None /\ cursor' = cursor + 1)
    <3>1. BootAsked.ph = "asked" /\ BootAsked.at = None
      BY DEF BootAsked, Idle
    <3>2. n # None
      BY <1>3, NoneAssumption
    <3>3. /\ boot' = boot \/ boot' = BootAsked
          /\ cursor' = cursor \/ (cursor # None /\ n = cursor + 1 /\ cursor' = n)
      BY <1>4, Zenon DEF Reconciled
    <3> QED
      BY <3>1, <3>2, <3>3
  <2>3. cursor \in Nat \cup {None}
    BY <1>1 DEF Types, Replica, Read
  <2> QED
    BY <1>3, <2>1, <2>2, <2>3 DEF IInv, Chased
<1> QED
  BY <1>3, <1>4, <1>5, <1>6, <1>7, HistoryKept DEF IInv, Unborn

LEMMA SubscribeStep ==
  ASSUME IInv, Subscribe
  PROVE  IInv' /\ NotLeft
<1>1. Types /\ Stream /\ boot = Idle
  BY DEF IInv, Types, Unborn, Subscribe
<1>2. /\ UNCHANGED <<log, faults, events, replies, windowed, cursor, rprojects, sess, selProj,
                     selSess, nav, loads, merges, searches>>
      /\ subscribed' = TRUE
  BY DEF Subscribe, backend, net, cache, choice, queries
<1>3. boot' = BootAsked /\ BootAsked.ph = "asked" /\ BootAsked.at = None /\ BootAsked \in Boots
  BY <1>1 DEF Subscribe, StartBootstrap, BootAsked, Idle, Boots, Read
<1>4. Replica'
  BY <1>1, <1>2 DEF Types, Replica, Read
<1>5. Asked'
  BY <1>1, <1>2, <1>3 DEF Types, Asked, Boots, Loads, Merges, Read
<1>6. Types'
  BY <1>1, <1>2, <1>4, <1>5, StreamSteady DEF Stream
<1>7. Chased'
  BY <1>2, <1>3 DEF IInv, Chased, Delivered
<1>8. NotLeft
  <2>1. boot.ph # "loading"
    BY <1>1 DEF Idle
  <2> QED
    BY <1>2, <2>1, AllUnmoved
<1>9. History' /\ Listed'
  BY <1>2, HistoryKept DEF IInv, Listed, ProjectsAt
<1> QED
  BY <1>2, <1>6, <1>7, <1>8, <1>9 DEF IInv, SelectionConsistent, Unborn

\* A step that moves neither the stream nor the cursor, and starts no snapshot.
LEMMA QuietStep ==
  ASSUME IInv, UNCHANGED <<log, events, replies, windowed, subscribed, cursor, rprojects>>,
         faults' \in Nat, faults' = 0 => faults = 0,
         boot' = boot \/ (boot.ph # "asked" /\ boot'.ph # "asked" /\ subscribed),
         Replica', Asked', SelectionConsistent'
  PROVE  IInv'
<1>1. Types'
  BY StreamSteady DEF IInv, Types, Stream
<1>2. Chased'
  BY StillChased DEF IInv
<1>3. History' /\ Listed'
  BY HistoryKept DEF IInv, Listed, ProjectsAt
<1> QED
  BY <1>1, <1>2, <1>3 DEF IInv, Unborn

LEMMA AnswerBootstrapStep ==
  ASSUME IInv, AnswerBootstrap
  PROVE  IInv' /\ NotLeft
<1>1. Types /\ Stream /\ boot \in Boots /\ Len(log) \in Nat
  BY DEF IInv, Types, Stream, Asked
<1>2. UNCHANGED <<log, faults, events, replies, windowed, subscribed, cursor, rprojects, sess,
                  selProj, selSess, nav, loads, merges, searches>>
  BY DEF AnswerBootstrap, backend, net, preload, cache, choice, queries
<1>3. /\ boot.ph = "asked" /\ boot'.ph = "asked" /\ boot'.at = Len(log) /\ boot' \in Boots
      /\ boot # Idle
  BY <1>1 DEF AnswerBootstrap, Boots, Read, Sequence, Idle
<1>4. Replica'
  BY <1>1, <1>2 DEF Types, Replica, Read
<1>5. Asked'
  BY <1>1, <1>2, <1>3 DEF Types, Asked, Boots, Loads, Merges, Read
<1>6. Types'
  BY <1>1, <1>2, <1>4, <1>5, StreamSteady DEF Stream
<1>7. Chased'
  <2>1. Len(events) \in Nat
    BY <1>1 DEF Stream
  <2> QED
    BY <1>1, <1>2, <1>3, <2>1 DEF IInv, Chased, Delivered
<1>8. NotLeft
  BY <1>2, <1>3, AllUnmoved
<1>9. History' /\ Listed'
  BY <1>2, HistoryKept DEF IInv, Listed, ProjectsAt
<1> QED
  BY <1>2, <1>3, <1>6, <1>7, <1>8, <1>9 DEF IInv, SelectionConsistent, Unborn

\* The snapshot's records, with the one selected before when it is restored.
LEMMA BootstrapInstalled ==
  ASSUME IInv, boot.ph = "asked", boot.at # None, InstallBootstrap, UNCHANGED log
  PROVE  /\ Replica' /\ Asked' /\ SelectionConsistent' /\ cursor' = boot.at
         /\ boot'.ph # "asked"
         /\ \A s \in Sessions : \/ ~Cached(sess', s)
                                \/ sess'[s] = DbAt(boot.at)[s]
                                \/ boot'.ph = "loading" /\ boot'.s = s /\ boot'.at = None
         /\ rprojects' = ProjectsAt(boot.at)
<1> DEFINE at == boot.at
           ps == ProjectsAt(at)
<1>0. PICK pg \in Pages(DbAt(at)) : InstallPage(pg)
  BY DEF InstallBootstrap
<1> DEFINE snap == [s \in Sessions |-> IF s \in pg THEN DbAt(at)[s] ELSE Absent]
           inPage(p) == selSess \in pg /\ ProjectOf[selSess] = p
           restore(p) == /\ selSess # None /\ ~inPage(p)
                         /\ Live(sess[selSess]) /\ ProjectOf[selSess] = p
           merged(p) == IF restore(p) THEN [snap EXCEPT ![selSess] = sess[selSess]] ELSE snap
<1>1. Types /\ Stream /\ Replica /\ Asked /\ boot \in Boots /\ log \in Seq(Commits)
  BY DEF IInv, Types, Stream, Asked
<1>2. at \in 0..Len(log) /\ DbAt(at) \in Dbs /\ ps \subseteq Projects /\ sess \in Dbs
  BY <1>1, DbTyped DEF Boots, Read, Replica
<1>3. snap \in Dbs /\ pg \subseteq Sessions /\ \A s \in pg : Cached(snap, s)
  <2>1. \A s \in pg : s \in Sessions /\ Live(DbAt(at)[s])
    BY <1>0 DEF Pages
  <2> QED
    BY <1>2, <2>1 DEF Dbs, Records, Absent, Live, Cached
<1>4. \A s \in Sessions : Cached(snap, s) => snap[s] = DbAt(at)[s]
  BY DEF Cached, Exists, Absent
<1>5. PICK p \in (IF selProj \in ps THEN {selProj} ELSE IF ps = {} THEN {None} ELSE ps) :
        \E f \in (IF selProj = p /\ selSess = None THEN {None}
                  ELSE IF inPage(p) \/ restore(p) THEN {selSess} ELSE Fallback(snap, p)) :
          /\ cursor' = at /\ rprojects' = ps /\ sess' = merged(p)
          /\ selProj' = p /\ selSess' = f
          /\ boot' = IF f = None THEN Idle ELSE BootLoad(f, restore(p))
          /\ UNCHANGED <<nav, loads, queries>>
  BY <1>0, Zenon DEF InstallPage
<1> HIDE DEF snap, ps
<1>6. PICK f \in (IF selProj = p /\ selSess = None THEN {None}
                  ELSE IF inPage(p) \/ restore(p) THEN {selSess} ELSE Fallback(snap, p)) :
        /\ cursor' = at /\ rprojects' = ps /\ sess' = merged(p)
        /\ selProj' = p /\ selSess' = f
        /\ boot' = IF f = None THEN Idle ELSE BootLoad(f, restore(p))
        /\ UNCHANGED <<nav, loads, queries>>
  BY <1>5, Zenon
<1>7. p \in Projects \cup {None} /\ selSess \in Sessions \cup {None}
  BY <1>1, <1>2 DEF Replica
<1>8. merged(p) \in Dbs
  BY <1>2, <1>3, <1>7 DEF Dbs
<1>9. f # None => f \in Sessions /\ Cached(merged(p), f) /\ ProjectOf[f] = p
  <2>1. CASE selProj = p /\ selSess = None
    BY <1>6, <2>1
  <2>2. CASE ~(selProj = p /\ selSess = None) /\ inPage(p)
    BY <1>3, <1>6, <1>7, <2>2 DEF Live, Cached, Dbs
  <2>3. CASE ~(selProj = p /\ selSess = None) /\ ~inPage(p) /\ restore(p)
    BY <1>3, <1>6, <1>7, <2>3 DEF Live, Cached, Dbs
  <2>4. CASE ~(selProj = p /\ selSess = None) /\ ~inPage(p) /\ ~restore(p)
    <3>1. f \in Fallback(snap, p) /\ merged(p) = snap
      BY <1>6, <2>4
    <3> HIDE DEF merged, restore, inPage
    <3> QED
      BY <3>1, FallbackFits
  <2> QED
    BY <2>1, <2>2, <2>3, <2>4
<1>10. \A s \in Sessions : \/ ~Cached(sess', s)
                           \/ sess'[s] = DbAt(at)[s]
                           \/ boot'.ph = "loading" /\ boot'.s = s /\ boot'.at = None
  <2>1. CASE ~restore(p)
    <3>1. sess' = snap
      BY <1>6, <2>1
    <3> QED
      BY <1>4, <3>1 DEF Cached
  <2>2. CASE restore(p)
    <3>1. f = selSess /\ f # None
      BY <1>6, <2>2
    <3>2. boot'.ph = "loading" /\ boot'.s = f /\ boot'.at = None
      BY <1>6, <3>1 DEF BootLoad
    <3>3. sess' = [snap EXCEPT ![f] = sess[f]]
      BY <1>6, <2>2, <3>1
    <3> HIDE DEF restore, inPage, merged
    <3>4. \A s \in Sessions \ {f} : sess'[s] = snap[s]
      BY <1>3, <3>3 DEF Dbs
    <3> QED
      BY <1>4, <3>2, <3>4 DEF Cached
  <2> QED
    BY <2>1, <2>2
<1> HIDE DEF merged, inPage
<1>11. boot' \in Boots /\ boot'.ph # "asked" /\ (boot'.ph = "loading" => boot'.s \in Sessions)
  <2>1. Idle \in Boots /\ Idle.ph = "idle"
    BY DEF Idle, Boots, Read
  <2>2. restore(p) \in BOOLEAN
    BY DEF restore
  <2> HIDE DEF restore
  <2>3. f # None => /\ BootLoad(f, restore(p)) \in Boots
                    /\ BootLoad(f, restore(p)).ph = "loading" /\ BootLoad(f, restore(p)).s = f
    BY <1>9, <2>2 DEF BootLoad, Boots, Read
  <2> QED
    BY <1>6, <1>9, <2>1, <2>3
<1>12. Boots' = Boots /\ Loads' = Loads /\ Merges' = Merges
  BY DEF Boots, Loads, Merges, Read
<1>13. Asked'
  BY <1>1, <1>6, <1>11, <1>12 DEF Asked, queries
<1>14. Replica'
  <2>1. cursor' \in Read' /\ rprojects' \subseteq Projects /\ nav' \in Nat
    BY <1>1, <1>2, <1>6 DEF Replica, Read
  <2> QED
    BY <1>6, <1>7, <1>8, <1>9, <2>1 DEF Replica
<1> QED
  BY <1>6, <1>9, <1>10, <1>11, <1>13, <1>14 DEF SelectionConsistent, ps

LEMMA DeliverBootstrapStep ==
  ASSUME IInv, DeliverBootstrap
  PROVE  IInv' /\ NotLeft
<1>1. Types /\ Stream /\ boot \in Boots /\ boot.ph = "asked" /\ boot.at # None /\ Len(log) \in Nat
      /\ Len(events) \in Nat
  BY DEF IInv, Types, Stream, Asked, DeliverBootstrap
<1>2. UNCHANGED <<log, events, replies, windowed, subscribed>> /\ subscribed
  BY <1>1 DEF DeliverBootstrap, net, preload, IInv, Unborn, Idle, Stream
<1>3. CASE InstallBootstrap /\ UNCHANGED faults
  <2>1. /\ Replica' /\ Asked' /\ SelectionConsistent' /\ cursor' = boot.at
        /\ boot'.ph # "asked"
        /\ \A s \in Sessions : \/ ~Cached(sess', s)
                               \/ sess'[s] = DbAt(boot.at)[s]
                               \/ boot'.ph = "loading" /\ boot'.s = s /\ boot'.at = None
        /\ rprojects' = ProjectsAt(boot.at)
    BY <1>1, <1>2, <1>3, BootstrapInstalled
  <2>2. Types'
    BY <1>1, <1>2, <1>3, <2>1, StreamSteady DEF Stream
  <2>3. Chased'
    <3>1. boot.at \in Nat
      BY <1>1 DEF Boots, Read
    <3>2. Delivered' = Delivered
      BY <1>2 DEF Delivered
    <3>3. faults = 0 => Delivered \in Nat
      BY <1>1 DEF IInv, Chased, Delivered
    <3> QED
      BY <1>1, <1>2, <1>3, <2>1, <3>1, <3>2, <3>3 DEF IInv, Chased
  <2>4. NotLeft
    <3>1. ASSUME NEW s \in Sessions PROVE ~Adrift(s)'
      <4>1. boot.at \in 0..Len(log) /\ log \in Seq(Commits)
        BY <1>1 DEF Boots, Read, Stream
      <4>2. \A m : DbAt(m)' = DbAt(m)
        BY <1>2 DEF DbAt, InitialDb
      <4>3. CASE boot'.ph = "loading" /\ boot'.s = s /\ boot'.at = None
        <5>1. boot' \in Reloads(s)'
          BY <4>3 DEF Reloads
        <5> QED
          BY <4>3, <5>1 DEF Adrift
      <4>4. CASE ~Cached(sess', s)
        BY <4>4 DEF Adrift, Outdated, Cached
      <4>5. CASE sess'[s] = DbAt(boot.at)[s]
        <5>1. ~Outdated(sess'[s], s, boot.at)
          BY <4>1, <4>5, Fresh DEF IInv
        <5>2. ~Outdated(sess[s], s, cursor)'
          BY <2>1, <4>2, <5>1 DEF Outdated
        <5> QED
          BY <5>2 DEF Adrift
      <4> QED
        BY <2>1, <4>3, <4>4, <4>5
    <3> QED
      BY <3>1 DEF NotLeft
  <2>5. History' /\ Listed'
    BY <1>2, <2>1, HistoryKept DEF IInv, Listed, ProjectsAt
  <2> QED
    BY <1>2, <2>1, <2>2, <2>3, <2>4, <2>5 DEF IInv, Unborn
<1>4. CASE Fault(TRUE) /\ boot' = Idle /\ UNCHANGED <<cursor, cache, choice, loads, queries>>
  <2>1. faults' \in Nat /\ faults' # 0
    BY <1>1, <1>4 DEF Fault, Stream
  <2>2. UNCHANGED <<cursor, rprojects, sess, selProj, selSess, nav, loads, merges, searches>>
    BY <1>4 DEF cache, choice, queries
  <2>3. Replica'
    BY <1>1, <1>2, <2>2 DEF Types, Replica, Read
  <2>4. Asked'
    BY <1>1, <1>2, <1>4, <2>2 DEF Types, Asked, Boots, Loads, Merges, Read, Idle
  <2>5. Types'
    BY <1>1, <1>2, <2>1, <2>3, <2>4, StreamSteady DEF Stream
  <2>6. NotLeft
    BY <1>1, <1>2, <2>2, AllUnmoved
  <2>7. History' /\ Listed'
    BY <1>2, <2>2, HistoryKept DEF IInv, Listed, ProjectsAt
  <2> QED
    BY <1>2, <2>1, <2>2, <2>5, <2>6, <2>7 DEF IInv, Unborn, SelectionConsistent, Chased
<1> QED
  BY <1>3, <1>4 DEF DeliverBootstrap

\* An answer read now is fresh.
LEMMA ReadNow ==
  ASSUME Types, History, UNCHANGED <<log, cursor>>, NEW s \in Sessions, NEW l \in Reloads(s)',
         l.at = Len(log)
  PROVE  ~Adrift(s)'
<1>1. log \in Seq(Commits) /\ Len(log) \in Nat /\ (cursor # None => cursor \in 0..Len(log))
  BY DEF Types, Stream, Replica, Read
<1>2. \A n : DbAt(n)' = DbAt(n)
  BY DEF DbAt, InitialDb
<1>3. ASSUME cursor # None PROVE ~Outdated(DbAt(Len(log))[s], s, cursor)
  BY <1>1, <1>3, Fresh
<1>4. ASSUME Adrift(s)' PROVE cursor # None /\ Outdated(DbAt(Len(log))[s], s, cursor)
  BY <1>2, <1>4 DEF Adrift, Outdated
<1> QED
  BY <1>3, <1>4

LEMMA AnswerBootLoadStep ==
  ASSUME IInv, AnswerBootLoad
  PROVE  IInv' /\ NotLeft
<1>1. Types /\ Stream /\ boot \in Boots /\ Len(log) \in Nat
  BY DEF IInv, Types, Stream, Asked
<1>2. UNCHANGED <<log, faults, events, replies, windowed, subscribed, cursor, rprojects, sess,
                  selProj, selSess, nav, loads, merges, searches>>
  BY DEF AnswerBootLoad, backend, net, preload, cache, choice, queries
<1>3. /\ boot.ph = "loading" /\ boot'.ph = "loading" /\ boot' \in Boots /\ boot'.s = boot.s
      /\ boot'.at = Len(log)
      /\ subscribed
  BY <1>1 DEF AnswerBootLoad, Boots, Read, Sequence, IInv, Unborn, Idle, Stream
<1>4. Replica'
  BY <1>1, <1>2 DEF Types, Replica, Read
<1>5. Asked'
  BY <1>1, <1>2, <1>3 DEF Types, Asked, Boots, Loads, Merges, Read
<1>6. NotLeft
  <2>1. ASSUME NEW s \in Sessions, Adrift(s)' PROVE Adrift(s)
    <3>1. CASE s = boot.s
      <4>1. boot' \in Reloads(s)'
        BY <1>3, <3>1 DEF Reloads
      <4> QED
        BY <1>1, <1>2, <1>3, <2>1, <4>1, ReadNow DEF IInv
    <3>2. CASE s # boot.s
      <4>1. Reloads(s) \subseteq Reloads(s)'
        BY <1>2, <3>2 DEF Reloads
      <4> QED
        BY <1>2, <2>1, <4>1, Unmoved
    <3> QED
      BY <3>1, <3>2
  <2> QED
    BY <2>1 DEF NotLeft
<1>7. SelectionConsistent'
  BY <1>2 DEF IInv, SelectionConsistent
<1> QED
  BY <1>1, <1>2, <1>3, <1>4, <1>5, <1>6, <1>7, QuietStep DEF Stream

\* A load of s is answered and taken: it fails, is for a record that is not cached, or leaves s
\* adrift only when it was before.
LEMMA Taken ==
  ASSUME Types, History, UNCHANGED <<log, cursor>>, NEW s \in Sessions, NEW l \in Reloads(s),
         l.at # None, l \notin Reloads(s)', Reloads(s) \ {l} \subseteq Reloads(s)',
         \/ /\ Exists(DbAt(l.at)[s])
            /\ InstallSession(s, DbAt(l.at)[s])
         \/ faults' # faults \/ ~Exists(DbAt(l.at)[s])
  PROVE  Adrift(s)' => Adrift(s) \/ Excused(s)
<1> DEFINE r == DbAt(l.at)[s]
<1>1. l \in Answers(s)
  BY DEF Answers
<1>2. CASE faults' # faults \/ ~Exists(r)
  BY <1>1, <1>2 DEF Excused, FailedReload
<1>3. CASE ~Cached(sess, s)
  BY <1>1, <1>3 DEF Excused, UnaskedAnswer
<1>4. ASSUME Cached(sess, s), Exists(r), InstallSession(s, r), Adrift(s)'
      PROVE  Adrift(s)
  <2>1. \A n : DbAt(n)' = DbAt(n)
    BY DEF DbAt, InitialDb
  <2>2. /\ cursor # None /\ Outdated(sess'[s], s, cursor)
        /\ \A k \in Reloads(s)' : k.at # None /\ Outdated(DbAt(k.at)[s], s, cursor)
    BY <1>4, <2>1 DEF Adrift, Outdated
  <2>3. l.at \in 0..Len(log) /\ cursor \in 0..Len(log) /\ log \in Seq(Commits)
    BY <2>2, ReloadsTyped DEF Read, Types, Stream, Replica
  <2>4. r \in Records /\ DbAt(cursor) \in Dbs /\ sess \in Dbs
    BY <2>3, DbTyped DEF Types, Replica, Dbs
  <2>5. \/ sess'[s] = sess[s] /\ r.rev <= sess[s].rev
        \/ sess'[s] = r /\ sess[s].rev <= r.rev
    <3> HIDE DEF r
    <3> QED
      BY <1>4, <2>4, Installed DEF Dbs, Records
  <2>6. sess'[s].rev \in Nat /\ sess[s].rev \in Nat /\ r.rev \in Nat /\ DbAt(cursor)[s].rev \in Nat
    BY <2>4, <2>5 DEF Dbs, Records
  <2> HIDE DEF r
  <2>7. Outdated(sess[s], s, cursor) /\ Outdated(r, s, cursor)
    BY <1>4, <2>2, <2>5, <2>6 DEF Outdated, Cached
  <2>8. \A k \in Reloads(s) : k.at # None /\ Outdated(DbAt(k.at)[s], s, cursor)
    BY <2>2, <2>7 DEF r
  <2> QED
    BY <2>2, <2>7, <2>8 DEF Adrift
<1> QED
  BY <1>2, <1>3, <1>4

LEMMA DeliverBootLoadStep ==
  ASSUME IInv, DeliverBootLoad
  PROVE  IInv' /\ NotLeft
<1> DEFINE s == boot.s
           snap == DbAt(boot.at)[s]
<1>1. /\ Types /\ Stream /\ Replica /\ Asked /\ boot \in Boots /\ boot.ph = "loading" /\ boot.at # None
      /\ s \in Sessions /\ SelectionConsistent
  BY DEF IInv, Types, Asked, DeliverBootLoad
<1>2. /\ UNCHANGED <<log, events, replies, windowed, subscribed, cursor, rprojects, selProj, nav, loads,
                     merges, searches>>
      /\ subscribed
  BY <1>1 DEF DeliverBootLoad, net, preload, queries, IInv, Unborn, Idle, Stream
<1>3. snap \in Records /\ sess \in Dbs
  BY <1>1, DbTyped DEF Boots, Read, Stream, Replica, Dbs
<1>4. PICK failed \in BOOLEAN :
        /\ ~Exists(snap) => failed
        /\ Fault(failed /\ Exists(snap))
        /\ CASE ~failed -> InstallSession(s, snap) /\ boot' = Idle /\ UNCHANGED selSess
             [] failed /\ boot.prev ->
                  /\ sess' = [sess EXCEPT ![s] = Absent]
                  /\ \E f \in Fallback(sess', selProj) :
                       /\ selSess' = f
                       /\ boot' = IF f = None THEN Idle ELSE BootLoad(f, FALSE)
             [] OTHER -> boot' = Idle /\ UNCHANGED <<sess, selSess>>
  BY Zenon DEF DeliverBootLoad
<1>5. faults' \in Nat /\ (faults' = 0 => faults = 0)
  BY <1>1, <1>4 DEF Fault, Stream
<1>6. Idle \in Boots /\ Idle.ph = "idle"
  BY DEF Idle, Boots, Read
<1>7. selProj \in Projects \cup {None} /\ selSess \in Sessions \cup {None}
  BY <1>1 DEF Replica
<1> HIDE DEF snap, s
<1> DEFINE Fits == /\ sess' \in Dbs /\ selSess' \in Sessions \cup {None} /\ SelectionConsistent'
                   /\ boot' \in Boots /\ boot'.ph # "asked" /\ (boot'.ph = "loading" => boot'.s \in Sessions)
                   /\ boot' # boot
                   /\ \A q \in Sessions \ {s} : sess'[q] = sess[q]
                   /\ \/ ~Cached(sess', s)
                      \/ Exists(snap) /\ InstallSession(s, snap)
                      \/ faults' # faults \/ ~Exists(snap)
<1>8. Fits
  <2>1. CASE ~failed
    <3>1. InstallSession(s, snap) /\ boot' = Idle /\ UNCHANGED selSess /\ Exists(snap)
      BY <1>4, <2>1
    <3>2. /\ sess' \in Dbs /\ \A q \in Sessions : Cached(sess, q) => Cached(sess', q)
          /\ \A q \in Sessions \ {s} : sess'[q] = sess[q]
      BY <1>1, <1>3, <3>1, Installed DEF s
    <3>3. SelectionConsistent'
      BY <1>1, <1>2, <1>7, <3>1, <3>2 DEF SelectionConsistent
    <3> QED
      BY <1>1, <1>6, <1>7, <3>1, <3>2, <3>3
  <2>2. CASE failed /\ boot.prev
    <3>1. /\ sess' = [sess EXCEPT ![s] = Absent]
          /\ \E f \in Fallback(sess', selProj) :
                selSess' = f /\ boot' = IF f = None THEN Idle ELSE BootLoad(f, FALSE)
      BY <1>4, <2>2
    <3>2. PICK f \in Fallback(sess', selProj) :
             selSess' = f /\ boot' = IF f = None THEN Idle ELSE BootLoad(f, FALSE)
      BY <3>1
    <3>3. f # None => f \in Sessions /\ Cached(sess', f) /\ ProjectOf[f] = selProj
      BY FallbackFits
    <3>4. /\ sess' \in Dbs /\ ~Cached(sess', s)
          /\ \A q \in Sessions \ {s} : sess'[q] = sess[q]
      <4>1. Absent \in Records /\ ~Exists(Absent) /\ s \in Sessions
        BY <1>1 DEF Records, Absent, Exists, s
      <4> QED
        BY <1>3, <3>1, <4>1 DEF Dbs, Cached
    <3>5. f # None => /\ BootLoad(f, FALSE) \in Boots
                      /\ BootLoad(f, FALSE).ph = "loading" /\ BootLoad(f, FALSE).s = f
      BY <3>3 DEF BootLoad, Boots, Read
    <3>6. /\ boot' \in Boots /\ boot'.ph # "asked" /\ (boot'.ph = "loading" => boot'.s \in Sessions)
      BY <1>6, <3>2, <3>3, <3>5
    <3>7. SelectionConsistent' /\ selSess' \in Sessions \cup {None}
      BY <1>2, <3>2, <3>3 DEF SelectionConsistent
    <3>8. boot' # boot
      <4>1. f # s
        BY <3>3, <3>4, <1>1, NoneAssumption DEF s
      <4>2. boot'.ph = "loading" => boot'.s = f
        BY <1>6, <3>2, <3>5
      <4> QED
        BY <1>1, <1>6, <4>1, <4>2 DEF s
    <3> QED
      BY <3>4, <3>6, <3>7, <3>8
  <2>3. CASE failed /\ ~boot.prev
    <3>1. boot' = Idle /\ UNCHANGED <<sess, selSess>>
      BY <1>4, <2>3
    <3>2. SelectionConsistent'
      BY <1>1, <1>2, <3>1 DEF SelectionConsistent
    <3>3. faults' # faults \/ ~Exists(snap)
      BY <1>1, <1>4, <2>3 DEF Fault, Stream
    <3> QED
      BY <1>1, <1>3, <1>6, <1>7, <3>1, <3>2, <3>3
  <2> QED
    BY <2>1, <2>2, <2>3
<1> HIDE DEF Fits
<1>9. Replica'
  BY <1>1, <1>2, <1>8 DEF Fits, Replica, Read
<1>10. Asked'
  <2>1. Boots' = Boots /\ Loads' = Loads /\ Merges' = Merges
    BY <1>2 DEF Boots, Loads, Merges, Read
  <2> QED
    BY <1>1, <1>2, <1>8, <2>1 DEF Fits, Asked
<1>11. NotLeft
  <2>0. PICK b \in Sessions : b = s
    BY <1>1
  <2>1. ASSUME NEW q \in Sessions, q # b PROVE Adrift(q)' => Adrift(q)
    <3>1. Reloads(q) \subseteq Reloads(q)' /\ sess'[q] = sess[q]
      BY <1>2, <1>8, <2>0, <2>1 DEF Fits, Reloads, s
    <3> QED
      BY <1>2, <3>1, Unmoved
  <2>2. Adrift(b)' => Adrift(b) \/ Excused(b)
    <3>1. CASE ~Cached(sess', b)
      BY <3>1 DEF Adrift, Outdated, Cached
    <3>2. CASE Cached(sess', b)
      <4>0. PICK l : l = boot
        OBVIOUS
      <4>1. l \in Reloads(b) /\ l \notin loads'
        BY <1>1, <1>2, <2>0, <4>0, LoadsDiffer DEF Reloads, s
      <4>2. l \notin Reloads(b)' /\ Reloads(b) \ {l} \subseteq Reloads(b)'
        BY <1>2, <1>8, <4>0, <4>1 DEF Reloads, Fits
      <4>3. \/ Exists(DbAt(l.at)[b]) /\ InstallSession(b, DbAt(l.at)[b])
            \/ faults' # faults \/ ~Exists(DbAt(l.at)[b])
        BY <1>8, <2>0, <3>2, <4>0 DEF Fits, snap
      <4> QED
        BY <1>1, <1>2, <4>0, <4>1, <4>2, <4>3, Taken DEF IInv
    <3> QED
      BY <3>1, <3>2
  <2> QED
    BY <2>0, <2>1, <2>2 DEF NotLeft
<1>12. IInv'
  BY <1>1, <1>2, <1>5, <1>8, <1>9, <1>10, QuietStep DEF Fits
<1> QED
  BY <1>11, <1>12

LEMMA AnswerLoadStep ==
  ASSUME IInv, AnswerLoad
  PROVE  IInv' /\ NotLeft
<1>1. Types /\ Stream /\ Asked /\ Replica /\ Len(log) \in Nat
  BY DEF IInv, Types, Stream
<1>2. UNCHANGED <<log, faults, events, replies, windowed, subscribed, cursor, rprojects, sess,
                  selProj, selSess, nav, boot, merges, searches>>
  BY DEF AnswerLoad, backend, net, preload, cache, choice, queries
<1>3. PICK l \in loads : loads' = (loads \ {l}) \cup {[l EXCEPT !.at = Sequence]}
  BY DEF AnswerLoad
<1>4. [l EXCEPT !.at = Sequence] \in Loads
  <2>1. l \in Loads /\ Sequence \in Read
    BY <1>1, <1>3 DEF Asked, Read, Sequence
  <2> QED
    BY <2>1 DEF Loads
<1>5. Boots' = Boots /\ Loads' = Loads /\ Merges' = Merges
  BY <1>2 DEF Boots, Loads, Merges, Read
<1>6. Replica'
  BY <1>1, <1>2 DEF Replica, Read
<1>7. Asked'
  BY <1>1, <1>2, <1>3, <1>4, <1>5 DEF Asked
<1>8. NotLeft
  <2>1. ASSUME NEW s \in Sessions, Adrift(s)' PROVE Adrift(s)
    <3> DEFINE k == [l EXCEPT !.at = Sequence]
    <3>1. l \in Loads /\ k.s = l.s /\ k.at = Len(log) /\ k \in loads'
      BY <1>1, <1>3 DEF Asked, Loads, Sequence
    <3> HIDE DEF k
    <3>2. CASE l.s = s
      <4>1. k \in Reloads(s)'
        BY <3>1, <3>2 DEF Reloads
      <4> QED
        BY <1>1, <1>2, <2>1, <3>1, <4>1, ReadNow DEF IInv
    <3>3. CASE l.s # s
      <4>1. Reloads(s) \subseteq Reloads(s)'
        BY <1>2, <1>3, <3>3 DEF Reloads
      <4> QED
        BY <1>2, <2>1, <4>1, Unmoved
    <3> QED
      BY <3>2, <3>3
  <2> QED
    BY <2>1 DEF NotLeft
<1>9. SelectionConsistent'
  BY <1>2 DEF IInv, SelectionConsistent
<1> QED
  BY <1>1, <1>2, <1>6, <1>7, <1>8, <1>9, QuietStep DEF Stream

LEMMA DeliverLoadStep ==
  ASSUME IInv, DeliverLoad
  PROVE  IInv' /\ NotLeft
<1>1. Types /\ Stream /\ Asked /\ Replica /\ SelectionConsistent
  BY DEF IInv, Types
<1>2. UNCHANGED <<log, events, replies, windowed, subscribed, cursor, rprojects, nav,
                  boot, merges, searches>>
  BY DEF DeliverLoad, net, preload, queries
<1>3. PICK l \in loads, failed \in BOOLEAN, selects \in BOOLEAN :
        /\ l.at # None
        /\ ~Exists(DbAt(l.at)[l.s]) => failed
        /\ Fault(failed /\ Exists(DbAt(l.at)[l.s]))
        /\ IF failed THEN UNCHANGED sess ELSE InstallSession(l.s, DbAt(l.at)[l.s])
        /\ selects => Live(sess'[l.s])
        /\ loads' = (loads \ {l}) \cup (IF selects THEN {Load(l.s)} ELSE {})
        /\ selProj' = IF selects THEN ProjectOf[l.s] ELSE selProj
        /\ selSess' = IF selects THEN l.s ELSE selSess
  BY DEF DeliverLoad
<1> DEFINE s == l.s
           r == DbAt(l.at)[l.s]
<1>4. s \in Sessions /\ r \in Records /\ sess \in Dbs /\ l \in Loads
  BY <1>1, <1>3, DbTyped DEF Asked, Loads, Read, Stream, Replica, Dbs
<1>5. faults' \in Nat /\ (faults' = 0 => faults = 0) /\ (failed => faults' # faults \/ ~Exists(r))
  BY <1>1, <1>3 DEF Fault, Stream
<1>6. /\ sess' \in Dbs /\ \A q \in Sessions : Cached(sess, q) => Cached(sess', q)
      /\ \A q \in Sessions \ {s} : sess'[q] = sess[q]
  <2>1. CASE failed
    BY <1>3, <1>4, <2>1
  <2>2. CASE ~failed
    <3>1. InstallSession(s, r) /\ Exists(r)
      BY <1>3, <2>2
    <3> HIDE DEF s, r
    <3> QED
      BY <1>1, <1>4, <3>1, Installed
  <2> QED
    BY <2>1, <2>2
<1>7. Boots' = Boots /\ Loads' = Loads /\ Merges' = Merges
  BY <1>2 DEF Boots, Loads, Merges, Read
<1>8. Replica'
  <2>1. ProjectOf[s] \in Projects
    BY <1>4, SessionsAssumption
  <2> QED
    BY <1>1, <1>2, <1>3, <1>4, <1>6, <2>1 DEF Replica, Read
<1>9. Asked'
  <2>1. Load(s) \in Loads
    BY <1>4 DEF Load, Loads, Read
  <2> QED
    BY <1>1, <1>2, <1>3, <1>7, <2>1 DEF Asked
<1>10. NotLeft
  <2>0. Load(s).at = None /\ Load(s) # l /\ (selects => Load(s) \in loads')
    BY <1>3 DEF Load
  <2>1. ASSUME NEW q \in Sessions, q # s PROVE Adrift(q)' => Adrift(q)
    <3>1. Reloads(q) \subseteq Reloads(q)' /\ sess'[q] = sess[q]
      BY <1>2, <1>3, <1>6, <2>1 DEF Reloads
    <3> QED
      BY <1>2, <3>1, Unmoved
  <2>2. Adrift(s)' => Adrift(s) \/ Excused(s)
    <3>1. l \in Reloads(s) /\ boot' # l
      BY <1>1, <1>2, <1>3, LoadsDiffer DEF Reloads
    <3>2. l \notin Reloads(s)' /\ Reloads(s) \ {l} \subseteq Reloads(s)'
      BY <1>2, <1>3, <2>0, <3>1 DEF Reloads
    <3>3. \/ Exists(r) /\ InstallSession(s, r)
          \/ faults' # faults \/ ~Exists(r)
      BY <1>3, <1>5
    <3> QED
      BY <1>1, <1>2, <1>3, <1>4, <3>1, <3>2, <3>3, Taken DEF IInv
  <2> QED
    BY <2>1, <2>2 DEF NotLeft
<1>11. SelectionConsistent'
  BY <1>1, <1>2, <1>3, <1>4, <1>6 DEF SelectionConsistent, Replica, Live, Cached
<1> QED
  BY <1>1, <1>2, <1>5, <1>8, <1>9, <1>10, <1>11, QuietStep

LEMMA UserStep ==
  ASSUME IInv,
         \/ \E s \in Sessions : SelectSession(s)
         \/ \E p \in Projects : SelectProject(p) \/ BeginDraft(p)
  PROVE  IInv' /\ NotLeft
<1>1. Types /\ Stream /\ Asked /\ Replica
  BY DEF IInv, Types
<1>2. /\ UNCHANGED <<log, faults, events, replies, windowed, subscribed, cursor, rprojects, sess,
                     boot, merges, searches>>
      /\ nav' = nav + 1
      /\ selProj' \in Projects \cup {None} /\ selSess' \in Sessions \cup {None}
      /\ selSess' # None => Cached(sess, selSess') /\ ProjectOf[selSess'] = selProj'
      /\ loads' \subseteq Loads /\ loads \subseteq loads'
  <2>0. Loads' = Loads /\ loads \subseteq Loads
    <3>1. log' = log
      BY DEF SelectSession, SelectProject, BeginDraft, backend
    <3> QED
      BY <1>1, <3>1 DEF Asked, Loads, Read
  <2>1. CASE \E s \in Sessions : SelectSession(s)
    <3>1. PICK s \in Sessions : SelectSession(s)
      BY <2>1
    <3>2. ProjectOf[s] \in Projects
      BY SessionsAssumption
    <3>3. Load(s) \in Loads /\ LoadToSelect(s, nav + 1) \in Loads
      BY <1>1 DEF Load, LoadToSelect, Loads, Read, Replica
    <3>4. /\ UNCHANGED <<log, faults, events, replies, windowed, subscribed, cursor, rprojects, sess,
                         boot, merges, searches>>
          /\ nav' = nav + 1
      BY <3>1 DEF SelectSession, backend, net, preload, cache, queries
    <3>5. \/ /\ Live(sess[s]) /\ selProj' = ProjectOf[s] /\ selSess' = s
             /\ loads' = loads \cup {Load(s)}
          \/ UNCHANGED <<selProj, selSess>> /\ loads' = loads \cup {LoadToSelect(s, nav + 1)}
          \/ UNCHANGED <<selProj, selSess, loads>>
      BY <3>1 DEF SelectSession, StartLoad, Ask
    <3>6. selSess # None => Cached(sess, selSess) /\ ProjectOf[selSess] = selProj
      BY DEF IInv, SelectionConsistent
    <3> QED
      BY <1>1, <2>0, <3>2, <3>3, <3>4, <3>5, <3>6 DEF Replica, Live, Cached
  <2>2. CASE \E p \in Projects : SelectProject(p)
    <3>1. PICK p \in Projects : SelectProject(p)
      BY <2>2
    <3>2. PICK f \in Fallback(sess, p) : selSess' = f /\ StartLoadIfAny(f)
      BY <3>1 DEF SelectProject
    <3>3. f # None => f \in Sessions /\ Cached(sess, f) /\ ProjectOf[f] = p
      BY FallbackFits
    <3>4. UNCHANGED log
      BY <3>1 DEF SelectProject, backend
    <3>5. loads' \subseteq Loads' /\ loads \subseteq loads'
      BY <1>1, <3>2, <3>3, <3>4, LoadStarted
    <3> QED
      BY <2>0, <3>1, <3>2, <3>3, <3>5 DEF SelectProject, backend, net, preload, cache, queries
  <2>3. CASE \E p \in Projects : BeginDraft(p)
    BY <2>0, <2>3 DEF BeginDraft, backend, net, preload, cache, queries
  <2> QED
    BY <2>1, <2>2, <2>3
<1>3. Boots' = Boots /\ Loads' = Loads /\ Merges' = Merges
  BY <1>2 DEF Boots, Loads, Merges, Read
<1>5. Replica'
  BY <1>1, <1>2 DEF Replica, Read
<1>6. Asked'
  BY <1>1, <1>2, <1>3 DEF Asked
<1>7. NotLeft
  BY <1>2, AllUnmoved
<1>8. SelectionConsistent'
  BY <1>2 DEF SelectionConsistent
<1> QED
  BY <1>1, <1>2, <1>5, <1>6, <1>7, <1>8, QuietStep DEF Stream

LEMMA SearchStep ==
  ASSUME IInv, Search \/ AnswerMerge
  PROVE  IInv' /\ NotLeft
<1>1. Types /\ Stream /\ Asked /\ Replica /\ Len(log) \in Nat
  BY DEF IInv, Types, Stream
<1>2. UNCHANGED <<log, faults, events, replies, windowed, subscribed, cursor, rprojects, sess,
                  selProj, selSess, nav, boot, loads>>
  BY DEF Search, AnswerMerge, backend, net, preload, cache, choice
<1>3. merges' \subseteq Merges
  <2>1. CASE Search
    <3>1. [p |-> None, nav |-> nav, at |-> None] \in Merges
      BY <1>1 DEF Merges, Read, Replica
    <3> QED
      BY <1>1, <2>1, <3>1 DEF Search, Asked
  <2>2. CASE AnswerMerge
    <3>1. PICK m \in merges : merges' = (merges \ {m}) \cup {[m EXCEPT !.at = Sequence]}
      BY <2>2 DEF AnswerMerge
    <3>2. m \in Merges /\ Sequence \in Read
      BY <1>1, <3>1 DEF Asked, Read, Sequence
    <3>3. [m EXCEPT !.at = Sequence] \in Merges
      BY <3>2 DEF Merges
    <3> QED
      BY <1>1, <3>1, <3>3 DEF Asked
  <2> QED
    BY <2>1, <2>2
<1>4. Boots' = Boots /\ Loads' = Loads /\ Merges' = Merges
  BY <1>2 DEF Boots, Loads, Merges, Read
<1>5. Replica'
  BY <1>1, <1>2 DEF Replica, Read
<1>6. Asked'
  BY <1>1, <1>2, <1>3, <1>4 DEF Asked
<1>7. NotLeft
  BY <1>2, AllUnmoved
<1>8. SelectionConsistent'
  BY <1>2 DEF IInv, SelectionConsistent
<1> QED
  BY <1>1, <1>2, <1>5, <1>6, <1>7, <1>8, QuietStep DEF Stream

LEMMA DeliverMergeStep ==
  ASSUME IInv, DeliverMerge
  PROVE  IInv' /\ NotLeft
<1>1. Types /\ Stream /\ Asked /\ Replica /\ SelectionConsistent /\ log \in Seq(Commits)
  BY DEF IInv, Types, Stream
<1>2. UNCHANGED <<log, events, replies, windowed, subscribed, cursor, rprojects, selProj, nav,
                  boot, searches>>
  BY DEF DeliverMerge, net, preload
<1> DEFINE of(m) == {s \in Sessions : Live(DbAt(m.at)[s]) /\ m.p \in {None, ProjectOf[s]}}
           Merge(m, hits) ==
             /\ m.at # None
             /\ merges' = merges \ {m}
             /\ Fault(m.p # None /\ hits = {} /\ of(m) # {})
             /\ sess' = [s \in Sessions |-> IF s \in hits THEN DbAt(m.at)[s] ELSE sess[s]]
             /\ IF m.p = None THEN UNCHANGED <<selSess, loads>>
                ELSE \E f \in (IF m.nav = nav /\ selProj = m.p
                               THEN IF hits = {} THEN {None} ELSE hits ELSE {selSess}) :
                        selSess' = f /\ StartLoadIfAny(f)
<1>m. PICK m \in merges : \E hits \in SUBSET of(m) : Merge(m, hits)
  BY Zenon DEF DeliverMerge
<1>h. PICK hits \in SUBSET of(m) : Merge(m, hits)
  BY <1>m
<1>3. Merge(m, hits)
  BY <1>h
<1>4. DbAt(m.at) \in Dbs /\ sess \in Dbs
  BY <1>1, <1>3, DbTyped DEF Asked, Merges, Read, Replica
<1>5. /\ sess' \in Dbs
      /\ \A s \in Sessions : Cached(sess, s) \/ s \in hits => Cached(sess', s)
  BY <1>3, <1>4 DEF Dbs, Live, Cached
<1>6. \A f \in hits : f \in Sessions /\ (m.p # None => ProjectOf[f] = m.p)
  BY <1>h
<1> HIDE DEF of
<1>7. faults' \in Nat /\ (faults' = 0 => faults = 0)
  BY <1>1, <1>3 DEF Fault, Stream
<1>8. /\ selSess' \in Sessions \cup {None} /\ loads' \subseteq Loads' /\ SelectionConsistent'
      /\ loads \subseteq loads'
  <2>1. CASE m.p = None
    BY <1>1, <1>2, <1>3, <1>5, <2>1 DEF SelectionConsistent, Replica, Asked, Loads, Read
  <2>2. CASE m.p # None
    <3>1. PICK f \in (IF m.nav = nav /\ selProj = m.p
                      THEN IF hits = {} THEN {None} ELSE hits ELSE {selSess}) :
                 selSess' = f /\ StartLoadIfAny(f)
      BY <1>3, <2>2
    <3>2. /\ f \in Sessions \cup {None}
          /\ f # None => Cached(sess', f) /\ ProjectOf[f] = selProj
      <4>1. CASE m.nav = nav /\ selProj = m.p
        BY <1>5, <1>6, <2>2, <3>1, <4>1
      <4>2. CASE ~(m.nav = nav /\ selProj = m.p)
        BY <1>1, <1>5, <3>1, <4>2 DEF SelectionConsistent, Replica
      <4> QED
        BY <4>1, <4>2
    <3>3. loads' \subseteq Loads' /\ loads \subseteq loads'
      BY <1>1, <1>2, <3>1, <3>2, LoadStarted
    <3> QED
      BY <1>2, <3>1, <3>2, <3>3 DEF SelectionConsistent
  <2> QED
    BY <2>1, <2>2
<1>9. Boots' = Boots /\ Loads' = Loads /\ Merges' = Merges
  BY <1>2 DEF Boots, Loads, Merges, Read
<1>10. Replica'
  BY <1>1, <1>2, <1>5, <1>8 DEF Replica, Read
<1>11. Asked'
  BY <1>1, <1>2, <1>3, <1>8, <1>9 DEF Asked
<1>12. NotLeft
  <2>1. ASSUME NEW s \in Sessions, sess'[s] = sess[s] PROVE Adrift(s)' => Adrift(s)
    BY <1>2, <1>8, <2>1, ReloadsGrow, Unmoved
  <2>2. ASSUME NEW s \in Sessions, sess'[s] # sess[s] PROVE Excused(s)
    BY <1>3, <2>2 DEF Excused, Merged
  <2> QED
    BY <2>1, <2>2 DEF NotLeft
<1> QED
  BY <1>1, <1>2, <1>7, <1>8, <1>10, <1>11, <1>12, QuietStep

LEMMA NextIInv ==
  ASSUME IInv, [Next]_vars
  PROVE  IInv' /\ NotLeft
<1>1. CASE UNCHANGED vars
  <2>1. Types /\ Stream /\ Asked /\ Replica
    BY DEF IInv, Types
  <2>2. UNCHANGED <<log, faults, events, replies, windowed, subscribed, cursor, rprojects, sess,
                    selProj, selSess, nav, boot, loads, merges, searches>>
    BY <1>1 DEF vars, backend, net, preload, renderer, cache, choice, queries
  <2>3. Replica' /\ Asked'
    BY <2>1, <2>2 DEF Replica, Asked, Boots, Loads, Merges, Read
  <2>4. NotLeft
    BY <2>2, AllUnmoved
  <2>5. SelectionConsistent'
    BY <2>2 DEF IInv, SelectionConsistent
  <2> QED
    BY <2>1, <2>2, <2>3, <2>4, <2>5, QuietStep DEF Stream
<1>2. CASE Command
  BY <1>2, CommandStep
<1>3. CASE DeliverEvent
  BY <1>3, EventStep
<1>4. CASE DeliverReply
  BY <1>4, ReplyStep
<1>5. CASE Subscribe
  BY <1>5, SubscribeStep
<1>6. CASE AnswerBootstrap
  BY <1>6, AnswerBootstrapStep
<1>7. CASE DeliverBootstrap
  BY <1>7, DeliverBootstrapStep
<1>8. CASE AnswerBootLoad
  BY <1>8, AnswerBootLoadStep
<1>9. CASE DeliverBootLoad
  BY <1>9, DeliverBootLoadStep
<1>10. CASE AnswerLoad
  BY <1>10, AnswerLoadStep
<1>11. CASE DeliverLoad
  BY <1>11, DeliverLoadStep
<1>12. CASE \/ \E s \in Sessions : SelectSession(s)
            \/ \E p \in Projects : SelectProject(p) \/ BeginDraft(p)
  BY <1>12, UserStep
<1>13. CASE Search \/ AnswerMerge
  BY <1>13, SearchStep
<1>14. CASE DeliverMerge
  BY <1>14, DeliverMergeStep
<1> QED
  BY <1>1, <1>2, <1>3, <1>4, <1>5, <1>6, <1>7, <1>8, <1>9, <1>10, <1>11, <1>12, <1>13, <1>14 DEF Next, BootstrapStep

------------------------------------------------------------------------------
(* The theorems. *)

\* Every database the log holds, every record the replica caches and every query on its way has
\* its type, and a commit names the Session it makes newer.
THEOREM StreamIsTyped == Spec => []Types
<1>1. Init => IInv
  BY InitIInv
<1>2. IInv /\ [Next]_vars => IInv'
  BY NextIInv
<1>3. IInv => Types
  BY DEF IInv
<1> QED
  BY <1>1, <1>2, <1>3, PTL DEF Spec

\* What the user looks at can be relied on (agent-replica.ts): the selected Session is cached and
\* of the selected Project, through archive, removal, resync and navigation in any order; and a
\* replica with nothing in flight that no push or query failed is up to date, or the newest
\* commit reached it while a snapshot was being taken.
THEOREM ViewsAreSound == Spec => []ViewIsSound
<1>1. Init => IInv
  BY InitIInv
<1>2. IInv /\ [Next]_vars => IInv'
  BY NextIInv
<1>3. IInv => ViewIsSound
  <2>1. ASSUME IInv, Quiet, faults = 0 PROVE cursor = Sequence \/ Sequence \in windowed
    <3>1. /\ events = <<>> /\ subscribed /\ boot = Idle /\ Idle.ph = "idle"
          /\ Len(log) \in Nat /\ cursor \in (0..Len(log)) \cup {None}
      BY <2>1 DEF Quiet, IInv, Types, Stream, Replica, Read, Idle
    <3>2. Len(events) = 0 /\ Delivered = Len(log)
      BY <3>1 DEF Delivered
    <3>3. cursor # None /\ (cursor >= Delivered \/ Delivered \in windowed)
      BY <2>1, <3>1 DEF IInv, Chased
    <3> QED
      BY <3>1, <3>2, <3>3 DEF Sequence
  <2> QED
    BY <2>1 DEF IInv, ViewIsSound, LagExplained
<1> QED
  BY <1>1, <1>2, <1>3, PTL DEF Spec

\* A cached Session is left behind the cursor, with no session:get under way that brings it up to
\* date, only by a list or search answer, by a session:get answer for a record that is not cached
\* any more, or by a reload that fails: never by a commit, a gap, a resync, a navigation or loads
\* that cross (reconcile, performBootstrap and loadSession of agent-replica.ts).
THEOREM CachesKeepUp == Spec => NeverLeftBehind
<1>1. Init => IInv
  BY InitIInv
<1>2. IInv /\ [Next]_vars => IInv'
  BY NextIInv
<1>3. IInv /\ [Next]_vars => [NotLeft]_vars
  BY NextIInv
<1>4. NotLeft <=> \A s \in Sessions : Adrift(s)' =>
                     Adrift(s) \/ Merged(s) \/ UnaskedAnswer(s) \/ FailedReload(s)
  BY DEF NotLeft, Excused
<1> QED
  BY <1>1, <1>2, <1>3, <1>4, PTL DEF Spec, NeverLeftBehind

=============================================================================
