---------------------------- MODULE Store_proofs ----------------------------
(* Proofs about AdapterStore: for any slots, repositories, threads and operations, *)
(* as long as the threads take turns at the manifest, what a turn would bind is in *)
(* the inventory, and nothing automatic takes a live slot over.                    *)
EXTENDS MCAdapters, TLAPS

-----------------------------------------------------------------------------
(* The invariant: what a manifest is, on the disk and in a thread's copy.          *)

\* read_manifest succeeds on it.
Readable(m) == m \notin {Absent, Torn}

\* A record: one that comes from a repository says installed.
Entry(r) ==
  /\ r.cap \in Caps /\ r.repo \in Repos \cup {None} /\ r.installed \in BOOLEAN
  /\ r.repo # None => r.installed

\* The inventory and the defaults.  What has a repository's id is that repository's, by its
\* directory or by its record.
Stored(m) ==
  /\ DOMAIN m = {"inventory", "default", "active", "based"}
  /\ DOMAIN m.default \subseteq Caps
  /\ DOMAIN m.inventory \subseteq Registry!Dirs
  /\ \A i \in DOMAIN m.inventory :
       /\ Entry(m.inventory[i])
       /\ i \in Repos => m.inventory[i].dir = i \/ m.inventory[i].repo = i

\* The active view.
Viewed(m) == DOMAIN m.active \subseteq Caps /\ \A c \in DOMAIN m.active : Entry(m.active[c])

\* What slot c binds is its default, or another record of the default's repository.
Stands(m, c) ==
  LET i == m.default[c] IN
  /\ c \in DOMAIN m.default /\ i \in DOMAIN m.inventory /\ m.inventory[i].installed
  /\ m.inventory[i] = m.active[c] \/ (m.inventory[i].repo = i /\ m.active[c].repo = i)

\* A manifest as a thread holds it.
Sound(m) ==
  /\ Stored(m) /\ Viewed(m)
  /\ \A c \in DOMAIN m.default : m.default[c] \in DOMAIN m.inventory
  /\ \A c \in DOMAIN m.active : m.active[c].installed => Stands(m, c)

\* A manifest as a file may hold it: one without an inventory becomes sound when it is read.
Filed(m) ==
  /\ Stored(m) /\ Viewed(m)
  /\ IF DOMAIN m.inventory = {} THEN DOMAIN m.default = {} ELSE Sound(m)

\* The copy v of the manifest m, slot by slot where m says installed: still installed, the
\* same adapter, the same record or repository, or nothing changed at all.
Twin(r, q) == r = q \/ (r.repo # None /\ r.repo = q.repo)
Carries(m, v) ==
  \A c \in DOMAIN m.active : m.active[c].installed =>
    c \in DOMAIN v.active /\ v.active[c].installed
Same(m, v) ==
  \A c \in DOMAIN m.active : m.active[c].installed =>
    Registry!SameAdapter(m.active[c], v.active[c])
Twins(m, v) ==
  \A c \in DOMAIN m.active : m.active[c].installed => Twin(m.active[c], v.active[c])
Untouched(m, v) ==
  \A c \in DOMAIN m.active : m.active[c].installed =>
    c \in DOMAIN v.active /\ v.active[c] = m.active[c]

\* What a thread k that works on the manifest m knows, by the step it is about to take.
Work(k, m) ==
  /\ DOMAIN k = {"pc", "op", "dir", "cap", "copy", "left", "dirty"}
  /\ k.pc \in {"fetch", "verify", "register"} => k.op = "install" /\ k.dir \in Repos
  /\ k.pc = "register" => k.cap \in Caps
  /\ k.pc \in {"clear", "clear_save", "place"} =>
       k.dir \in Registry!Dirs /\ k.cap \in Caps \cup {None}
  /\ k.pc \in {"clear_save", "save_user"} => Filed(k.copy)
  /\ k.pc = "read" => k.op \in {"scan", "laya"}
  /\ k.pc = "walk" =>
       /\ k.op \in {"scan", "laya"} /\ k.left \subseteq Registry!Dirs /\ Sound(k.copy)
       /\ Readable(m) /\ Carries(m, k.copy)
       /\ k.op = "laya" => Twins(m, k.copy)
  /\ k.pc = "sweep" =>
       /\ k.left \subseteq Caps /\ Filed(k.copy) /\ DOMAIN k.copy.inventory = {}
       /\ Readable(m) => Untouched(m, k.copy)
  /\ k.pc = "save" =>
       /\ Filed(k.copy)
       /\ Readable(m) => Carries(m, k.copy)
       /\ Readable(m) /\ k.op # "scan" => Same(m, k.copy)

\* The inductive invariant.
StoreInv ==
  /\ Readable(manifest) => Filed(manifest)
  /\ source \subseteq Repos
  /\ DOMAIN actor = Actors
  /\ \A a \in Actors : Work(actor[a], manifest)

\* The threads take turns.
OneWriter == \A a, b \in Actors : actor[a].pc = "idle" \/ actor[b].pc = "idle" \/ a = b

-----------------------------------------------------------------------------
(* The operators.                                                                  *)

\* rebuild_active_bindings makes a sound manifest of any, and keeps every default it can.
LEMMA RebuiltIsSound ==
  ASSUME NEW m, Stored(m)
  PROVE  LET n == Registry!Rebuild(m) IN
         /\ Sound(n) /\ n.inventory = m.inventory
         /\ \A c \in DOMAIN m.default : m.default[c] \in DOMAIN m.inventory =>
              /\ c \in DOMAIN n.default /\ n.default[c] = m.default[c]
              /\ c \in DOMAIN n.active /\ n.active[c] = m.inventory[m.default[c]]
<1> DEFINE kept == {c \in DOMAIN m.default : m.default[c] \in DOMAIN m.inventory}
           d == [c \in kept |-> m.default[c]]
           v == [c \in kept |-> m.inventory[m.default[c]]]
<1>1. PICK n : n = Registry!Rebuild(m)
  OBVIOUS
<1>2. n = [m EXCEPT !.default = d, !.active = v]
  BY <1>1 DEF Registry!Rebuild
<1> HIDE DEF d, v
<1>3. DOMAIN n = DOMAIN m /\ n.inventory = m.inventory /\ n.default = d /\ n.active = v
  BY <1>2 DEF Stored
<1>4. DOMAIN d = kept /\ DOMAIN v = kept
  BY DEF d, v
<1>5. \A c \in kept : d[c] = m.default[c] /\ v[c] = m.inventory[m.default[c]]
  BY DEF d, v
<1>6. Stored(n)
  BY <1>3, <1>4 DEF Stored
<1>7. Viewed(n)
  BY <1>3, <1>4, <1>5 DEF Stored, Viewed
<1>8. \A c \in DOMAIN n.active : n.active[c].installed => Stands(n, c)
  BY <1>3, <1>4, <1>5 DEF Stands
<1>9. \A c \in DOMAIN n.default : n.default[c] \in DOMAIN n.inventory
  BY <1>3, <1>4, <1>5
<1>10. Sound(n)
  BY <1>6, <1>7, <1>8, <1>9 DEF Sound
<1> QED BY <1>1, <1>3, <1>4, <1>5, <1>10

\* read_manifest: reading a file yields a sound manifest with the file's active view.
LEMMA ReadIsSound ==
  ASSUME Registry!DistinctAssumption, NEW m, Filed(m), NEW v \in Registry!Migrations(m)
  PROVE  Sound(v) /\ v.active = m.active
<1>1. CASE v = m /\ DOMAIN m.inventory # {}
  BY <1>1 DEF Filed
<1>2. CASE v = m /\ DOMAIN m.active = {}
  BY <1>2 DEF Filed, Sound
<1>3. CASE ~(DOMAIN m.inventory # {} \/ DOMAIN m.active = {})
  <2> DEFINE id == [c \in DOMAIN m.active |-> Registry!IdFor(m.active[c], c)]
             ids == {id[c] : c \in DOMAIN id}
  <2>1. PICK keep \in [ids -> DOMAIN id] :
          /\ \A i \in ids : id[keep[i]] = i
          /\ v = [m EXCEPT !.inventory = [i \in ids |-> m.active[keep[i]]],
                           !.default = Registry!Over(id, m.default)]
    BY <1>3 DEF Registry!Migrations
  <2>2. DOMAIN m.inventory = {} /\ DOMAIN m.default = {} /\ Stored(m) /\ Viewed(m)
    BY <1>3 DEF Filed
  <2> DEFINE inv == [i \in ids |-> m.active[keep[i]]]
             def == Registry!Over(id, m.default)
  <2>3. DOMAIN id = DOMAIN m.active
    OBVIOUS
  <2>4. DOMAIN def = DOMAIN m.active /\ \A c \in DOMAIN m.active : def[c] = id[c]
    BY <2>2, <2>3 DEF Registry!Over
  <2>5. \A c \in DOMAIN m.active :
          /\ c \in Caps /\ Entry(m.active[c])
          /\ id[c] = IF m.active[c].repo # None THEN m.active[c].repo ELSE c
    BY <2>2 DEF Viewed, Registry!IdFor
  <2> HIDE DEF id
  <2>6. \A c \in DOMAIN m.active : id[c] \in ids
    BY <2>3
  <2>7. \A i \in ids : keep[i] \in DOMAIN m.active /\ id[keep[i]] = i /\ inv[i] = m.active[keep[i]]
    BY <2>1, <2>3
  <2>8. DOMAIN inv = ids
    OBVIOUS
  <2> HIDE DEF inv, def
  <2>9. DOMAIN v = DOMAIN m /\ v.inventory = inv /\ v.default = def /\ v.active = m.active
    BY <2>1, <2>2 DEF Stored, inv, def
  <2>10. ids \subseteq Registry!Dirs
    BY <2>3, <2>5 DEF Entry, Registry!Dirs
  <2> HIDE DEF ids
  <2>11. \A i \in ids : i \in Repos => inv[i].repo = i
    BY <2>5, <2>7 DEF Entry, Registry!DistinctAssumption
  <2>12. \A c \in DOMAIN m.active :
           inv[id[c]] = m.active[c] \/ (inv[id[c]].repo = id[c] /\ m.active[c].repo = id[c])
    <3> SUFFICES ASSUME NEW c \in DOMAIN m.active
                 PROVE inv[id[c]] = m.active[c]
                       \/ (inv[id[c]].repo = id[c] /\ m.active[c].repo = id[c])
      OBVIOUS
    <3>1. CASE m.active[c].repo # None
      BY <2>5, <2>6, <2>11, <3>1 DEF Entry
    <3>2. CASE m.active[c].repo = None
      <4>1. id[c] = c /\ c \in ids /\ c \in Caps
        BY <2>5, <2>6, <3>2
      <4>2. keep[c] = c
        BY <4>1, <2>5, <2>7 DEF Entry, Registry!DistinctAssumption
      <4> QED BY <4>1, <4>2, <2>7
    <3> QED BY <3>1, <3>2
  <2>13. \A i \in ids : Entry(inv[i])
    BY <2>5, <2>7
  <2>14. \A c \in DOMAIN m.active : m.active[c].installed => inv[id[c]].installed
    <3> SUFFICES ASSUME NEW c \in DOMAIN m.active, m.active[c].installed
                 PROVE inv[id[c]].installed
      OBVIOUS
    <3>1. CASE inv[id[c]].repo = id[c]
      <4>1. id[c] # None
        BY <2>6, <2>10 DEF Registry!Dirs, Registry!DistinctAssumption
      <4> QED BY <3>1, <4>1, <2>6, <2>13 DEF Entry
    <3> QED BY <2>12, <3>1
  <2>15. Stored(v)
    BY <2>2, <2>4, <2>5, <2>8, <2>9, <2>10, <2>11, <2>13 DEF Stored
  <2>16. Viewed(v)
    BY <2>2, <2>9 DEF Viewed
  <2>17. \A c \in DOMAIN v.active : v.active[c].installed => Stands(v, c)
    BY <2>4, <2>6, <2>8, <2>9, <2>12, <2>14 DEF Stands
  <2>18. \A c \in DOMAIN v.default : v.default[c] \in DOMAIN v.inventory
    BY <2>4, <2>6, <2>8, <2>9
  <2> QED BY <2>9, <2>15, <2>16, <2>17, <2>18 DEF Sound
<1>4. v = m \/ ~(DOMAIN m.inventory # {} \/ DOMAIN m.active = {})
  BY DEF Registry!Migrations
<1> QED BY <1>1, <1>2, <1>3, <1>4

LEMMA SoundIsFiled == ASSUME NEW m, Sound(m) PROVE Filed(m)
  BY DEF Sound, Filed

\* register_installed: a slot that binds something still binds it, unless its default is the
\* very id that was registered.
LEMMA RegisterKeeps ==
  ASSUME Registry!DistinctAssumption, NEW m, Sound(m), NEW d \in Registry!Dirs, NEW r,
         Entry(r), r.installed, r.dir = d
  PROVE  LET n == Registry!Register(m, d, r) IN
         /\ Sound(n)
         /\ \A c \in DOMAIN m.active : m.active[c].installed =>
              /\ c \in DOMAIN n.active /\ n.active[c].installed
              /\ IF m.default[c] = d THEN n.active[c] = r ELSE Twin(m.active[c], n.active[c])
<1> DEFINE inv == Registry!Insert(m.inventory, d, r)
           def == Registry!OrInsert(m.default, r.cap, d)
           w == [m EXCEPT !.inventory = inv, !.default = def]
<1>1. PICK n : n = Registry!Register(m, d, r)
  OBVIOUS
<1>2. n = Registry!Rebuild(w)
  BY <1>1 DEF Registry!Register
<1>3. /\ DOMAIN inv = DOMAIN m.inventory \cup {d}
      /\ \A i \in DOMAIN inv : inv[i] = IF i = d THEN r ELSE m.inventory[i]
  BY DEF Registry!Insert
<1>4. /\ DOMAIN def = DOMAIN m.default \cup {r.cap}
      /\ \A c \in DOMAIN m.default : def[c] = m.default[c]
  BY DEF Registry!OrInsert
<1> HIDE DEF inv, def
<1>5. DOMAIN w = DOMAIN m /\ w.inventory = inv /\ w.default = def
  BY DEF Sound, Stored
<1> HIDE DEF w
<1>6. Stored(w)
  <2>1. DOMAIN w = {"inventory", "default", "active", "based"} /\ DOMAIN w.default \subseteq Caps
    BY <1>4, <1>5 DEF Sound, Stored, Entry
  <2>2. DOMAIN w.inventory \subseteq Registry!Dirs
    BY <1>3, <1>5 DEF Sound, Stored
  <2>3. ASSUME NEW i \in DOMAIN w.inventory
        PROVE  /\ Entry(w.inventory[i])
               /\ i \in Repos => w.inventory[i].dir = i \/ w.inventory[i].repo = i
    <3>1. CASE i = d
      BY <3>1, <1>3, <1>5
    <3>2. CASE i # d
      BY <3>2, <1>3, <1>5 DEF Sound, Stored
    <3> QED BY <3>1, <3>2
  <2> QED BY <2>1, <2>2, <2>3 DEF Stored
<1>7. /\ Sound(n) /\ n.inventory = inv
      /\ \A c \in DOMAIN def : def[c] \in DOMAIN inv =>
           c \in DOMAIN n.active /\ n.active[c] = inv[def[c]]
  BY <1>2, <1>5, <1>6, RebuiltIsSound
<1>8. ASSUME NEW c \in DOMAIN m.active, m.active[c].installed
      PROVE  /\ c \in DOMAIN n.active /\ n.active[c].installed
             /\ IF m.default[c] = d THEN n.active[c] = r ELSE Twin(m.active[c], n.active[c])
  <2>1. PICK i : i = m.default[c]
    OBVIOUS
  <2>2. /\ c \in DOMAIN m.default /\ i \in DOMAIN m.inventory /\ m.inventory[i].installed
        /\ m.inventory[i] = m.active[c] \/ (m.inventory[i].repo = i /\ m.active[c].repo = i)
    BY <1>8, <2>1 DEF Sound, Stands
  <2>3. i # None
    BY <2>2 DEF Sound, Stored, Registry!Dirs, Registry!DistinctAssumption
  <2>4. c \in DOMAIN n.active /\ n.active[c] = inv[i]
    BY <1>3, <1>4, <1>7, <2>1, <2>2
  <2> QED BY <1>3, <2>1, <2>2, <2>3, <2>4 DEF Twin
<1> QED BY <1>1, <1>7, <1>8

\* Choosing a slot's default leaves a sound manifest, whatever was chosen.
LEMMA ChosenIsFiled ==
  ASSUME NEW m, Sound(m), NEW c \in Caps, NEW d
  PROVE  Filed(Registry!Rebuild([m EXCEPT !.default = Registry!Insert(m.default, c, d)]))
<1> DEFINE def == Registry!Insert(m.default, c, d)
           w == [m EXCEPT !.default = def]
<1>1. DOMAIN def = DOMAIN m.default \cup {c}
  BY DEF Registry!Insert
<1> HIDE DEF def
<1>2. DOMAIN w = DOMAIN m /\ w.inventory = m.inventory /\ w.default = def
  BY DEF Sound, Stored
<1> HIDE DEF w
<1>3. Stored(w)
  BY <1>1, <1>2 DEF Sound, Stored
<1>4. Filed(Registry!Rebuild(w))
  BY <1>3, RebuiltIsSound, SoundIsFiled
<1> QED BY <1>4 DEF w, def

\* Sorting a directory in: no slot is emptied, and Laya's pass, which leaves directories
\* with a record alone, changes no slot's adapter.
LEMMA RegisteredDir ==
  ASSUME Registry!DistinctAssumption, NEW m, Sound(m), source \subseteq Repos,
         NEW d \in Registry!Dirs, NEW infer \in [Repos -> Caps \cup {None}],
         NEW n \in Registry!RegisterDir(m, d, infer)
  PROVE  Sound(n) /\ Carries(m, n) /\ (~Registry!Sorted(m, d) => Twins(m, n))
<1> DEFINE own == Registry!OwnRecords(m, d)
           found == IF d \in source THEN d ELSE None
<1>1. found \in Repos \cup {None}
  OBVIOUS
<1>2. \A r \in own : Entry(r)
  BY DEF Registry!OwnRecords, Registry!PointInto, Sound, Stored, Viewed
<1>3. ASSUME own = {}, Registry!Claim(m, d, infer) # None
      PROVE Registry!Claim(m, d, infer) \in Caps
  BY <1>3 DEF Registry!Claim
<1>4. ~Registry!Sorted(m, d) => own = {}
  BY DEF Registry!OwnRecords, Registry!Sorted
<1>5. ASSUME ~Registry!Sorted(m, d), own = {}, Registry!Claim(m, d, infer) # None
      PROVE  d \notin DOMAIN m.inventory
  BY <1>5 DEF Registry!Sorted, Registry!PointInto, Registry!Claim
<1> HIDE DEF found
<1>6. PICK r : /\ n = Registry!Register(m, d, r) /\ Entry(r) /\ r.installed /\ r.dir = d
               /\ ~Registry!Sorted(m, d) => d \notin DOMAIN m.inventory
  <2>1. CASE own # {}
    <3>1. PICK q \in own :
            n = Registry!Register(m, d, Registry!Record(q.cap, d, IF q.repo # None THEN q.repo ELSE found))
      BY <2>1 DEF Registry!RegisterDir, found
    <3>2. PICK r : r = Registry!Record(q.cap, d, IF q.repo # None THEN q.repo ELSE found)
      OBVIOUS
    <3>3. Entry(r) /\ r.installed /\ r.dir = d
      BY <1>1, <1>2, <3>2 DEF Entry, Registry!Record
    <3> QED BY <2>1, <3>1, <3>2, <3>3, <1>4
  <2>2. CASE own = {}
    <3>1. /\ Registry!Claim(m, d, infer) # None
          /\ n = Registry!Register(m, d, Registry!Record(Registry!Claim(m, d, infer), d, found))
      BY <2>2 DEF Registry!RegisterDir, found
    <3>2. PICK r : r = Registry!Record(Registry!Claim(m, d, infer), d, found)
      OBVIOUS
    <3>3. Entry(r) /\ r.installed /\ r.dir = d
      BY <1>1, <1>3, <2>2, <3>1, <3>2 DEF Entry, Registry!Record
    <3> QED BY <2>2, <3>1, <3>2, <3>3, <1>5
  <2> QED BY <2>1, <2>2
<1>7. /\ Sound(n)
      /\ \A c \in DOMAIN m.active : m.active[c].installed =>
           /\ c \in DOMAIN n.active /\ n.active[c].installed
           /\ IF m.default[c] = d THEN n.active[c] = r ELSE Twin(m.active[c], n.active[c])
  BY <1>6, RegisterKeeps
<1>8. \A c \in DOMAIN m.active : m.active[c].installed => m.default[c] \in DOMAIN m.inventory
  BY DEF Sound, Stands
<1>9. Carries(m, n)
  BY <1>7 DEF Carries
<1>10. ~Registry!Sorted(m, d) => Twins(m, n)
  BY <1>6, <1>7, <1>8 DEF Twins
<1> QED BY <1>7, <1>9, <1>10

\* An install keeps every slot's adapter: what had the repository's id was the repository's.
LEMMA InstallKeeps ==
  ASSUME Registry!DistinctAssumption, NEW m, Sound(m), NEW d \in Repos, NEW c \in Caps
  PROVE  LET n == Registry!Register(m, d, Registry!Record(c, d, d)) IN
         Sound(n) /\ Carries(m, n) /\ Same(m, n)
<1>1. PICK r : r = Registry!Record(c, d, d)
  OBVIOUS
<1>2. Entry(r) /\ r.installed /\ r.dir = d /\ r.repo = d /\ d # None /\ d \in Registry!Dirs
  BY <1>1 DEF Entry, Registry!Record, Registry!Dirs, Registry!DistinctAssumption
<1>3. PICK n : n = Registry!Register(m, d, r)
  OBVIOUS
<1>4. /\ Sound(n)
      /\ \A s \in DOMAIN m.active : m.active[s].installed =>
           /\ s \in DOMAIN n.active /\ n.active[s].installed
           /\ IF m.default[s] = d THEN n.active[s] = r ELSE Twin(m.active[s], n.active[s])
  BY <1>2, <1>3, RegisterKeeps
<1>5. ASSUME NEW s \in DOMAIN m.active, m.active[s].installed
      PROVE  Registry!SameAdapter(m.active[s], n.active[s])
  <2>1. CASE m.default[s] = d
    <3>1. d \in DOMAIN m.inventory /\ (m.inventory[d] = m.active[s] \/ m.active[s].repo = d)
      BY <1>5, <2>1 DEF Sound, Stands
    <3>2. m.active[s].dir = d \/ m.active[s].repo = d
      BY <3>1 DEF Sound, Stored
    <3> QED BY <1>2, <1>4, <1>5, <2>1, <3>2 DEF Registry!SameAdapter
  <2>2. CASE m.default[s] # d
    BY <1>4, <1>5, <2>2 DEF Twin, Registry!SameAdapter
  <2> QED BY <2>1, <2>2
<1>6. Carries(m, n) /\ Same(m, n)
  BY <1>4, <1>5 DEF Carries, Same
<1> QED BY <1>1, <1>3, <1>4, <1>6

\* write_manifest only puts back what does not say installed, so that what the inventory and
\* the view say of each other stays true.
LEMMA ProtectedIsFiled ==
  ASSUME Readable(manifest) => Filed(manifest), NEW m, Filed(m),
         Readable(manifest) => Carries(manifest, m)
  PROVE  LET p == Registry!Protected(m) IN
         /\ Filed(p)
         /\ Readable(manifest) =>
              \A c \in DOMAIN manifest.active : manifest.active[c].installed =>
                c \in DOMAIN p.active /\ p.active[c] = m.active[c] /\ p.active[c].installed
<1> DEFINE old == IF Registry!Unreadable THEN Registry!Empty ELSE manifest.active
           back == {c \in DOMAIN old :
                      /\ disk[c] # "none"
                      /\ c \in DOMAIN m.active => ~m.active[c].installed}
           over == Registry!Over([c \in back |-> old[c]], m.active)
<1>1. PICK p : p = Registry!Protected(m)
  OBVIOUS
<1>2. p = [m EXCEPT !.active = over]
  BY <1>1 DEF Registry!Protected
<1>3. /\ DOMAIN over = back \cup DOMAIN m.active
      /\ \A c \in DOMAIN over : over[c] = IF c \in back THEN old[c] ELSE m.active[c]
  BY DEF Registry!Over
<1> HIDE DEF over
<1>4. /\ DOMAIN p = DOMAIN m /\ p.inventory = m.inventory /\ p.default = m.default
      /\ p.active = over
  BY <1>2 DEF Filed, Stored
<1>5. \A c \in DOMAIN old : c \in Caps /\ Entry(old[c])
  BY DEF Registry!Unreadable, Registry!Empty, Readable, Filed, Viewed
<1>6. \A c \in DOMAIN old : old[c].installed => c \in DOMAIN m.active /\ m.active[c].installed
  BY DEF Registry!Unreadable, Registry!Empty, Readable, Carries
<1>7. \A c \in back : c \in DOMAIN old /\ ~old[c].installed
  BY <1>6
<1>8. Readable(manifest) => old = manifest.active
  BY DEF Registry!Unreadable, Readable
<1> HIDE DEF old, back
<1>9. Stored(p)
  BY <1>4 DEF Filed, Stored
<1>10. Viewed(p)
  BY <1>3, <1>4, <1>5, <1>7 DEF Filed, Viewed
<1>11. ASSUME Sound(m) PROVE Sound(p)
  <2>1. \A c \in DOMAIN p.active : p.active[c].installed => Stands(p, c)
    BY <1>3, <1>4, <1>7, <1>11 DEF Sound, Stands
  <2> QED BY <1>4, <1>9, <1>10, <1>11, <2>1 DEF Sound
<1>12. Filed(p)
  BY <1>4, <1>9, <1>10, <1>11 DEF Filed
<1>13. ASSUME Readable(manifest), NEW c \in DOMAIN manifest.active, manifest.active[c].installed
       PROVE  c \in DOMAIN p.active /\ p.active[c] = m.active[c] /\ p.active[c].installed
  BY <1>3, <1>4, <1>6, <1>7, <1>8, <1>13
<1> QED BY <1>1, <1>12, <1>13

-----------------------------------------------------------------------------
(* The steps.                                                                        *)

\* A thread's fields; only thread a moves.
Fields == {"pc", "op", "dir", "cap", "copy", "left", "dirty"}
Alone(a) == DOMAIN actor' = Actors /\ \A b \in Actors : b # a => actor'[b] = actor[b]

\* A step of one thread keeps the invariant when it leaves that thread and the file well:
\* the file changes only under a thread that works, and then the others rest.
LEMMA OneMoves ==
  ASSUME StoreInv, OneWriter, NEW a \in Actors, Alone(a), Work(actor'[a], manifest'),
         Readable(manifest') => Filed(manifest'), source' \subseteq Repos,
         manifest' = manifest \/ actor[a].pc # "idle"
  PROVE  StoreInv'
<1>1. ASSUME NEW b \in Actors PROVE Work(actor'[b], manifest')
  <2>1. CASE b = a
    BY <2>1
  <2>2. CASE b # a /\ manifest' = manifest
    BY <2>2 DEF StoreInv, Alone
  <2>3. CASE b # a /\ actor[a].pc # "idle"
    <3>1. actor'[b] = actor[b] /\ actor[b].pc = "idle" /\ Work(actor[b], manifest)
      BY <2>3 DEF StoreInv, OneWriter, Alone
    <3> QED BY <3>1 DEF Work
  <2> QED BY <2>1, <2>2, <2>3
<1> QED BY <1>1 DEF StoreInv, Alone

\* What the threads' helpers set.
LEMMA RestingIs ==
  ASSUME NEW op
  PROVE  LET k == Registry!Resting(op) IN
         /\ DOMAIN k = Fields /\ k.pc = "idle" /\ k.op = op /\ k.dir = None /\ k.cap = None
         /\ k.copy = Registry!NoCopy /\ k.left = {} /\ \A m : Work(k, m)
  BY DEF Registry!Resting, Work, Fields

LEMMA FinishIs ==
  ASSUME StoreInv, NEW a \in Actors, Registry!Finish(a) \/ Registry!GiveUp(a)
  PROVE  Alone(a) /\ \A m : Work(actor'[a], m)
<1>1. PICK op : actor' = [actor EXCEPT ![a] = Registry!Resting(op)]
  BY DEF Registry!Finish, Registry!GiveUp
<1> QED BY <1>1, RestingIs DEF StoreInv, Alone

LEMMA BeginIs ==
  ASSUME StoreInv, NEW a \in Actors, NEW op, NEW at, NEW d, NEW c, Registry!Begin(a, op, at, d, c)
  PROVE  LET k == actor'[a] IN
         /\ Alone(a) /\ DOMAIN k = Fields /\ k.pc = at /\ k.op = op /\ k.dir = d /\ k.cap = c
         /\ k.left = {} /\ manifest' = manifest /\ source' = source
<1>1. PICK k : k = [Registry!Resting(op) EXCEPT !.pc = at, !.dir = d, !.cap = c]
  OBVIOUS
<1>2. actor' = [actor EXCEPT ![a] = k] /\ manifest' = manifest /\ source' = source
  BY <1>1 DEF Registry!Begin, Registry!files
<1>3. DOMAIN k = Fields /\ k.pc = at /\ k.op = op /\ k.dir = d /\ k.cap = c /\ k.left = {}
  BY <1>1 DEF Registry!Resting, Fields
<1> QED BY <1>2, <1>3 DEF StoreInv, Alone

LEMMA HoldIs ==
  ASSUME StoreInv, NEW a \in Actors, NEW at, NEW m, Registry!Hold(a, at, m)
  PROVE  LET k == actor'[a] IN
         /\ Alone(a) /\ DOMAIN k = Fields /\ k.pc = at /\ k.copy = m /\ k.op = actor[a].op
         /\ k.dir = actor[a].dir /\ k.cap = actor[a].cap
<1>1. DOMAIN actor[a] = Fields /\ DOMAIN actor = Actors
  BY DEF StoreInv, Work, Fields
<1>2. actor' = [actor EXCEPT ![a].pc = at, ![a].copy = m]
  BY DEF Registry!Hold
<1> QED BY <1>1, <1>2 DEF Alone, Fields

LEMMA RemoveDirIs ==
  ASSUME StoreInv, NEW d, Registry!RemoveDir(d) PROVE source' \subseteq Repos
  BY DEF StoreInv, Registry!RemoveDir

\* What a thread reads says of each slot what the file says.
LEMMA ReadingIs ==
  ASSUME Registry!DistinctAssumption, StoreInv, NEW v \in Registry!Readings
  PROVE  /\ Readable(manifest) /\ Sound(v) /\ Filed(v) /\ v.active = manifest.active
         /\ Carries(manifest, v) /\ Same(manifest, v) /\ Twins(manifest, v)
<1>1. Readable(manifest) /\ v \in Registry!Migrations(manifest)
  BY DEF Registry!Readings, Registry!Unreadable, Readable
<1>2. Sound(v) /\ v.active = manifest.active
  BY <1>1, ReadIsSound DEF StoreInv
<1> QED BY <1>1, <1>2, SoundIsFiled DEF Carries, Same, Twins, Twin, Registry!SameAdapter

\* One lemma per operation's step.
LEMMA Beginnings ==
  ASSUME StoreInv, OneWriter, Registry!OfferedAssumption, NEW a \in Actors,
         Registry!Install(a) \/ Registry!Assign(a) \/ Registry!Scan(a)
  PROVE  StoreInv'
<1>1. CASE Registry!Install(a)
  <2>1. PICK d \in Repos : Registry!Begin(a, "install", "fetch", d, None)
    BY <1>1 DEF Registry!Install, Registry!OfferedAssumption
  <2>2. Alone(a) /\ manifest' = manifest /\ source' = source /\ Work(actor'[a], manifest')
    BY <2>1, BeginIs DEF Work, Fields
  <2> QED BY <2>2, OneMoves DEF StoreInv
<1>2. CASE Registry!Assign(a)
  <2>1. PICK d \in Registry!Dirs, c \in Caps \cup {None} : Registry!Begin(a, "assign", "clear", d, c)
    BY <1>2 DEF Registry!Assign, Registry!Listed
  <2>2. Alone(a) /\ manifest' = manifest /\ source' = source /\ Work(actor'[a], manifest')
    BY <2>1, BeginIs DEF Work, Fields
  <2> QED BY <2>2, OneMoves DEF StoreInv
<1>3. CASE Registry!Scan(a)
  <2>1. PICK op \in {"scan", "laya"} : Registry!Begin(a, op, "read", None, None)
    BY <1>3 DEF Registry!Scan
  <2>2. Alone(a) /\ manifest' = manifest /\ source' = source /\ Work(actor'[a], manifest')
    BY <2>1, BeginIs DEF Work, Fields
  <2> QED BY <2>2, OneMoves DEF StoreInv
<1> QED BY <1>1, <1>2, <1>3

LEMMA FetchKeeps ==
  ASSUME StoreInv, OneWriter, NEW a \in Actors, Registry!Fetch(a)
  PROVE  StoreInv'
<1>0. manifest' = manifest /\ actor[a].pc = "fetch" /\ DOMAIN actor[a] = Fields
      /\ actor[a].op = "install" /\ actor[a].dir \in Repos
  BY DEF Registry!Fetch, Registry!At, StoreInv, Work, Fields
<1>1. CASE Registry!Finish(a) /\ UNCHANGED Registry!files
  BY <1>0, <1>1, FinishIs, OneMoves DEF StoreInv, Registry!files
<1>2. CASE Registry!Finish(a) /\ Registry!RemoveDir(actor[a].dir)
  BY <1>0, <1>2, FinishIs, RemoveDirIs, OneMoves DEF StoreInv
<1>3. CASE actor' = [actor EXCEPT ![a].pc = "verify"] /\ source' = source
  <2>1. Alone(a) /\ Work(actor'[a], manifest')
    BY <1>0, <1>3 DEF StoreInv, Alone, Work, Fields
  <2> QED BY <1>0, <1>3, <2>1, OneMoves DEF StoreInv
<1> QED BY <1>1, <1>2, <1>3 DEF Registry!Fetch

LEMMA VerifyKeeps ==
  ASSUME StoreInv, OneWriter, Registry!InferenceAssumption, NEW a \in Actors, Registry!Verify(a)
  PROVE  StoreInv'
<1> DEFINE d == actor[a].dir
<1>0. manifest' = manifest /\ actor[a].pc = "verify" /\ DOMAIN actor[a] = Fields
      /\ actor[a].op = "install" /\ d \in Repos /\ Stated[d] \in Caps \cup {None}
  BY DEF Registry!Verify, Registry!At, StoreInv, Work, Fields, Registry!InferenceAssumption
<1>1. CASE Registry!RemoveDir(d) /\ Registry!Finish(a)
  BY <1>0, <1>1, FinishIs, RemoveDirIs, OneMoves DEF StoreInv
<1>2. CASE source' = source \cup {d} /\ Registry!Finish(a)
  BY <1>0, <1>2, FinishIs, OneMoves DEF StoreInv
<1>3. CASE /\ source' = source \cup {d} /\ Stated[d] # None
           /\ actor' = [actor EXCEPT ![a].pc = "register", ![a].cap = Stated[d]]
  <2>1. Alone(a) /\ Work(actor'[a], manifest')
    BY <1>0, <1>3 DEF StoreInv, Alone, Work, Fields
  <2> QED BY <1>0, <1>3, <2>1, OneMoves DEF StoreInv
<1> QED BY <1>1, <1>2, <1>3 DEF Registry!Verify

\* A manifest made anew binds nothing.
LEMMA NewIsSound ==
  ASSUME NEW b PROVE LET m == Registry!NewManifest(Registry!Empty, b) IN
    Sound(m) /\ Filed(m) /\ DOMAIN m.active = {} /\ DOMAIN m.inventory = {}
<1>1. PICK m : m = Registry!NewManifest(Registry!Empty, b)
  OBVIOUS
<1>2. /\ DOMAIN m = {"inventory", "default", "active", "based"}
      /\ DOMAIN m.active = {} /\ DOMAIN m.inventory = {} /\ DOMAIN m.default = {}
  BY <1>1 DEF Registry!NewManifest, Registry!Empty
<1> QED BY <1>1, <1>2, SoundIsFiled DEF Sound, Stored, Viewed

LEMMA RegisterAdapterKeeps ==
  ASSUME Registry!DistinctAssumption, StoreInv, OneWriter, NEW a \in Actors,
         Registry!RegisterAdapter(a)
  PROVE  StoreInv'
<1>0. /\ actor[a].pc = "register" /\ actor[a].op = "install" /\ actor[a].dir \in Repos
      /\ actor[a].cap \in Caps /\ source' = source
  BY DEF Registry!RegisterAdapter, Registry!At, StoreInv, Work, Registry!files
<1>1. PICK d \in Repos, c \in Caps : d = actor[a].dir /\ c = actor[a].cap
  BY <1>0
<1> DEFINE fresh == Registry!NewManifest(Registry!Empty, TRUE)
           New(m) == Registry!Register(m, d, Registry!Record(c, d, d))
<1>2. ASSUME NEW v \in Registry!Readings, Registry!Hold(a, "save", New(v)), manifest' = manifest
      PROVE  StoreInv'
  <2>1. PICK n : n = New(v)
    OBVIOUS
  <2>2. Sound(v) /\ v.active = manifest.active
    BY ReadingIs
  <2>3. Sound(n) /\ Carries(v, n) /\ Same(v, n)
    BY <2>1, <2>2, InstallKeeps
  <2>4. Filed(n) /\ Carries(manifest, n) /\ Same(manifest, n)
    BY <2>2, <2>3, SoundIsFiled DEF Carries, Same
  <2>5. Alone(a) /\ Work(actor'[a], manifest')
    BY <1>0, <1>2, <2>1, <2>4, HoldIs DEF Work, Fields
  <2> QED BY <1>0, <1>2, <2>5, OneMoves DEF StoreInv
<1>3. ASSUME manifest' = fresh, Registry!Hold(a, "save", New(fresh))
      PROVE  StoreInv'
  <2>1. PICK n : n = New(fresh)
    OBVIOUS
  <2>2. Sound(fresh) /\ Filed(fresh) /\ DOMAIN fresh.active = {}
    BY NewIsSound
  <2>3. Sound(n) /\ Carries(fresh, n) /\ Same(fresh, n)
    BY <2>1, <2>2, InstallKeeps
  <2>4. Filed(n)
    BY <2>3, SoundIsFiled
  <2>5. Registry!Hold(a, "save", n)
    BY <1>3, <2>1
  <2> HIDE DEF fresh
  <2>6. Carries(manifest', n) /\ Same(manifest', n)
    BY <1>3, <2>3
  <2>7. Alone(a) /\ Work(actor'[a], manifest')
    BY <1>0, <2>4, <2>5, <2>6, HoldIs DEF Work, Fields
  <2> QED BY <1>0, <1>3, <2>2, <2>7, OneMoves DEF StoreInv
<1> QED BY <1>1, <1>2, <1>3 DEF Registry!RegisterAdapter

LEMMA RemoveKeeps ==
  ASSUME StoreInv, OneWriter, NEW a \in Actors, Registry!Remove(a)
  PROVE  StoreInv'
<1>1. PICK d \in Registry!Dirs :
        /\ Registry!RemoveDir(d)
        /\ actor' = [actor EXCEPT ![a] = [Registry!Resting("remove") EXCEPT !.pc = "clear", !.dir = d]]
  BY DEF Registry!Remove, Registry!Listed
<1>2. PICK k : k = [Registry!Resting("remove") EXCEPT !.pc = "clear", !.dir = d]
  OBVIOUS
<1>3. DOMAIN k = Fields /\ k.pc = "clear" /\ k.dir = d /\ k.cap = None
  BY <1>2 DEF Registry!Resting, Fields
<1>4. Alone(a) /\ actor'[a] = k
  BY <1>1, <1>2 DEF StoreInv, Alone
<1>5. Work(actor'[a], manifest')
  BY <1>3, <1>4 DEF Work, Fields
<1>6. manifest' = manifest
  BY DEF Registry!Remove
<1> QED BY <1>1, <1>4, <1>5, <1>6, RemoveDirIs, OneMoves DEF StoreInv

\* clear_assignment: an emptied slot binds nothing.
LEMMA ReleasedIsFiled ==
  ASSUME Registry!DistinctAssumption, NEW v, Sound(v), NEW c \in DOMAIN v.active
  PROVE  Filed(Registry!Release(v, c))
<1>1. PICK n : n = Registry!Release(v, c)
  OBVIOUS
<1>2. /\ DOMAIN n = DOMAIN v /\ n.inventory = v.inventory /\ n.default = v.default
      /\ DOMAIN n.active = DOMAIN v.active
      /\ \A s \in DOMAIN v.active : n.active[s] = IF s = c THEN Registry!Placeholder(c) ELSE v.active[s]
  BY <1>1 DEF Registry!Release, Sound, Stored
<1>3. c \in Caps /\ Entry(Registry!Placeholder(c)) /\ ~Registry!Placeholder(c).installed
  BY DEF Registry!Placeholder, Entry, Sound, Viewed
<1>4. Stored(n)
  BY <1>2 DEF Sound, Stored
<1>5. Viewed(n)
  BY <1>2, <1>3 DEF Sound, Viewed
<1>6. \A s \in DOMAIN n.active : n.active[s].installed => Stands(n, s)
  BY <1>2, <1>3 DEF Sound, Stands
<1>7. Sound(n)
  BY <1>2, <1>4, <1>5, <1>6 DEF Sound
<1> QED BY <1>1, <1>7, SoundIsFiled

LEMMA ClearKeeps ==
  ASSUME Registry!DistinctAssumption, StoreInv, OneWriter, NEW a \in Actors, Registry!Clear(a)
  PROVE  StoreInv'
<1>0. /\ actor[a].pc = "clear" /\ DOMAIN actor[a] = Fields /\ actor[a].dir \in Registry!Dirs
      /\ actor[a].cap \in Caps \cup {None} /\ manifest' = manifest /\ source' = source
  BY DEF Registry!Clear, Registry!At, StoreInv, Work, Fields, Registry!files
<1>1. CASE actor' = [actor EXCEPT ![a].pc = Registry!Cleared(actor[a].op)]
  <2>1. Registry!Cleared(actor[a].op) \in {"idle", "place"}
    BY DEF Registry!Cleared
  <2>2. Alone(a) /\ Work(actor'[a], manifest')
    BY <1>0, <1>1, <2>1 DEF StoreInv, Alone, Work, Fields
  <2> QED BY <1>0, <2>2, OneMoves DEF StoreInv
<1>2. ASSUME NEW v \in Registry!Readings, NEW c \in DOMAIN v.active,
             Registry!Hold(a, "clear_save", Registry!Release(v, c))
      PROVE  StoreInv'
  <2>1. Filed(Registry!Release(v, c))
    BY ReadingIs, ReleasedIsFiled
  <2>2. Alone(a) /\ Work(actor'[a], manifest')
    BY <1>0, <1>2, <2>1, HoldIs DEF Work, Fields
  <2> QED BY <1>0, <2>2, OneMoves DEF StoreInv
<1> QED BY <1>1, <1>2 DEF Registry!Clear

LEMMA ClearSaveKeeps ==
  ASSUME StoreInv, OneWriter, NEW a \in Actors, Registry!ClearSave(a)
  PROVE  StoreInv'
<1>0. /\ actor[a].pc = "clear_save" /\ DOMAIN actor[a] = Fields /\ actor[a].dir \in Registry!Dirs
      /\ actor[a].cap \in Caps \cup {None} /\ Filed(actor[a].copy)
      /\ manifest' = actor[a].copy /\ source' = source
  BY DEF Registry!ClearSave, Registry!At, StoreInv, Work, Fields, Registry!files
<1>1. Registry!Cleared(actor[a].op) \in {"idle", "place"}
  BY DEF Registry!Cleared
<1>2. actor' = [actor EXCEPT ![a].pc = Registry!Cleared(actor[a].op), ![a].copy = Registry!NoCopy]
  BY DEF Registry!ClearSave
<1>3. LET k == actor'[a] IN
      /\ Alone(a) /\ DOMAIN k = Fields /\ k.pc = Registry!Cleared(actor[a].op)
      /\ k.dir = actor[a].dir /\ k.cap = actor[a].cap
  BY <1>0, <1>2 DEF StoreInv, Alone, Fields
<1>4. Work(actor'[a], manifest')
  BY <1>0, <1>1, <1>3 DEF Work, Fields
<1> QED BY <1>0, <1>3, <1>4, OneMoves DEF StoreInv

LEMMA PlaceNowhereKeeps ==
  ASSUME StoreInv, OneWriter, NEW a \in Actors, Registry!PlaceNowhere(a)
  PROVE  StoreInv'
<1>1. Registry!Finish(a) /\ manifest' = manifest /\ source' = source
  BY DEF Registry!PlaceNowhere
<1> QED BY <1>1, FinishIs, OneMoves DEF StoreInv

LEMMA PlaceKeeps ==
  ASSUME Registry!DistinctAssumption, StoreInv, OneWriter, NEW a \in Actors, Registry!Place(a)
  PROVE  StoreInv'
<1>1. PICK d, c, f : d = actor[a].dir /\ c = actor[a].cap /\ f = IF d \in source THEN d ELSE None
  OBVIOUS
<1>2. /\ actor[a].pc = "place" /\ d \in Registry!Dirs /\ c \in Caps /\ f \in Repos \cup {None}
      /\ manifest' = manifest /\ source' = source
  BY <1>1 DEF Registry!Place, Registry!At, StoreInv, Work
<1>3. PICK r : r = Registry!Record(c, d, f)
  OBVIOUS
<1>4. Entry(r) /\ r.installed /\ r.dir = d
  BY <1>2, <1>3 DEF Entry, Registry!Record
<1> DEFINE Chosen(m) == Registry!Rebuild([m EXCEPT !.default = Registry!Insert(m.default, c, d)])
<1>5. ASSUME NEW v \in Registry!Readings,
             Registry!Hold(a, "save_user", Chosen(Registry!Register(v, d, r)))
      PROVE  StoreInv'
  <2>1. Sound(Registry!Register(v, d, r))
    BY <1>2, <1>4, ReadingIs, RegisterKeeps
  <2>2. PICK n : n = Chosen(Registry!Register(v, d, r))
    OBVIOUS
  <2>3. Filed(n)
    BY <1>2, <2>1, <2>2, ChosenIsFiled
  <2>4. Alone(a) /\ Work(actor'[a], manifest')
    BY <1>5, <2>2, <2>3, HoldIs DEF Work, Fields
  <2> QED BY <1>2, <2>4, OneMoves DEF StoreInv
<1>6. CASE Registry!GiveUp(a)
  BY <1>2, <1>6, FinishIs, OneMoves DEF StoreInv
<1> QED BY <1>1, <1>3, <1>5, <1>6 DEF Registry!Place

LEMMA SetDefaultKeeps ==
  ASSUME Registry!DistinctAssumption, StoreInv, OneWriter, NEW a \in Actors, Registry!SetDefault(a)
  PROVE  StoreInv'
<1>1. PICK v \in Registry!Readings, d \in Registry!Listed, c \in Caps :
        actor' = [actor EXCEPT ![a] = [Registry!Resting("set_default") EXCEPT
                    !.pc = "save_user",
                    !.copy = Registry!Rebuild([v EXCEPT !.default = Registry!Insert(v.default, c, d)])]]
  BY DEF Registry!SetDefault
<1>2. PICK n : n = Registry!Rebuild([v EXCEPT !.default = Registry!Insert(v.default, c, d)])
  OBVIOUS
<1>3. Filed(n)
  BY <1>2, ReadingIs, ChosenIsFiled
<1>4. PICK k : k = [Registry!Resting("set_default") EXCEPT !.pc = "save_user", !.copy = n]
  OBVIOUS
<1>5. DOMAIN k = Fields /\ k.pc = "save_user" /\ k.copy = n
  BY <1>4 DEF Registry!Resting, Fields
<1>6. Alone(a) /\ actor'[a] = k
  BY <1>1, <1>2, <1>4 DEF StoreInv, Alone
<1>7. Work(actor'[a], manifest')
  BY <1>3, <1>5, <1>6 DEF Work, Fields
<1>8. manifest' = manifest /\ source' = source
  BY DEF Registry!SetDefault, Registry!files
<1> QED BY <1>6, <1>7, <1>8, OneMoves DEF StoreInv

LEMMA ReadForScanKeeps ==
  ASSUME Registry!DistinctAssumption, StoreInv, OneWriter, NEW a \in Actors, Registry!ReadForScan(a)
  PROVE  StoreInv'
<1>0. /\ actor[a].pc = "read" /\ DOMAIN actor[a] = Fields /\ actor[a].op \in {"scan", "laya"}
      /\ manifest' = manifest /\ source' = source
  BY DEF Registry!ReadForScan, Registry!At, StoreInv, Work, Fields, Registry!files
<1>1. ASSUME NEW v \in Registry!Readings,
             actor' = [actor EXCEPT ![a].pc = "walk", ![a].copy = v, ![a].left = Registry!Installed]
      PROVE  StoreInv'
  <2>1. Readable(manifest) /\ Sound(v) /\ Carries(manifest, v) /\ Twins(manifest, v)
    BY ReadingIs
  <2>2. LET k == actor'[a] IN
        /\ Alone(a) /\ DOMAIN k = Fields /\ k.pc = "walk" /\ k.op = actor[a].op /\ k.copy = v
        /\ k.left \subseteq Registry!Dirs
    BY <1>0, <1>1 DEF StoreInv, Alone, Fields, Registry!Installed
  <2>3. Work(actor'[a], manifest')
    BY <1>0, <2>1, <2>2 DEF Work, Fields
  <2> QED BY <1>0, <2>2, <2>3, OneMoves DEF StoreInv
<1>2. CASE Registry!GiveUp(a)
  BY <1>0, <1>2, FinishIs, OneMoves DEF StoreInv
<1> QED BY <1>1, <1>2 DEF Registry!ReadForScan

LEMMA WalkKeeps ==
  ASSUME Registry!DistinctAssumption, Registry!InferenceAssumption, StoreInv, OneWriter,
         NEW a \in Actors, Registry!Walk(a)
  PROVE  StoreInv'
<1> DEFINE m == actor[a].copy
           laya == actor[a].op = "laya"
           infer == IF laya THEN Judged ELSE Named
<1>0. /\ actor[a].pc = "walk" /\ DOMAIN actor[a] = Fields /\ actor[a].op \in {"scan", "laya"}
      /\ actor[a].left \subseteq Registry!Dirs /\ Sound(m)
      /\ Readable(manifest) /\ Carries(manifest, m) /\ (laya => Twins(manifest, m))
      /\ manifest' = manifest /\ source' = source
  BY DEF Registry!Walk, Registry!At, StoreInv, Work, Fields, Registry!files
<1>1. PICK d \in actor[a].left :
        \/ actor' = [actor EXCEPT ![a].left = @ \ {d}]
        \/ \E n \in Registry!RegisterDir(m, d, infer) :
             /\ laya => ~Registry!Sorted(m, d)
             /\ actor' = [actor EXCEPT ![a].left = @ \ {d}, ![a].copy = n, ![a].dirty = TRUE]
  BY DEF Registry!Walk
<1>2. CASE actor' = [actor EXCEPT ![a].left = @ \ {d}]
  <2>1. LET k == actor'[a] IN
        /\ Alone(a) /\ DOMAIN k = Fields /\ k.pc = "walk" /\ k.op = actor[a].op /\ k.copy = m
        /\ k.left \subseteq Registry!Dirs
    BY <1>0, <1>2 DEF StoreInv, Alone, Fields
  <2>2. Work(actor'[a], manifest')
    BY <1>0, <2>1 DEF Work, Fields
  <2> QED BY <1>0, <2>1, <2>2, OneMoves DEF StoreInv
<1>3. ASSUME NEW n \in Registry!RegisterDir(m, d, infer), laya => ~Registry!Sorted(m, d),
             actor' = [actor EXCEPT ![a].left = @ \ {d}, ![a].copy = n, ![a].dirty = TRUE]
      PROVE  StoreInv'
  <2>1. infer \in [Repos -> Caps \cup {None}]
    BY DEF Registry!InferenceAssumption
  <2>2. d \in Registry!Dirs /\ source \subseteq Repos
    BY <1>0 DEF StoreInv
  <2> HIDE DEF infer
  <2>3. Sound(n) /\ Carries(m, n) /\ (laya => Twins(m, n))
    BY <1>0, <1>3, <2>1, <2>2, RegisteredDir
  <2>4. Carries(manifest, n)
    BY <1>0, <2>3 DEF Carries
  <2>5. laya => Twins(manifest, n)
    BY <1>0, <2>3 DEF Carries, Twins, Twin
  <2>6. LET k == actor'[a] IN
        /\ Alone(a) /\ DOMAIN k = Fields /\ k.pc = "walk" /\ k.op = actor[a].op /\ k.copy = n
        /\ k.left \subseteq Registry!Dirs
    BY <1>0, <1>3 DEF StoreInv, Alone, Fields
  <2>7. Work(actor'[a], manifest')
    BY <1>0, <2>3, <2>4, <2>5, <2>6 DEF Work, Fields
  <2> QED BY <1>0, <2>6, <2>7, OneMoves DEF StoreInv
<1> QED BY <1>1, <1>2, <1>3

LEMMA WalkedKeeps ==
  ASSUME Registry!DistinctAssumption, StoreInv, OneWriter, NEW a \in Actors, Registry!Walked(a)
  PROVE  StoreInv'
<1>0. /\ actor[a].pc = "walk" /\ DOMAIN actor[a] = Fields /\ actor[a].op \in {"scan", "laya"}
      /\ Sound(actor[a].copy) /\ Readable(manifest) /\ Carries(manifest, actor[a].copy)
      /\ (actor[a].op = "laya" => Twins(manifest, actor[a].copy))
      /\ manifest' = manifest /\ source' = source
  BY DEF Registry!Walked, Registry!At, StoreInv, Work, Fields, Registry!files
<1>1. CASE actor' = [actor EXCEPT ![a].pc = "save"]
  <2>1. actor[a].op = "laya" => Same(manifest, actor[a].copy)
    BY <1>0 DEF Twins, Twin, Same, Registry!SameAdapter
  <2>2. LET k == actor'[a] IN
        /\ Alone(a) /\ DOMAIN k = Fields /\ k.pc = "save" /\ k.op = actor[a].op
        /\ k.copy = actor[a].copy
    BY <1>0, <1>1 DEF StoreInv, Alone, Fields
  <2>3. Work(actor'[a], manifest')
    BY <1>0, <2>1, <2>2, SoundIsFiled DEF Work, Fields
  <2> QED BY <1>0, <2>2, <2>3, OneMoves DEF StoreInv
<1>2. CASE Registry!Finish(a)
  BY <1>0, <1>2, FinishIs, OneMoves DEF StoreInv
<1>3. ASSUME NEW v \in Registry!Readings, Registry!Hold(a, "save", v)
      PROVE  StoreInv'
  <2>1. Filed(v) /\ Carries(manifest, v) /\ Same(manifest, v)
    BY ReadingIs
  <2>2. Alone(a) /\ Work(actor'[a], manifest')
    BY <1>0, <1>3, <2>1, HoldIs DEF Work, Fields
  <2> QED BY <1>0, <2>2, OneMoves DEF StoreInv
<1> QED BY <1>1, <1>2, <1>3 DEF Registry!Walked

LEMMA SweepKeeps ==
  ASSUME Registry!DistinctAssumption, StoreInv, OneWriter, NEW a \in Actors, Registry!Sweep(a)
  PROVE  StoreInv'
<1>1. PICK v \in (IF Registry!Unreadable THEN {Registry!NoCopy} ELSE Registry!Readings) :
        actor' = [actor EXCEPT ![a] = [Registry!Resting("sweep") EXCEPT
                    !.pc = "sweep", !.left = Caps, !.copy = Registry!NewManifest(v.active, FALSE)]]
  BY DEF Registry!Sweep
<1>2. Viewed(v) /\ (Readable(manifest) => v.active = manifest.active)
  <2>1. CASE Registry!Unreadable
    BY <1>1, <2>1, NewIsSound DEF Registry!NoCopy, Sound, Registry!Unreadable, Readable
  <2>2. CASE ~Registry!Unreadable
    BY <1>1, <2>2, ReadingIs DEF Sound
  <2> QED BY <2>1, <2>2
<1>3. PICK n : n = Registry!NewManifest(v.active, FALSE)
  OBVIOUS
<1>4. /\ DOMAIN n = {"inventory", "default", "active", "based"}
      /\ n.active = v.active /\ DOMAIN n.inventory = {} /\ DOMAIN n.default = {}
  BY <1>3 DEF Registry!NewManifest, Registry!Empty
<1>5. Filed(n)
  BY <1>2, <1>4 DEF Filed, Stored, Viewed
<1>6. Readable(manifest) => Untouched(manifest, n)
  BY <1>2, <1>4 DEF Untouched
<1>7. PICK k : k = [Registry!Resting("sweep") EXCEPT !.pc = "sweep", !.left = Caps, !.copy = n]
  OBVIOUS
<1>8. DOMAIN k = Fields /\ k.pc = "sweep" /\ k.left = Caps /\ k.copy = n
  BY <1>7 DEF Registry!Resting, Fields
<1>9. Alone(a) /\ actor'[a] = k
  BY <1>1, <1>3, <1>7 DEF StoreInv, Alone
<1>10. manifest' = manifest /\ source' = source
  BY DEF Registry!Sweep, Registry!files
<1>11. Work(actor'[a], manifest')
  BY <1>4, <1>5, <1>6, <1>8, <1>9, <1>10 DEF Work, Fields
<1> QED BY <1>9, <1>10, <1>11, OneMoves DEF StoreInv

\* What a capability's task enters is a record the manifest may hold, and never in place of
\* one the file calls installed.
LEMMA PutKeeps ==
  ASSUME StoreInv, OneWriter, NEW a \in Actors, actor[a].pc = "sweep",
         NEW c \in actor[a].left, NEW r, Entry(r), Registry!Put(a, c, r),
         Readable(manifest) => ~(c \in DOMAIN manifest.active /\ manifest.active[c].installed),
         manifest' = manifest, source' = source
  PROVE  StoreInv'
<1>0. /\ DOMAIN actor[a] = Fields /\ actor[a].left \subseteq Caps /\ Filed(actor[a].copy)
      /\ DOMAIN actor[a].copy.inventory = {}
      /\ Readable(manifest) => Untouched(manifest, actor[a].copy)
  BY DEF StoreInv, Work, Fields
<1>1. PICK m, n : m = actor[a].copy /\ n = actor'[a].copy
  OBVIOUS
<1>2. LET k == actor'[a] IN
      /\ Alone(a) /\ DOMAIN k = Fields /\ k.pc = "sweep" /\ k.left \subseteq Caps
      /\ k.copy = [m EXCEPT !.active = Registry!Insert(m.active, c, r)]
  BY <1>0, <1>1 DEF StoreInv, Alone, Fields, Registry!Put
<1>3. /\ DOMAIN n = DOMAIN m /\ n.inventory = m.inventory /\ n.default = m.default
      /\ n.active = Registry!Insert(m.active, c, r)
  BY <1>0, <1>1, <1>2 DEF Filed, Stored
<1>4. /\ DOMAIN n.active = DOMAIN m.active \cup {c}
      /\ \A s \in DOMAIN n.active : n.active[s] = IF s = c THEN r ELSE m.active[s]
  BY <1>3 DEF Registry!Insert
<1>5. DOMAIN m.default = {}
  BY <1>0, <1>1 DEF Filed
<1>6. Stored(n) /\ Viewed(n)
  BY <1>0, <1>1, <1>3, <1>4 DEF Filed, Stored, Viewed
<1>7. Filed(n) /\ DOMAIN n.inventory = {}
  BY <1>0, <1>1, <1>3, <1>5, <1>6 DEF Filed
<1>8. Readable(manifest) => Untouched(manifest, n)
  BY <1>0, <1>1, <1>4 DEF Untouched
<1>9. Work(actor'[a], manifest')
  BY <1>1, <1>2, <1>7, <1>8 DEF Work, Fields
<1> QED BY <1>2, <1>9, OneMoves DEF StoreInv

LEMMA SweepOneKeeps ==
  ASSUME Registry!InferenceAssumption, StoreInv, OneWriter, NEW a \in Actors, Registry!SweepOne(a)
  PROVE  StoreInv'
<1>0. /\ actor[a].pc = "sweep" /\ DOMAIN actor[a] = Fields /\ actor[a].left \subseteq Caps
      /\ Filed(actor[a].copy) /\ DOMAIN actor[a].copy.inventory = {}
      /\ Readable(manifest) => Untouched(manifest, actor[a].copy)
      /\ manifest' = manifest /\ source' = source
  BY DEF Registry!SweepOne, Registry!At, StoreInv, Work, Fields
<1>1. PICK c \in actor[a].left :
        \/ Registry!PreDownloadCheck(a, c)
        \/ /\ ~Registry!AlreadyThere(c)
           /\ \/ Registry!FetchQuits(a, c) \/ Registry!Landed(a, c) \/ Registry!Unavailable(a, c)
  BY DEF Registry!SweepOne
<1>2. CASE Registry!Keep(a, c)
  <2>1. LET k == actor'[a] IN
        /\ Alone(a) /\ DOMAIN k = Fields /\ k.pc = "sweep" /\ k.left \subseteq Caps
        /\ k.copy = actor[a].copy
    BY <1>0, <1>2 DEF StoreInv, Alone, Fields, Registry!Keep
  <2>2. Work(actor'[a], manifest')
    BY <1>0, <2>1 DEF Work, Fields
  <2> QED BY <1>0, <2>1, <2>2, OneMoves DEF StoreInv
<1>3. CASE /\ Registry!Put(a, c, Registry!Record(c, c, None))
           /\ ~(c \in DOMAIN actor[a].copy.active /\ actor[a].copy.active[c].installed)
  <2>1. Entry(Registry!Record(c, c, None))
    BY <1>0 DEF Entry, Registry!Record
  <2>2. Readable(manifest) => ~(c \in DOMAIN manifest.active /\ manifest.active[c].installed)
    BY <1>0, <1>3 DEF Untouched
  <2> QED BY <1>0, <1>3, <2>1, <2>2, PutKeeps
<1>4. CASE ~Registry!AlreadyThere(c) /\ (Registry!Landed(a, c) \/ Registry!Unavailable(a, c))
  <2>1. Readable(manifest) => ~(c \in DOMAIN manifest.active /\ manifest.active[c].installed)
    BY <1>4 DEF Registry!AlreadyThere, Registry!Unreadable, Readable
  <2>2. CASE Registry!Landed(a, c)
    <3>1. Entry(Registry!Record(c, c, Discovered[c]))
      BY <1>0 DEF Entry, Registry!Record, Registry!InferenceAssumption
    <3> QED BY <1>0, <2>1, <2>2, <3>1, PutKeeps DEF Registry!Landed
  <2>3. CASE Registry!Unavailable(a, c)
    <3>1. Entry(Registry!Placeholder(c))
      BY <1>0 DEF Entry, Registry!Placeholder
    <3> QED BY <1>0, <2>1, <2>3, <3>1, PutKeeps DEF Registry!Unavailable
  <2> QED BY <1>4, <2>2, <2>3
<1> QED BY <1>1, <1>2, <1>3, <1>4 DEF Registry!PreDownloadCheck, Registry!FetchQuits

LEMMA SweptKeeps ==
  ASSUME StoreInv, OneWriter, NEW a \in Actors, Registry!Swept(a)
  PROVE  StoreInv'
<1>0. /\ actor[a].pc = "sweep" /\ DOMAIN actor[a] = Fields /\ Filed(actor[a].copy)
      /\ Readable(manifest) => Untouched(manifest, actor[a].copy)
      /\ manifest' = manifest /\ source' = source
      /\ actor' = [actor EXCEPT ![a].pc = "save"]
  BY DEF Registry!Swept, Registry!At, StoreInv, Work, Fields, Registry!files
<1>1. Readable(manifest) => Carries(manifest, actor[a].copy) /\ Same(manifest, actor[a].copy)
  BY <1>0 DEF Untouched, Carries, Same, Registry!SameAdapter
<1>2. LET k == actor'[a] IN
      Alone(a) /\ DOMAIN k = Fields /\ k.pc = "save" /\ k.copy = actor[a].copy
  BY <1>0 DEF StoreInv, Alone, Fields
<1>3. Work(actor'[a], manifest')
  BY <1>0, <1>1, <1>2 DEF Work, Fields
<1> QED BY <1>0, <1>2, <1>3, OneMoves DEF StoreInv

LEMMA LoadKeeps ==
  ASSUME Registry!DistinctAssumption, StoreInv, OneWriter, NEW a \in Actors, Registry!Load(a)
  PROVE  StoreInv'
<1>0. manifest' = manifest /\ source' = source
  BY DEF Registry!Load, Registry!files
<1>1. PICK n :
        /\ Filed(n) /\ (Readable(manifest) => Carries(manifest, n) /\ Same(manifest, n))
        /\ actor' = [actor EXCEPT ![a] =
                       [Registry!Resting("load") EXCEPT !.pc = "save", !.copy = n]]
  <2>1. CASE /\ Registry!Unreadable
             /\ actor' = [actor EXCEPT ![a] = [Registry!Resting("load") EXCEPT
                   !.pc = "save", !.copy = Registry!NewManifest(Registry!Empty, TRUE)]]
    BY <2>1, NewIsSound DEF Registry!Unreadable, Readable
  <2>2. ASSUME NEW v \in Registry!Readings,
               actor' = [actor EXCEPT ![a] = [Registry!Resting("load") EXCEPT
                   !.pc = "save", !.copy = [v EXCEPT !.based = TRUE]]]
        PROVE \E n :
                /\ Filed(n) /\ (Readable(manifest) => Carries(manifest, n) /\ Same(manifest, n))
                /\ actor' = [actor EXCEPT ![a] =
                       [Registry!Resting("load") EXCEPT !.pc = "save", !.copy = n]]
    <3>1. PICK n : n = [v EXCEPT !.based = TRUE]
      OBVIOUS
    <3>2. /\ Sound(v) /\ Carries(manifest, v) /\ Same(manifest, v)
      BY ReadingIs
    <3>3. /\ DOMAIN n = DOMAIN v /\ n.inventory = v.inventory /\ n.default = v.default
          /\ n.active = v.active
      BY <3>1, <3>2 DEF Sound, Stored
    <3>4. Sound(n)
      BY <3>2, <3>3 DEF Sound, Stored, Viewed, Stands
    <3>5. Carries(manifest, n) /\ Same(manifest, n)
      BY <3>2, <3>3 DEF Carries, Same
    <3> QED BY <2>2, <3>1, <3>4, <3>5, SoundIsFiled
  <2> QED BY <2>1, <2>2 DEF Registry!Load
<1>2. PICK k : k = [Registry!Resting("load") EXCEPT !.pc = "save", !.copy = n]
  OBVIOUS
<1>3. DOMAIN k = Fields /\ k.pc = "save" /\ k.copy = n
  BY <1>2 DEF Registry!Resting, Fields
<1>4. Alone(a) /\ actor'[a] = k
  BY <1>1, <1>2 DEF StoreInv, Alone
<1>5. Work(actor'[a], manifest')
  BY <1>0, <1>1, <1>3, <1>4 DEF Work, Fields
<1> QED BY <1>0, <1>4, <1>5, OneMoves DEF StoreInv

LEMMA SaveKeeps ==
  ASSUME StoreInv, OneWriter, NEW a \in Actors, Registry!Save(a) \/ Registry!SaveForUser(a)
  PROVE  StoreInv'
<1>0. source' = source /\ Registry!Finish(a)
  BY DEF Registry!Save, Registry!SaveForUser, Registry!files
<1>1. actor[a].pc \in {"save", "save_user"} /\ Filed(manifest')
  <2>1. CASE Registry!Save(a)
    <3>1. /\ Filed(actor[a].copy) /\ (Readable(manifest) => Carries(manifest, actor[a].copy))
          /\ manifest' = Registry!Protected(actor[a].copy) /\ actor[a].pc = "save"
      BY <2>1 DEF Registry!Save, Registry!At, StoreInv, Work
    <3> QED BY <3>1, ProtectedIsFiled DEF StoreInv
  <2>2. CASE Registry!SaveForUser(a)
    BY <2>2 DEF Registry!SaveForUser, Registry!At, StoreInv, Work
  <2> QED BY <2>1, <2>2
<1> QED BY <1>0, <1>1, FinishIs, OneMoves DEF StoreInv

LEMMA RestartKeeps == ASSUME StoreInv, Registry!Restart PROVE StoreInv'
<1>1. actor' = [a \in Actors |-> Registry!Resting("none")] /\ source' = source
  BY DEF Registry!Restart, Registry!files
<1>2. Readable(manifest') => Filed(manifest')
  BY DEF Registry!Restart, StoreInv, Readable
<1>3. DOMAIN actor' = Actors /\ \A a \in Actors : Work(actor'[a], manifest')
  BY <1>1, RestingIs
<1> QED BY <1>1, <1>2, <1>3 DEF StoreInv

LEMMA StoreStart == Registry!Init => StoreInv
<1> SUFFICES ASSUME Registry!Init PROVE StoreInv
  OBVIOUS
<1>1. DOMAIN actor = Actors /\ \A a \in Actors : Work(actor[a], manifest)
  BY RestingIs DEF Registry!Init
<1> QED BY <1>1 DEF Registry!Init, StoreInv, Readable

-----------------------------------------------------------------------------
(* The specification.                                                                *)

\* What is assumed of the constants.
StoreAssumption ==
  Registry!DistinctAssumption /\ Registry!InferenceAssumption /\ Registry!OfferedAssumption

LEMMA StoreStep ==
  ASSUME StoreAssumption
  PROVE  StoreInv /\ OneWriter /\ [Registry!Next]_(Registry!vars) => StoreInv'
<1> SUFFICES ASSUME StoreInv, OneWriter, [Registry!Next]_(Registry!vars) PROVE StoreInv'
  OBVIOUS
<1> USE DEF StoreAssumption
<1>1. ASSUME NEW a \in Actors, Registry!Steps(a) PROVE StoreInv'
  <2>1. CASE \/ Registry!Install(a) \/ Registry!Fetch(a) \/ Registry!Verify(a)
             \/ Registry!RegisterAdapter(a) \/ Registry!Remove(a) \/ Registry!Assign(a)
    BY <2>1, Beginnings, FetchKeeps, VerifyKeeps, RegisterAdapterKeeps, RemoveKeeps
  <2>2. CASE \/ Registry!Clear(a) \/ Registry!ClearSave(a) \/ Registry!PlaceNowhere(a)
             \/ Registry!Place(a) \/ Registry!SetDefault(a)
    BY <2>2, ClearKeeps, ClearSaveKeeps, PlaceNowhereKeeps, PlaceKeeps, SetDefaultKeeps
  <2>3. CASE \/ Registry!Scan(a) \/ Registry!ReadForScan(a) \/ Registry!Walk(a) \/ Registry!Walked(a)
    BY <2>3, Beginnings, ReadForScanKeeps, WalkKeeps, WalkedKeeps
  <2>4. CASE \/ Registry!Sweep(a) \/ Registry!SweepOne(a) \/ Registry!Swept(a)
             \/ Registry!Load(a) \/ Registry!Save(a) \/ Registry!SaveForUser(a)
    BY <2>4, SweepKeeps, SweepOneKeeps, SweptKeeps, LoadKeeps, SaveKeeps
  <2> QED BY <1>1, <2>1, <2>2, <2>3, <2>4 DEF Registry!Steps
<1>2. CASE UNCHANGED (Registry!vars)
  <2>1. manifest' = manifest /\ source' = source /\ actor' = actor
    BY <1>2 DEF Registry!vars
  <2> QED BY <2>1 DEF StoreInv
<1> QED BY <1>1, <1>2, RestartKeeps DEF Registry!Next

\* mod.rs: whatever is installed, removed, assigned, scanned, sorted, swept or repaired and
\* wherever the application is killed, every default is an adapter of the inventory and so
\* is what a turn would bind: the next rebuild of the active view cannot lose it.
THEOREM BoundStaysInventoried ==
  StoreAssumption => (Registry!Spec /\ []OneWriter => []BoundIsInventoried)
<1> SUFFICES ASSUME StoreAssumption
             PROVE  Registry!Spec /\ []OneWriter => []BoundIsInventoried
  OBVIOUS
<1>1. Registry!Init => StoreInv
  BY StoreStart
<1>2. StoreInv /\ OneWriter /\ [Registry!Next]_(Registry!vars) => StoreInv'
  BY StoreStep
<1>3. StoreInv => BoundIsInventoried
  <2> SUFFICES ASSUME StoreInv, NEW v \in Registry!Readings
               PROVE  /\ \A c \in DOMAIN v.default : v.default[c] \in DOMAIN v.inventory
                      /\ \A c \in Caps : Registry!Binds(v, c) =>
                           \E i \in DOMAIN v.inventory :
                             Registry!SameAdapter(v.inventory[i], v.active[c])
    BY DEF BoundIsInventoried, Registry!BoundIsInventoried
  <2>1. Sound(v)
    BY ReadingIs DEF StoreAssumption
  <2>2. ASSUME NEW c \in Caps, Registry!Binds(v, c)
        PROVE  \E i \in DOMAIN v.inventory : Registry!SameAdapter(v.inventory[i], v.active[c])
    <3>1. PICK i \in DOMAIN v.inventory :
            v.inventory[i] = v.active[c] \/ (v.inventory[i].repo = i /\ v.active[c].repo = i)
      BY <2>1, <2>2 DEF Registry!Binds, Sound, Stands
    <3>2. i # None
      BY <2>1 DEF Sound, Stored, StoreAssumption, Registry!DistinctAssumption, Registry!Dirs
    <3> QED BY <3>1, <3>2 DEF Registry!SameAdapter
  <2> QED BY <2>1, <2>2 DEF Sound
<1> QED
  BY <1>1, <1>2, <1>3, PTL DEF Registry!Spec

\* One write.
LEMMA SavedKeepsLive ==
  ASSUME StoreAssumption, StoreInv, NEW a \in Actors, Registry!Save(a), actor[a].op # "scan",
         StoreInv'
  PROVE  Registry!KeepsLiveSlots
<1> SUFFICES ASSUME NEW v \in Registry!Readings, NEW w \in Registry!Readings', NEW c \in Caps,
                    Registry!Binds(v, c)
             PROVE  /\ c \in DOMAIN w.active /\ w.active[c].installed
                    /\ Registry!SameAdapter(v.active[c], w.active[c])
  BY DEF Registry!KeepsLiveSlots
<1> USE DEF StoreAssumption
<1>1. Readable(manifest) /\ v.active = manifest.active
  BY ReadingIs
<1>2. w.active = manifest'.active
  <2>1. w \in Registry!Migrations(manifest') /\ Readable(manifest')
    BY DEF Registry!Readings, Registry!Unreadable, Readable, Registry!Migrations, Registry!IdFor, Registry!Over
  <2> QED BY <2>1, ReadIsSound DEF StoreInv
<1>3. /\ Filed(actor[a].copy) /\ Carries(manifest, actor[a].copy) /\ Same(manifest, actor[a].copy)
      /\ manifest' = Registry!Protected(actor[a].copy)
  BY <1>1 DEF Registry!Save, Registry!At, StoreInv, Work
<1>4. c \in DOMAIN manifest.active /\ manifest.active[c].installed
  BY <1>1 DEF Registry!Binds
<1>5. /\ c \in DOMAIN manifest'.active /\ manifest'.active[c] = actor[a].copy.active[c]
      /\ manifest'.active[c].installed
  BY <1>1, <1>3, <1>4, ProtectedIsFiled DEF StoreInv
<1> QED BY <1>1, <1>2, <1>3, <1>4, <1>5 DEF Same

\* write_manifest and register_installed: a slot that binds a usable adapter goes on
\* binding it through every automatic write of an install, a sorting, a sweep or a repair.
THEOREM LiveSlotsAreKept ==
  StoreAssumption => (Registry!Spec /\ []OneWriter => LiveSlotsKept)
<1> SUFFICES ASSUME StoreAssumption PROVE Registry!Spec /\ []OneWriter => LiveSlotsKept
  OBVIOUS
<1>1. Registry!Init => StoreInv
  BY StoreStart
<1>2. StoreInv /\ OneWriter /\ [Registry!Next]_(Registry!vars) => StoreInv'
  BY StoreStep
<1>3. StoreInv /\ StoreInv' /\ [Registry!Next]_(Registry!vars) =>
        [ \A a \in Actors : Registry!Save(a) /\ actor[a].op # "scan" => Registry!KeepsLiveSlots ]_(Registry!vars)
  BY SavedKeepsLive
<1> QED
  BY <1>1, <1>2, <1>3, PTL DEF Registry!Spec, LiveSlotsKept, Registry!LiveSlotsKept

=============================================================================
