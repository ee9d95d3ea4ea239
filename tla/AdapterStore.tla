---------------------------- MODULE AdapterStore ----------------------------
(***************************************************************************)
(* The adapters of one model package: the files under adapters/ and the    *)
(* manifest.json that says which adapter each capability binds.            *)
(*   src/src-tauri/src/adapter_manager/mod.rs    (AdapterRegistry)         *)
(*   src/src-tauri/src/commands/adapters.rs      (install, remove, assign) *)
(*   src/src-tauri/src/download_manager/manager.rs (the discovery sweep)   *)
(*                                                                         *)
(* The manifest holds an inventory of records by id, the chosen id of each *)
(* capability, and the active view, one record per capability, which is    *)
(* the only part a turn is resolved against.  Every operation reads the    *)
(* file, changes its copy and writes the whole copy back; nothing locks    *)
(* the file in between.  A write is one step here; a kill may tear it.     *)
(***************************************************************************)
EXTENDS Naturals, FiniteSets

CONSTANTS
  Caps,        (* capability slots; also the sweep's directory names       *)
  Repos,       (* adapter repositories; also their directory names         *)
  None,        (* no capability, directory or repository                   *)
  Absent,      (* no manifest.json                                         *)
  Torn,        (* a manifest.json that does not parse                      *)
  Offered,     (* repositories the user installs from                      *)
  Actors,      (* threads that work on the package                         *)
  Stated,      (* slot the tags or name of a repository give at install    *)
  Named,       (* slot its name alone gives, as the startup scan infers it *)
  Judged,      (* slot its card and Laya give                              *)
  Discovered,  (* what the sweep finds on the Hub for a capability         *)
  Operations,  (* which operations the instance runs                       *)
  MaxOps,      (* bound: operations begun                                  *)
  MaxLaunches  (* bound: times the application is killed and started       *)

DistinctAssumption ==
  /\ Caps \cap Repos = {}
  /\ None \notin Caps \cup Repos
InferenceAssumption ==
  /\ Stated \in [Repos -> Caps \cup {None}]
  /\ Named \in [Repos -> Caps \cup {None}]
  /\ Judged \in [Repos -> Caps \cup {None}]
  /\ Discovered \in [Caps -> Repos \cup {None}]
OfferedAssumption == Offered \subseteq Repos
BoundAssumption == MaxOps \in Nat /\ MaxLaunches \in Nat

VARIABLES
  manifest, (* Absent, Torn or the contents of manifest.json               *)
  disk,     (* per directory: what verify_adapter_files finds there        *)
  source,   (* directories with a source.txt                               *)
  marker,   (* directories with the unassigned-by-user marker              *)
  actor,    (* per thread: what it does, and its copy of the manifest      *)
  ops,      (* operations begun                                            *)
  launches  (* launches so far                                             *)

bounds == <<ops, launches>>
files == <<disk, source, marker>>
vars == <<manifest, disk, source, marker, actor, ops, launches>>

-----------------------------------------------------------------------------
(* The manifest.                                                           *)

Dirs == Caps \cup Repos
Empty == [x \in {} |-> None]

(* Maps: insert, entry.or_insert, and one laid over another.               *)
Insert(f, k, v) == [x \in DOMAIN f \cup {k} |-> IF x = k THEN v ELSE f[x]]
OrInsert(f, k, v) == [x \in DOMAIN f \cup {k} |-> IF x \in DOMAIN f THEN f[x] ELSE v]
Over(f, g) == [x \in DOMAIN f \cup DOMAIN g |-> IF x \in DOMAIN f THEN f[x] ELSE g[x]]

(* A record: the slot it serves, the directory adapter_file lies in, its   *)
(* repository and whether its status says installed.                       *)
Record(c, d, r) == [cap |-> c, dir |-> d, repo |-> r, installed |-> TRUE]
Placeholder(c) == [cap |-> c, dir |-> None, repo |-> None, installed |-> FALSE]

(* based: base_model.file_path names the weights.                          *)
NewManifest(active, based) ==
  [inventory |-> Empty, default |-> Empty, active |-> active, based |-> based]

(* An adapter is known by its repository, or by its slot without one.      *)
IdFor(r, c) == IF r.repo # None THEN r.repo ELSE c

(* What reading a parsed file yields: the active view of a file without an *)
(* inventory becomes the inventory.  Two records may have one id, and the  *)
(* map's order says which of them is kept.                                 *)
Migrations(m) ==
  IF DOMAIN m.inventory # {} \/ DOMAIN m.active = {}
    THEN {m}
    ELSE LET id == [c \in DOMAIN m.active |-> IdFor(m.active[c], c)]
             ids == {id[c] : c \in DOMAIN id}
         IN  {[m EXCEPT !.inventory = [i \in ids |-> m.active[keep[i]]],
                        !.default = Over(id, @)] :
                keep \in {k \in [ids -> DOMAIN id] : \A i \in ids : id[k[i]] = i}}

Unreadable == manifest \in {Absent, Torn}
Readings == IF Unreadable THEN {} ELSE Migrations(manifest)

(* The active view, recomputed: defaults of unknown ids are dropped.       *)
Rebuild(m) ==
  LET kept == {c \in DOMAIN m.default : m.default[c] \in DOMAIN m.inventory} IN
  [m EXCEPT !.default = [c \in kept |-> m.default[c]],
            !.active = [c \in kept |-> m.inventory[m.default[c]]]]

(* A mutant: the newcomer takes the slot over.                             *)
RegisterOver(m, id, r) ==
  Rebuild([m EXCEPT !.inventory = Insert(@, id, r), !.default = Insert(@, r.cap, id)])

(* A mutant: the slot is written directly, as before the inventory.        *)
RegisterActiveOnly(m, id, r) == [m EXCEPT !.active = Insert(@, r.cap, r)]

(* Into the inventory; the slot's default only when it has none.           *)
Register(m, id, r) ==
  Rebuild([m EXCEPT !.inventory = Insert(@, id, r), !.default = OrInsert(@, r.cap, id)])

(* The automatic writers' merge: a slot of the file whose own directory    *)
(* still holds weights is neither dropped nor downgraded.                  *)
Protected(m) ==
  LET old == IF Unreadable THEN Empty ELSE manifest.active
      back == {c \in DOMAIN old :
                 /\ disk[c] # "none"
                 /\ c \in DOMAIN m.active => ~m.active[c].installed}
  IN  [m EXCEPT !.active = Over([c \in back |-> old[c]], @)]

(* The resolver: what a turn for capability c binds under view v.          *)
Binds(v, c) ==
  /\ c \in DOMAIN v.active
  /\ v.active[c].installed
  /\ v.active[c].dir # None
  /\ disk[v.active[c].dir] = "gguf"

-----------------------------------------------------------------------------
(* Threads.                                                                *)

NoCopy == NewManifest(Empty, FALSE)
Resting(op) == [pc |-> "idle", op |-> op, dir |-> None, cap |-> None,
                copy |-> NoCopy, left |-> {}, dirty |-> FALSE]

At(a, pc) == actor[a].pc = pc
Finish(a) == actor' = [actor EXCEPT ![a] = Resting(actor[a].op)]
GiveUp(a) == actor' = [actor EXCEPT ![a] = Resting("none")]
Hold(a, pc, m) == actor' = [actor EXCEPT ![a].pc = pc, ![a].copy = m]

Begin(a, op, pc, d, c) ==
  /\ op \in Operations /\ At(a, "idle") /\ ops < MaxOps
  /\ ops' = ops + 1
  /\ actor' = [actor EXCEPT ![a] = [Resting(op) EXCEPT !.pc = pc, !.dir = d, !.cap = c]]
  /\ UNCHANGED <<manifest, files, launches>>

Init ==
  /\ manifest = Absent
  /\ disk = [d \in Dirs |-> "none"]
  /\ source = {}
  /\ marker = {}
  /\ actor = [a \in Actors |-> Resting("none")]
  /\ ops = 0
  /\ launches = 0

(* Writing the copy back: the automatic path merges, the user's does not.  *)
Save(a) ==
  /\ At(a, "save")
  /\ manifest' = Protected(actor[a].copy)
  /\ Finish(a)
  /\ UNCHANGED <<files, bounds>>

SaveForUser(a) ==
  /\ At(a, "save_user")
  /\ manifest' = actor[a].copy
  /\ Finish(a)
  /\ UNCHANGED <<files, bounds>>

-----------------------------------------------------------------------------
(* download_adapter.                                                       *)

Install(a) == \E d \in Offered : Begin(a, "install", "fetch", d, None)

(* A refusal before the folder is made changes nothing; any failure after  *)
(* it removes the folder, an earlier install included.                     *)
RemoveDir(d) ==
  /\ disk' = [disk EXCEPT ![d] = "none"]
  /\ source' = source \ {d}
  /\ marker' = marker \ {d}

Fetch(a) ==
  /\ At(a, "fetch")
  /\ \/ Finish(a) /\ UNCHANGED files
     \/ Finish(a) /\ RemoveDir(actor[a].dir)
     \/ /\ disk' = [disk EXCEPT ![actor[a].dir] = "gguf"]
        /\ actor' = [actor EXCEPT ![a].pc = "verify"]
        /\ UNCHANGED <<source, marker>>
  /\ UNCHANGED <<manifest, bounds>>

(* verify_is_lora_adapter reads what arrived.  Only then is source.txt     *)
(* written, the slot inferred and an old "Not used" forgotten.             *)
Verify(a) ==
  LET d == actor[a].dir IN
  /\ At(a, "verify")
  /\ \/ RemoveDir(d) /\ Finish(a)
     \/ /\ source' = source \cup {d}
        /\ marker' = marker \ {d}
        /\ IF Stated[d] = None
             THEN Finish(a)
             ELSE actor' = [actor EXCEPT ![a].pc = "register", ![a].cap = Stated[d]]
        /\ UNCHANGED disk
  /\ UNCHANGED <<manifest, bounds>>

(* Without a readable manifest one is made from the files and written.     *)
RegisterAdapter(a) ==
  LET d == actor[a].dir
      r == Record(actor[a].cap, d, d)
      fresh == NewManifest(Empty, TRUE)
  IN
  /\ At(a, "register")
  /\ \/ \E v \in Readings : Hold(a, "save", Register(v, d, r)) /\ UNCHANGED manifest
     \/ Unreadable /\ manifest' = fresh /\ Hold(a, "save", Register(fresh, d, r))
  /\ UNCHANGED <<files, bounds>>

-----------------------------------------------------------------------------
(* remove_adapter, set_adapter_capability, set_capability_default.         *)

(* What list_installed offers, and what verify_adapter_files accepts.      *)
Listed == {d \in Dirs : disk[d] = "gguf"}
Installed == {d \in Dirs : disk[d] # "none"}

Remove(a) ==
  /\ "remove" \in Operations /\ At(a, "idle") /\ ops < MaxOps
  /\ ops' = ops + 1
  /\ \E d \in Listed :
       /\ RemoveDir(d)
       /\ actor' = [actor EXCEPT ![a] =
                      [Resting("remove") EXCEPT !.pc = "clear", !.dir = d]]
  /\ UNCHANGED <<manifest, launches>>

Assign(a) ==
  \E d \in Listed, c \in Caps \cup {None} : Begin(a, "assign", "clear", d, c)

(* After clear_assignment: the removal is done, the reassignment goes on.  *)
Cleared(op) == IF op = "remove" THEN "idle" ELSE "place"

(* clear_assignment releases one slot of the active view that points into  *)
(* the directory; the inventory and the defaults are not touched.          *)
Release(v, c) == [v EXCEPT !.active[c] = Placeholder(c)]

Clear(a) ==
  /\ At(a, "clear")
  /\ \/ \E v \in Readings :
          LET held == {c \in DOMAIN v.active : v.active[c].dir = actor[a].dir} IN
          IF held = {}
            THEN /\ actor' = [actor EXCEPT ![a].pc = Cleared(actor[a].op)]
                 /\ UNCHANGED manifest
            ELSE \E c \in held : Hold(a, "clear_save", Release(v, c)) /\ UNCHANGED manifest
     \/ /\ Unreadable
        /\ actor' = [actor EXCEPT ![a].pc = Cleared(actor[a].op)]
        /\ UNCHANGED manifest
  /\ UNCHANGED <<files, bounds>>

ClearSave(a) ==
  /\ At(a, "clear_save")
  /\ manifest' = actor[a].copy
  /\ actor' = [actor EXCEPT ![a].pc = Cleared(actor[a].op), ![a].copy = NoCopy]
  /\ UNCHANGED <<files, bounds>>

(* "Not used" leaves the marker.  A slot makes the adapter its default.    *)
PlaceNowhere(a) ==
  /\ At(a, "place") /\ actor[a].cap = None
  /\ marker' = IF disk[actor[a].dir] = "none" THEN marker ELSE marker \cup {actor[a].dir}
  /\ Finish(a)
  /\ UNCHANGED <<manifest, disk, source, bounds>>

Place(a) ==
  LET d == actor[a].dir
      c == actor[a].cap
      r == Record(c, d, IF d \in source THEN d ELSE None)
      chosen(m) == Rebuild([m EXCEPT !.default = Insert(@, c, d)])
  IN
  /\ At(a, "place") /\ c # None
  /\ marker' = marker \ {d}
  /\ IF disk[d] = "none" \/ Unreadable
       THEN GiveUp(a)
       ELSE \E v \in Readings : Hold(a, "save_user", chosen(Register(v, d, r)))
  /\ UNCHANGED <<manifest, disk, source, bounds>>

SetDefault(a) ==
  /\ "set_default" \in Operations /\ At(a, "idle") /\ ops < MaxOps
  /\ ops' = ops + 1
  /\ \E v \in Readings, d \in Listed, c \in Caps :
       /\ d \in DOMAIN v.inventory /\ v.inventory[d].cap = c
       /\ actor' = [actor EXCEPT ![a] = [Resting("set_default") EXCEPT
                      !.pc = "save_user",
                      !.copy = Rebuild([v EXCEPT !.default = Insert(@, c, d)])]]
  /\ UNCHANGED <<manifest, files, launches>>

-----------------------------------------------------------------------------
(* The startup scan and the later sorting by Laya.                         *)

PointInto(f, d) == {f[k] : k \in {k \in DOMAIN f : f[k].dir = d}}

(* The directory's own record: active first, then anywhere.                *)
OwnRecords(m, d) ==
  IF PointInto(m.active, d) # {} THEN PointInto(m.active, d) ELSE PointInto(m.inventory, d)

(* A slot for a directory that holds none: its name, or what infer reads   *)
(* from its source, unless another adapter has the directory's id.         *)
Claim(m, d, infer) ==
  IF d \in DOMAIN m.inventory /\ m.inventory[d].dir # d THEN None
  ELSE IF d \in Caps THEN d
  ELSE IF d \in source THEN infer[d] ELSE None

RegisterDir(m, d, infer) ==
  LET own == OwnRecords(m, d)
      found == IF d \in source THEN d ELSE None
  IN  IF d \in marker THEN {}
      ELSE IF own # {}
        THEN {Register(m, d, Record(r.cap, d, IF r.repo # None THEN r.repo ELSE found)) : r \in own}
      ELSE IF Claim(m, d, infer) = None THEN {}
        ELSE {Register(m, d, Record(Claim(m, d, infer), d, found))}

Sorted(m, d) == PointInto(m.active, d) \cup PointInto(m.inventory, d) # {}

(* scan_package_adapters and assign_unsorted_when_laya_ready begin alike;  *)
(* Laya's pass looks only at directories no record points into.  Both run  *)
(* at a launch, and a quiet launch changes nothing else: they may begin    *)
(* whenever the thread rests.                                              *)
Scan(a) ==
  \E op \in {"scan", "laya"} : Begin(a, op, "read", None, None)

ReadForScan(a) ==
  /\ At(a, "read")
  /\ IF Unreadable
       THEN GiveUp(a)
       ELSE \E v \in Readings :
              actor' = [actor EXCEPT ![a].pc = "walk", ![a].copy = v, ![a].left = Installed]
  /\ UNCHANGED <<manifest, files, bounds>>

Walk(a) ==
  LET m == actor[a].copy
      laya == actor[a].op = "laya"
      infer == IF laya THEN Judged ELSE Named
  IN
  /\ At(a, "walk")
  /\ \E d \in actor[a].left :
       LET next == IF disk[d] = "none" \/ (laya /\ Sorted(m, d))
                     THEN {} ELSE RegisterDir(m, d, infer)
       IN  \/ /\ next = {}
              /\ actor' = [actor EXCEPT ![a].left = @ \ {d}]
           \/ \E n \in next :
                actor' = [actor EXCEPT ![a].left = @ \ {d}, ![a].copy = n, ![a].dirty = TRUE]
  /\ UNCHANGED <<manifest, files, bounds>>

(* A pass that registered nothing writes nothing; the scan's validation    *)
(* may still write back what it reads, with new runtime statuses.          *)
Walked(a) ==
  /\ At(a, "walk") /\ actor[a].left = {}
  /\ IF actor[a].dirty
       THEN actor' = [actor EXCEPT ![a].pc = "save"]
       ELSE \/ Finish(a)
            \/ \E v \in Readings : actor[a].op = "scan" /\ Hold(a, "save", v)
  /\ UNCHANGED <<manifest, files, bounds>>

-----------------------------------------------------------------------------
(* The sweep a model download starts, and the repair a load makes.         *)

Sweep(a) ==
  /\ "sweep" \in Operations /\ At(a, "idle") /\ ops < MaxOps
  /\ ops' = ops + 1
  /\ \E v \in (IF Unreadable THEN {NoCopy} ELSE Readings) :
       actor' = [actor EXCEPT ![a] = [Resting("sweep") EXCEPT
                   !.pc = "sweep", !.left = Caps, !.copy = NewManifest(v.active, FALSE)]]
  /\ UNCHANGED <<manifest, files, launches>>

(* is_adapter_installed_and_valid reads the file as it is now.             *)
AlreadyThere(c) ==
  \/ disk[c] # "none"
  \/ ~Unreadable /\ c \in DOMAIN manifest.active /\ manifest.active[c].installed

(* What one capability's task writes into the sweep's copy, or does not.   *)
Put(a, c, r) ==
  actor' = [actor EXCEPT ![a].left = @ \ {c}, ![a].copy.active = Insert(@, c, r)]
Keep(a, c) == actor' = [actor EXCEPT ![a].left = @ \ {c}]

(* What is there is not searched for, and entered where the copy lacks it. *)
PreDownloadCheck(a, c) ==
  LET found == actor[a].copy.active
      known == c \in DOMAIN found /\ found[c].installed
  IN
  /\ AlreadyThere(c)
  /\ IF known \/ disk[c] = "none" THEN Keep(a, c) ELSE Put(a, c, Record(c, c, None))
  /\ UNCHANGED disk

(* What is found is fetched; a file that cannot be created ends the slot's *)
(* task without a word.                                                    *)
FetchQuits(a, c) == Discovered[c] # None /\ Keep(a, c) /\ UNCHANGED disk

(* What arrives is converted, or is not.                                   *)
Landed(a, c) ==
  /\ Discovered[c] # None
  /\ \E form \in {"gguf", "peft"} : disk' = [disk EXCEPT ![c] = form]
  /\ Put(a, c, Record(c, c, Discovered[c]))

(* Nothing found, or nothing arrived.                                      *)
Unavailable(a, c) == Put(a, c, Placeholder(c)) /\ UNCHANGED disk

SweepOne(a) ==
  /\ At(a, "sweep")
  /\ \E c \in actor[a].left :
       \/ PreDownloadCheck(a, c)
       \/ ~AlreadyThere(c) /\ (FetchQuits(a, c) \/ Landed(a, c) \/ Unavailable(a, c))
  /\ UNCHANGED <<manifest, source, marker, bounds>>

Swept(a) ==
  /\ At(a, "sweep") /\ actor[a].left = {}
  /\ actor' = [actor EXCEPT ![a].pc = "save"]
  /\ UNCHANGED <<manifest, files, bounds>>

(* ensure_valid_manifest: made anew when unreadable, repaired when it does *)
(* not name the weights.                                                   *)
Load(a) ==
  /\ "load" \in Operations /\ At(a, "idle") /\ ops < MaxOps
  /\ ops' = ops + 1
  /\ \/ /\ Unreadable
        /\ actor' = [actor EXCEPT ![a] = [Resting("load") EXCEPT
                       !.pc = "save", !.copy = NewManifest(Empty, TRUE)]]
     \/ \E v \in Readings :
          /\ ~v.based
          /\ actor' = [actor EXCEPT ![a] = [Resting("load") EXCEPT
                         !.pc = "save", !.copy = [v EXCEPT !.based = TRUE]]]
  /\ UNCHANGED <<manifest, files, launches>>

(* The application ends anywhere; what was being written may be torn.      *)
Restart ==
  /\ launches < MaxLaunches
  /\ launches' = launches + 1
  /\ actor' = [a \in Actors |-> Resting("none")]
  /\ \/ UNCHANGED manifest
     \/ /\ \E a \in Actors : actor[a].pc \in {"save", "save_user", "clear_save"}
        /\ manifest' = Torn
  /\ UNCHANGED <<files, ops>>

Steps(a) ==
  \/ Install(a) \/ Fetch(a) \/ Verify(a) \/ RegisterAdapter(a)
  \/ Remove(a) \/ Assign(a) \/ Clear(a) \/ ClearSave(a)
  \/ PlaceNowhere(a) \/ Place(a) \/ SetDefault(a)
  \/ Scan(a) \/ ReadForScan(a) \/ Walk(a) \/ Walked(a)
  \/ Sweep(a) \/ SweepOne(a) \/ Swept(a) \/ Load(a)
  \/ Save(a) \/ SaveForUser(a)

Next == Restart \/ \E a \in Actors : Steps(a)
Spec == Init /\ [][Next]_vars

-----------------------------------------------------------------------------
(* Properties.                                                             *)

Records == [cap : Caps, dir : Dirs \cup {None}, repo : Repos \cup {None},
            installed : BOOLEAN]
PartialMap(X, Y) == UNION {[x -> Y] : x \in SUBSET X}
IsManifest(m) ==
  /\ DOMAIN m.inventory \subseteq Dirs
  /\ DOMAIN m.default \subseteq Caps
  /\ DOMAIN m.active \subseteq Caps
  /\ \A i \in DOMAIN m.inventory : m.inventory[i] \in Records
  /\ \A c \in DOMAIN m.default : m.default[c] \in Dirs
  /\ \A c \in DOMAIN m.active : m.active[c] \in Records
  /\ m.based \in BOOLEAN

(* Every value has its type; a placeholder names no directory.             *)
TypeOK ==
  /\ manifest \in {Absent, Torn} \/ IsManifest(manifest)
  /\ disk \in [Dirs -> {"none", "gguf", "peft"}]
  /\ source \subseteq Repos /\ marker \subseteq Dirs
  /\ \A a \in Actors :
       /\ IsManifest(actor[a].copy)
       /\ actor[a].left \subseteq Dirs /\ actor[a].dirty \in BOOLEAN
       /\ actor[a].dir \in Dirs \cup {None} /\ actor[a].cap \in Caps \cup {None}
  /\ \A v \in Readings : \A c \in DOMAIN v.active :
       v.active[c].installed <=> v.active[c].dir # None

(* One record may take another's place unnoticed: the same files, or those *)
(* of the same repository.                                                 *)
SameAdapter(r, q) == r.dir = q.dir \/ (r.repo # None /\ r.repo = q.repo)

(* However the file is read, each default is in the inventory, and an      *)
(* adapter some turn would bind is in the inventory too: the next rebuild  *)
(* of the active view cannot lose it.                                      *)
BoundIsInventoried ==
  \A v \in Readings :
    /\ \A c \in DOMAIN v.default : v.default[c] \in DOMAIN v.inventory
    /\ \A c \in Caps : Binds(v, c) =>
         \E i \in DOMAIN v.inventory : SameAdapter(v.inventory[i], v.active[c])

KeepsLiveSlots ==
  \A v \in Readings, w \in Readings', c \in Caps :
    Binds(v, c) =>
      c \in DOMAIN w.active /\ w.active[c].installed /\ SameAdapter(v.active[c], w.active[c])

(* A slot that binds a usable adapter goes on binding it until the user    *)
(* chooses another: no install, sorting, sweep or repair takes it over,    *)
(* whatever the manifest went through before.                              *)
LiveSlotsKept ==
  [][ \A a \in Actors : Save(a) /\ actor[a].op # "scan" => KeepsLiveSlots ]_vars

(* mod.rs: setting an adapter to "Not used" lasts, scans and installs of   *)
(* other adapters do not put it back into a slot.                          *)
NotUsedStays ==
  \A v \in Readings : \A c \in DOMAIN v.active : v.active[c].dir \notin marker

(* commands/adapters.rs: the first adapter installed for a capability      *)
(* becomes the one it binds.                                               *)
FirstBecomesDefault ==
  [][ \A a \in Actors :
        /\ Save(a) /\ actor[a].op = "install"
        /\ \A v \in Readings : \A i \in DOMAIN v.inventory :
             v.inventory[i].cap = actor[a].cap => ~v.inventory[i].installed
        => \A w \in Readings' : w.active[actor[a].cap].dir = actor[a].dir ]_vars

=============================================================================
