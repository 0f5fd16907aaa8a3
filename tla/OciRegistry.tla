---------------------------- MODULE OciRegistry -----------------------------
(* The OCI artifact transport of .eth images:                               *)
(* ethereal-tools/tools/oci_registry.py.  Several client processes push,    *)
(* pull and inspect on one store, which is a local layout directory or an   *)
(* HTTP registry.  Every file operation and every request is a step, and a  *)
(* process may die between any two of them.                                 *)
(*                                                                          *)
(* Content is a pair <<kind, document>>, where the tar of an image is its   *)
(* name i and Images[i] the image itself; Torn is what a reader sees of a file   *)
(* that is truncated, mixed or rotten: no JSON, no image, and no digest     *)
(* equal to a whole content's.                                              *)
EXTENDS EthImage

CONSTANTS Clients, Images, Jobs, Scenarios

VARIABLES kind,       \* "layout" or "registry"
          fs,         \* path -> [c, open]: content, clients with a handle on it
          cl,         \* each client's progress
          jobs,       \* commands that may still be started (a bound)
          rot,        \* "no", "may" (one stored file may still rot) or "has"
          deferred,   \* blobs a registry answered 202 for without storing them
          raced,      \* two pushes met on a temporary file or on the index
          shared,     \* destinations two pulls staged at the same time
          published,  \* pushes that reported success
          delivered   \* destination -> the pull that put its file there

vars == <<kind, fs, cl, jobs, rot, deferred, raced, shared, published, delivered>>
ghosts == <<deferred, raced, shared, published, delivered>>

-----------------------------------------------------------------------------
(* Digests, descriptors and documents                                       *)

None == "none"
NoDigest == <<>>
Torn == <<"torn", "torn">>
SizeOf(b) == 1      \* contents all have one length; a foreign descriptor may lie

Desc(media, b) == [media |-> media, digest |-> Sha256(b), size |-> SizeOf(b)]
VerifyDigest(b, d) == SizeOf(b) = d.size /\ Sha256(b) = d.digest

EthBytes(i) == <<"eth", i>>
ConfigDocument(i, layer) ==
  <<"config", [name |-> Images[i].name, target |-> Images[i].target,
               manifest_digest |-> Images[i].digest,
               fingerprint |-> Images[i].sig.by, artifact |-> layer]>>
ManifestDocument(config, layers) ==
  <<"manifest", [media |-> "manifest", artifact |-> "eth",
                 config |-> config, layers |-> layers]>>

ParseRef(ref) == IF ref.wf THEN {ref} ELSE {}
TagOf(ref) == IF ref.tag = None THEN "latest" ELSE ref.tag

\* the two documents of a push: the config is made from the image that was
\* verified, the layer from the second read of the file
LayerOf(job)  == Desc("eth", EthBytes(job.reread))
ConfigOf(job) == ConfigDocument(job.img, LayerOf(job))
ManifestOf(job) ==
  ManifestDocument(Desc("config", ConfigOf(job)), <<LayerOf(job)>>)

\* the part of _resolve that reads the manifest document
ManifestOk(b) ==
  /\ b[1] = "manifest"
  /\ b[2].media = "manifest" /\ b[2].artifact \in {None, "eth"}
  /\ b[2].config.media = "config"
  /\ Len(b[2].layers) = 1 /\ b[2].layers[1].media = "eth"

\* ... and the config document, which pins the layer
ConfigOk(b, man) ==
  /\ VerifyDigest(b, man[2].config)
  /\ b[1] = "config"
  /\ b[2].artifact = man[2].layers[1]

CheckConfigMatches(e, cfg) ==
  /\ e.digest = cfg[2].manifest_digest
  /\ <<e.name, e.target>> = <<cfg[2].name, cfg[2].target>>
  /\ e.sig.by = cfg[2].fingerprint

-----------------------------------------------------------------------------
(* Paths and files.  A layout shares blobs between repositories, a registry *)
(* keeps them per repository.                                               *)

Marker == <<"oci-layout">>
Index  == <<"index.json">>
Blob(name, digest) == IF kind = "layout" THEN <<"blob", digest>>
                      ELSE <<"blob", digest, name>>
Tag(name, tag)  == <<"tag", tag, name>>
\* Mutant: files are written in place
Bug_Temp(path) == path

Temp(path)      == <<"tmp", path>>
Dest(d)         == <<"dest", d>>
Part(d)         == <<"part", d>>

Exists(path) == path \in DOMAIN fs
File(b, who) == [c |-> b, open |-> who]
Without(f, paths) == [p \in DOMAIN f \ paths |-> f[p]]
With(f, key, val) == [k \in DOMAIN f \cup {key} |-> IF k = key THEN val ELSE f[k]]
Put(f, path, b) == With(f, path, File(b, {}))

MarkerBytes == <<"marker", "1.0.0">>
IndexBytes(entries) == <<"index", entries>>
Entry(job) == [tag |-> TagOf(job.ref), owner |-> job.ref.name,
               desc |-> Desc("manifest", ManifestOf(job))]
\* Mutant: a tag is unique in the layout, whatever the repository
Bug_SameLabel(a, b) == a.tag = b.tag

SameLabel(a, b) == a.tag = b.tag /\ a.owner = b.owner

\* _load_index succeeds
Loadable(f) == /\ Marker \in DOMAIN f /\ f[Marker].c = MarkerBytes
               /\ Index \in DOMAIN f /\ f[Index].c[1] = "index"
Entries == fs[Index].c[2]

\* get_manifest on a layout: an entry of another tool, which has no owner,
\* sorts before the owned ones
Matching(ref) ==
  {e \in Entries : e.tag = TagOf(ref) /\ e.owner \in {None, ref.name}}
FirstMatch(ref) ==
  CHOOSE e \in Matching(ref) :
    e.owner = None \/ \A x \in Matching(ref) : x.owner # None

ReadBlob(name, digest) ==
  LET p == Blob(name, digest)
  IN  IF Exists(p) /\ Sha256(fs[p].c) = digest THEN {fs[p].c} ELSE {}

\* the manifest ref resolves to, as a set: empty when get_manifest raises
GetManifest(ref) ==
  IF kind = "registry"
  THEN IF ref.digest # NoDigest THEN ReadBlob(ref.name, ref.digest)
       ELSE {fs[p].c : p \in {Tag(ref.name, TagOf(ref))} \cap DOMAIN fs}
  ELSE IF ~Loadable(fs) THEN {}
  ELSE IF ref.digest # NoDigest THEN ReadBlob(ref.name, ref.digest)
  ELSE IF Matching(ref) = {} THEN {}
  ELSE ReadBlob(ref.name, FirstMatch(ref).desc.digest)

\* A store found at the start is a set of closed files, and a repository has a name.
ASSUME StoreAssumption ==
  \A s \in Scenarios :
    /\ s.kind \in {"layout", "registry"} /\ s.jobs \in Nat /\ s.rot \in {"no", "may"}
    /\ s.fs = [p \in DOMAIN s.fs |-> File(s.fs[p].c, {})]
ASSUME RefAssumption == \A j \in Jobs : j.ref.name # None

-----------------------------------------------------------------------------
(* Clients                                                                  *)

Idle == [pc |-> "idle"]
Working(c) == cl[c].pc # "idle"
At(c, pc) == cl[c].pc = pc
Goto(c, pc) == cl' = [cl EXCEPT ![c].pc = pc]
Fail(c) == cl' = [cl EXCEPT ![c] = Idle]

\* put_blob and _atomic_write, file by file
PutFile(path, b, dedup) == [path |-> path, b |-> b, dedup |-> dedup]
NextFile(todo) == IF todo = <<>> THEN "load"
                  ELSE IF Head(todo).dedup THEN "check" ELSE "open"
\* Mutant: the layer is taken to be there when its config is
Bug_PushFiles(job) ==
  LET B(b) == PutFile(Blob(job.ref.name, Sha256(b)), b, TRUE)
  IN  <<B(ConfigOf(job))>>
      \o IF kind = "layout" THEN <<B(ManifestOf(job))>> ELSE <<B(ConfigOf(job))>>

PushFiles(job) ==
  LET B(b) == PutFile(Blob(job.ref.name, Sha256(b)), b, TRUE)
  IN  IF kind = "layout"
      THEN <<B(ConfigOf(job)), B(EthBytes(job.reread)), B(ManifestOf(job))>>
      ELSE <<B(ConfigOf(job)), B(EthBytes(job.reread))>>

\* what push refuses before it touches the store
PushRefused(job) ==
  \/ ParseRef(job.ref) = {} \/ job.ref.digest # NoDigest
  \/ Images[job.img].sig # NoSig /\ job.keys = {}
  \/ Verify(Images[job.img], job.keys, TRUE) # "ok"

Push(c, job) ==
  /\ job.cmd = "push" /\ ~Working(c) /\ jobs > 0
  /\ jobs' = jobs - 1
  /\ IF PushRefused(job) THEN UNCHANGED cl
     ELSE cl' = [cl EXCEPT ![c] = [pc |-> "check", job |-> job,
                                   todo |-> PushFiles(job)]]
  /\ UNCHANGED <<kind, fs, rot, ghosts>>

Todo(c) == Head(cl[c].todo)

\* the file is in place, or was found there: on to the next one.  A registry's
\* last request is the manifest, a layout's last files are marker and index
Advance(c) ==
  LET rest == Tail(cl[c].todo)
  IN  cl' = [cl EXCEPT ![c].todo = rest,
                       ![c].pc = IF rest = <<>> /\ kind = "registry" THEN "put"
                                 ELSE NextFile(rest)]

Published(c) ==
  /\ published' = published \cup {cl[c].job}
  /\ cl' = [cl EXCEPT ![c] = Idle]

\* is_file: dedup
PutCheck(c) ==
  /\ At(c, "check") /\ kind = "layout"
  /\ IF Exists(Todo(c).path) THEN Advance(c) ELSE Goto(c, "open")
  /\ UNCHANGED <<kind, fs, jobs, rot, ghosts>>

OthersOn(c, path) ==
  \E x \in Clients \ {c} : /\ cl[x].pc \in {"open", "write", "replace"}
                           /\ Todo(x).path = path

\* tmp.write_bytes opens (and truncates) ...
PutOpen(c) ==
  /\ At(c, "open")
  /\ LET t == Temp(Todo(c).path)
         others == IF Exists(t) THEN fs[t].open ELSE {}
     IN  fs' = With(fs, t, File(Torn, others \cup {c}))
  /\ raced' = (raced \/ OthersOn(c, Todo(c).path))
  /\ Goto(c, "write")
  /\ UNCHANGED <<kind, jobs, rot, deferred, shared, published, delivered>>

\* ... and writes through the handle, wherever the file is named by now
Handled(c) == {p \in DOMAIN fs : c \in fs[p].open}
Written(old, b) == IF old \in {Torn, b} THEN {b} ELSE {b, Torn}
Write(c, b) ==
  IF Handled(c) = {} THEN UNCHANGED fs
  ELSE \E p \in Handled(c) : \E new \in Written(fs[p].c, b) :
         fs' = [fs EXCEPT ![p] = File(new, @.open \ {c})]

PutWrite(c) ==
  /\ At(c, "write")
  /\ Write(c, Todo(c).b)
  /\ Goto(c, "replace")
  /\ UNCHANGED <<kind, jobs, rot, ghosts>>

Rename(from, to) == fs' = With(Without(fs, {from}), to, fs[from])

\* os.replace; the index is the last file of a push
PutReplace(c) ==
  /\ At(c, "replace")
  /\ LET t == Temp(Todo(c).path)
     IN  IF ~Exists(t)
         THEN Fail(c) /\ UNCHANGED <<fs, published>>
         ELSE /\ Rename(t, Todo(c).path)
              /\ IF Todo(c).path = Index THEN Published(c)
                 ELSE Advance(c) /\ UNCHANGED published
  /\ UNCHANGED <<kind, jobs, rot, deferred, raced, shared, delivered>>

\* put_manifest: read the index and compute the new one
NewEntries(old, e) == {x \in old : ~SameLabel(x, e)} \cup {e}
PutLoad(c) ==
  /\ At(c, "load")
  /\ LET old == IF Exists(Marker) THEN Entries ELSE {}
         new == IndexBytes(NewEntries(old, Entry(cl[c].job)))
     IN  IF Exists(Marker) /\ ~Loadable(fs) THEN Fail(c) /\ UNCHANGED raced
         ELSE /\ cl' = [cl EXCEPT ![c].pc = "check", ![c].todo =
                          <<PutFile(Marker, MarkerBytes, TRUE),
                            PutFile(Index, new, FALSE)>>]
              /\ raced' = (raced \/ \E x \in Clients \ {c} :
                             /\ cl[x].pc \in {"check", "open", "write", "replace"}
                             /\ cl[x].todo[Len(cl[x].todo)].path = Index)
  /\ UNCHANGED <<kind, fs, jobs, rot, deferred, shared, published, delivered>>

\* a registry: HEAD, POST when the answer is 404, and PUT of the manifest.
\* Every request may fail, before or after the server has acted on it.
HeadBlob(c) ==
  /\ At(c, "check") /\ kind = "registry"
  /\ \/ IF Exists(Todo(c).path) THEN Advance(c) ELSE Goto(c, "post")
     \/ Fail(c)
  /\ UNCHANGED <<kind, fs, jobs, rot, ghosts>>

PostBlob(c) ==
  /\ At(c, "post")
  /\ \/ /\ fs' = Put(fs, Todo(c).path, Todo(c).b)            \* 201
        /\ Advance(c) /\ UNCHANGED deferred
     \/ /\ deferred' = deferred \cup {Todo(c).path}          \* 202
        /\ Advance(c) /\ UNCHANGED fs
     \/ /\ fs' \in {fs, Put(fs, Todo(c).path, Todo(c).b)}    \* error, timeout
        /\ Fail(c) /\ UNCHANGED deferred
  /\ UNCHANGED <<kind, jobs, rot, raced, shared, published, delivered>>

Tagged(job) ==
  LET m == ManifestOf(job)
  IN  Put(Put(fs, Tag(job.ref.name, TagOf(job.ref)), m),
          Blob(job.ref.name, Sha256(m)), m)

PutManifest(c) ==
  /\ At(c, "put")
  /\ \/ fs' = Tagged(cl[c].job) /\ Published(c)
     \/ fs' \in {fs, Tagged(cl[c].job)} /\ Fail(c) /\ UNCHANGED published
  /\ UNCHANGED <<kind, jobs, rot, deferred, raced, shared, delivered>>

-----------------------------------------------------------------------------
(* pull and inspect                                                         *)

Fetch(c, job) ==
  /\ job.cmd \in {"pull", "inspect"} /\ ~Working(c) /\ jobs > 0
  /\ jobs' = jobs - 1
  /\ IF ParseRef(job.ref) = {} THEN UNCHANGED cl
     ELSE cl' = [cl EXCEPT ![c] = [pc |-> "manifest", job |-> job,
                                   man |-> Torn, cfg |-> Torn, layer |-> Torn]]
  /\ UNCHANGED <<kind, fs, rot, ghosts>>

Lost(c) == kind = "registry" /\ Fail(c)

ResolveManifest(c) ==
  /\ At(c, "manifest")
  /\ \/ \E b \in GetManifest(cl[c].job.ref) :
          ManifestOk(b) /\ cl' = [cl EXCEPT ![c].pc = "config", ![c].man = b]
     \/ (\A b \in GetManifest(cl[c].job.ref) : ~ManifestOk(b)) /\ Fail(c)
     \/ Lost(c)
  /\ UNCHANGED <<kind, fs, jobs, rot, ghosts>>

ConfigBlob(c) == ReadBlob(cl[c].job.ref.name, cl[c].man[2].config.digest)
ResolveConfig(c) ==
  /\ At(c, "config")
  /\ \/ \E b \in ConfigBlob(c) :
          /\ ConfigOk(b, cl[c].man)
          /\ IF cl[c].job.cmd = "inspect" THEN Fail(c)
             ELSE cl' = [cl EXCEPT ![c].pc = "layer", ![c].cfg = b]
     \/ (\A b \in ConfigBlob(c) : ~ConfigOk(b, cl[c].man)) /\ Fail(c)
     \/ Lost(c)
  /\ UNCHANGED <<kind, fs, jobs, rot, ghosts>>

LayerBlob(c) == ReadBlob(cl[c].job.ref.name, cl[c].man[2].layers[1].digest)
PullLayer(c) ==
  /\ At(c, "layer")
  /\ \/ \E b \in LayerBlob(c) :
          /\ VerifyDigest(b, cl[c].man[2].layers[1])
          /\ cl' = [cl EXCEPT ![c].pc = "stage", ![c].layer = b]
     \/ (\A b \in LayerBlob(c) : ~VerifyDigest(b, cl[c].man[2].layers[1])) /\ Fail(c)
     \/ Lost(c)
  /\ UNCHANGED <<kind, fs, jobs, rot, ghosts>>

Staging == {"staged", "verify", "rename"}
PullStage(c) ==
  /\ At(c, "stage")
  /\ LET d == cl[c].job.dest
         others == IF Exists(Part(d)) THEN fs[Part(d)].open ELSE {}
     IN  /\ fs' = With(fs, Part(d), File(Torn, others \cup {c}))
         /\ shared' = IF \E x \in Clients \ {c} :
                           cl[x].pc \in Staging /\ cl[x].job.dest = d
                      THEN shared \cup {d} ELSE shared
  /\ Goto(c, "staged")
  /\ UNCHANGED <<kind, jobs, rot, deferred, raced, published, delivered>>

PullWrite(c) ==
  /\ At(c, "staged")
  /\ Write(c, cl[c].layer)
  /\ Goto(c, "verify")
  /\ UNCHANGED <<kind, jobs, rot, ghosts>>

\* Mutant: the artifact is not compared with the config
Bug_PullAccepts(b, job, cfg) ==
  b[1] = "eth" /\ Verify(Images[b[2]], job.keys, job.allow) = "ok"

\* ethimg.verify and _check_config_matches on the staged file; a refused or
\* vanished file is unlinked
PullAccepts(b, job, cfg) ==
  /\ b[1] = "eth"
  /\ Verify(Images[b[2]], job.keys, job.allow) = "ok"
  /\ CheckConfigMatches(Images[b[2]], cfg)

PullVerify(c) ==
  /\ At(c, "verify")
  /\ LET part == Part(cl[c].job.dest)
     IN  IF Exists(part) /\ PullAccepts(fs[part].c, cl[c].job, cl[c].cfg)
         THEN Goto(c, "rename") /\ UNCHANGED fs
         ELSE Fail(c) /\ fs' = Without(fs, {part})
  /\ UNCHANGED <<kind, jobs, rot, ghosts>>

PullRename(c) ==
  /\ At(c, "rename")
  /\ LET d == cl[c].job.dest
     IN  IF Exists(Part(d))
         THEN /\ Rename(Part(d), Dest(d))
              /\ delivered' = With(delivered, d, [job |-> cl[c].job, man |-> cl[c].man,
                                                  cfg |-> cl[c].cfg])
         ELSE UNCHANGED <<fs, delivered>>
  /\ Fail(c)
  /\ UNCHANGED <<kind, jobs, rot, deferred, raced, shared, published>>

-----------------------------------------------------------------------------
(* Faults: a process dies and the kernel closes its handle; a stored file   *)
(* rots.                                                                    *)

Crash(c) ==
  /\ Working(c)
  /\ fs' = [p \in DOMAIN fs |-> File(fs[p].c, fs[p].open \ {c})]
  /\ Fail(c)
  /\ UNCHANGED <<kind, jobs, rot, ghosts>>

Rot(p) ==
  /\ rot = "may" /\ p[1] \in {"blob", "tag"} /\ fs[p].c # Torn
  /\ fs' = [fs EXCEPT ![p].c = Torn]
  /\ rot' = "has"
  /\ UNCHANGED <<kind, cl, jobs, ghosts>>

Init ==
  /\ \E s \in Scenarios : kind = s.kind /\ fs = s.fs /\ jobs = s.jobs /\ rot = s.rot
  /\ cl = [c \in Clients |-> Idle]
  /\ deferred = {} /\ raced = FALSE /\ shared = {}
  /\ published = {} /\ delivered = [d \in {} |-> Idle]

PushStep(c) ==
  \/ \E j \in Jobs : Push(c, j)
  \/ PutCheck(c) \/ PutOpen(c) \/ PutWrite(c) \/ PutReplace(c) \/ PutLoad(c)
  \/ HeadBlob(c) \/ PostBlob(c) \/ PutManifest(c)

PullStep(c) ==
  \/ \E j \in Jobs : Fetch(c, j)
  \/ ResolveManifest(c) \/ ResolveConfig(c) \/ PullLayer(c)
  \/ PullStage(c) \/ PullWrite(c) \/ PullVerify(c) \/ PullRename(c)

Next == \/ \E c \in Clients : PushStep(c) \/ PullStep(c) \/ Crash(c)
        \/ \E p \in DOMAIN fs : Rot(p)

Spec == Init /\ [][Next]_vars
-----------------------------------------------------------------------------
(* Properties                                                               *)

Pcs == {"idle", "check", "open", "write", "replace", "load", "post", "put",
        "manifest", "config", "layer"} \cup {"stage"} \cup Staging

\* Types, and: a handle is open on a file only while its client is between
\* open and write of that file, the index is only ever an index or torn
\* (tmp.write_bytes, staged.write_bytes).
TypeOK ==
  /\ kind \in {"layout", "registry"}
  /\ jobs \in Nat /\ rot \in {"no", "may", "has"}
  /\ \A c \in Clients : cl[c].pc \in Pcs
  /\ \A p \in DOMAIN fs : \A c \in fs[p].open : cl[c].pc \in {"write", "staged"}
  /\ Exists(Index) => fs[Index].c = Torn \/ fs[Index].c[1] = "index"

Label(j) == <<j.ref.name, TagOf(j.ref)>>
Pushes == {j \in Jobs : j.cmd = "push"}

\* Whatever was torn, rotten, re-tagged or swapped in the store on the way, and
\* however pushes, crashes and pulls interleave: the file a successful pull
\* leaves passes ethimg.verify under that pull's own policy and is the artifact
\* its manifest and config describe; and a pull by tag delivers an image some
\* push put under that repository and tag, never another repository's.  The
\* exceptions the code makes: two pulls into one destination, which share one
\* .part file, and manifests no push of this tool makes (another tool's unowned
\* entries, get_manifest).
DeliveredTruth ==
  \A d \in DOMAIN delivered \ shared :
    LET b == fs[Dest(d)].c
        job == delivered[d].job
        man == delivered[d].man
    IN  /\ b[1] = "eth" /\ Verify(Images[b[2]], job.keys, job.allow) = "ok"
        /\ VerifyDigest(b, man[2].layers[1])
        /\ CheckConfigMatches(Images[b[2]], delivered[d].cfg)
        /\ \/ job.ref.digest # NoDigest
           \/ \A k \in Pushes : man # ManifestOf(k)
           \/ \E k \in Pushes : /\ Label(k) = Label(job) /\ man = ManifestOf(k)
                               /\ b = EthBytes(k.reread)

Reaches(name, m) ==
  {Blob(name, m[2].config.digest), Blob(name, m[2].layers[1].digest)}

\* The tag comes last: at every moment, crashes and lost answers included,
\* the config and the layer of a tagged manifest are in the store, except
\* blobs a registry acknowledged with 202 and never stored.
TagClosed ==
  /\ kind = "layout" /\ Loadable(fs) =>
       \A e \in Entries :
         LET p == Blob(e.owner, e.desc.digest)
         IN  /\ Exists(p)
             /\ ManifestOk(fs[p].c) =>
                  Reaches(e.owner, fs[p].c) \subseteq DOMAIN fs
  /\ kind = "registry" =>
       \A p \in DOMAIN fs : p[1] = "tag" /\ ManifestOk(fs[p].c) =>
         Reaches(p[3], fs[p].c) \subseteq DOMAIN fs \cup deferred

\* "An interrupted push never leaves a half-written blob or index behind"
\* (LayoutStore): true of every crash as long as no two pushes meet on one
\* temporary file, and of the files pulls deliver.  And "a corrupt .eth never
\* reaches a store" (push).
StoreIntact ==
  /\ TypeOK
  /\ rot # "has" /\ ~raced =>
       \A p \in DOMAIN fs :
         fs[p].c = Torn => p[1] \in {"tmp", "part"} \/ p \in {Dest(d) : d \in shared}
  /\ \A p \in DOMAIN fs : fs[p].c[1] = "eth" =>
       Integrity(Images[fs[p].c[2]]) /\ CheckCapabilities(Images[fs[p].c[2]].members)

Unowned(tag) == kind = "layout" /\ Loadable(fs)
                /\ \E e \in Entries : e.owner = None /\ e.tag = tag

Pullable(ref, m) ==
  /\ ManifestOk(m)
  /\ \E cfg \in ReadBlob(ref.name, m[2].config.digest) :
       \E b \in ReadBlob(ref.name, m[2].layers[1].digest) :
         /\ ConfigOk(cfg, m) /\ VerifyDigest(b, m[2].layers[1])
         /\ CheckConfigMatches(Images[b[2]], cfg)

\* A push that reported success stays visible: its tag resolves to it or to a
\* later push to the same tag, and what it resolves to can be pulled.  The
\* exemptions are the ways the code loses it: two pushes racing on the index,
\* rot, a 202, an unowned entry shadowing the tag, and a file that changed
\* between the verification and the second read.
PushThenPull ==
  \A j \in published :
    \/ raced \/ rot = "has" \/ deferred # {} \/ Unowned(TagOf(j.ref))
    \/ \E m \in GetManifest(j.ref) : \E k \in Pushes :
         /\ Label(k) = Label(j) /\ m = ManifestOf(k)
         /\ k.img = k.reread => Pullable(j.ref, m)

=============================================================================
