------------------------- MODULE OciRegistryProofs --------------------------
(***************************************************************************)
(* Theorems about the artifact store, for any number of client processes,  *)
(* any images, jobs and contents found at the start, and a crash of a      *)
(* process or a lost answer at every step.                                 *)
(***************************************************************************)
EXTENDS OciRegistry, TLAPS

USE StoreAssumption, RefAssumption

Pushing == {"check", "open", "write", "replace", "load", "post", "put"}
Pulling == {"manifest", "config", "layer", "stage", "staged", "verify", "rename"}

PushRecord(c) == [pc |-> cl[c].pc, job |-> cl[c].job, todo |-> cl[c].todo]
PullRecord(c) == [pc |-> cl[c].pc, job |-> cl[c].job, man |-> cl[c].man,
                  cfg |-> cl[c].cfg, layer |-> cl[c].layer]

FileStore(f) == f = [p \in DOMAIN f |-> File(f[p].c, f[p].open)]

\* A client is idle, pushes or fetches one of the jobs; the store is a set of files.
ShapeInv ==
  /\ kind \in {"layout", "registry"} /\ jobs \in Nat
  /\ FileStore(fs)
  /\ cl = [c \in Clients |-> cl[c]]
  /\ \A c \in Clients :
       \/ cl[c] = Idle
       \/ /\ cl[c] = PushRecord(c) /\ cl[c].pc \in Pushing
          /\ cl[c].job \in Pushes
       \/ /\ cl[c] = PullRecord(c) /\ cl[c].pc \in Pulling
          /\ cl[c].job \in Jobs

-----------------------------------------------------------------------------
(* Operators.                                                              *)

LEMMA Todo1 ==
  ASSUME NEW x PROVE Head(<<x>>) = x /\ Tail(<<x>>) = <<>> /\ <<x>> # <<>>
  OBVIOUS

LEMMA Todo2 ==
  ASSUME NEW x, NEW y
  PROVE  Head(<<x, y>>) = x /\ Tail(<<x, y>>) = <<y>> /\ <<x, y>> # <<>>
  OBVIOUS

LEMMA Todo3 ==
  ASSUME NEW x, NEW y, NEW z
  PROVE  Head(<<x, y, z>>) = x /\ Tail(<<x, y, z>>) = <<y, z>> /\ <<x, y, z>> # <<>>
  OBVIOUS

\* A client that fails or finishes is idle; another one is not touched.
LEMMA FailFacts ==
  ASSUME ShapeInv, NEW c \in Clients, Fail(c)
  PROVE  /\ cl' = [x \in Clients |-> cl'[x]] /\ cl'[c] = Idle
         /\ \A x \in Clients : x # c => cl'[x] = cl[x]
  BY DEF ShapeInv, Fail

LEMMA GotoFacts ==
  ASSUME ShapeInv, NEW c \in Clients, NEW pc, Goto(c, pc), cl[c].pc # "idle"
  PROVE  /\ cl' = [x \in Clients |-> cl'[x]]
         /\ \A x \in Clients : x # c => cl'[x] = cl[x]
         /\ cl'[c].pc = pc /\ cl'[c].job = cl[c].job
         /\ cl[c].pc \in Pushing => cl'[c] = [pc |-> pc, job |-> cl[c].job, todo |-> cl[c].todo]
         /\ cl[c].pc \in Pulling =>
              cl'[c] = [pc |-> pc, job |-> cl[c].job, man |-> cl[c].man,
                        cfg |-> cl[c].cfg, layer |-> cl[c].layer]
  <1>1. cl' = [cl EXCEPT ![c] = [cl[c] EXCEPT !.pc = pc]]
    BY DEF Goto
  <1>2. /\ cl' = [x \in Clients |-> cl'[x]] /\ cl'[c] = [cl[c] EXCEPT !.pc = pc]
        /\ \A x \in Clients : x # c => cl'[x] = cl[x]
    BY <1>1 DEF ShapeInv
  <1>3. CASE cl[c].pc \in Pushing
    <2>1. cl[c] = PushRecord(c)
      BY <1>3 DEF ShapeInv, Pushing, Pulling, Idle
    <2> QED BY <1>2, <1>3, <2>1 DEF PushRecord, Pushing, Pulling
  <1>4. CASE cl[c].pc \in Pulling
    <2>1. cl[c] = PullRecord(c)
      BY <1>4 DEF ShapeInv, Pushing, Pulling, Idle
    <2> QED BY <1>2, <1>4, <2>1 DEF PullRecord, Pushing, Pulling
  <1> QED BY <1>3, <1>4 DEF ShapeInv, Idle

LEMMA AdvanceFacts ==
  ASSUME ShapeInv, NEW c \in Clients, cl[c].pc \in Pushing, Advance(c)
  PROVE  LET rest == Tail(cl[c].todo)
             pc   == IF rest = <<>> /\ kind = "registry" THEN "put" ELSE NextFile(rest)
         IN  /\ cl' = [x \in Clients |-> cl'[x]]
             /\ \A x \in Clients : x # c => cl'[x] = cl[x]
             /\ cl'[c] = [pc |-> pc, job |-> cl[c].job, todo |-> rest]
             /\ cl'[c].pc \in Pushing
  <1> DEFINE rest == Tail(cl[c].todo)
             pc   == IF rest = <<>> /\ kind = "registry" THEN "put" ELSE NextFile(rest)
  <1>1. cl' = [cl EXCEPT ![c] = [cl[c] EXCEPT !.todo = rest, !.pc = pc]]
    BY DEF Advance
  <1>2. /\ cl' = [x \in Clients |-> cl'[x]]
        /\ cl'[c] = [cl[c] EXCEPT !.todo = rest, !.pc = pc]
        /\ \A x \in Clients : x # c => cl'[x] = cl[x]
    BY <1>1 DEF ShapeInv
  <1>3. cl[c] = PushRecord(c)
    BY DEF ShapeInv, Pushing, Pulling, Idle
  <1>4. cl'[c] = [pc |-> pc, job |-> cl[c].job, todo |-> rest]
    BY <1>2, <1>3 DEF PushRecord
  <1>5. pc \in Pushing
    BY DEF NextFile, Pushing
  <1> QED BY <1>2, <1>4, <1>5

LEMMA FileStoreWith ==
  ASSUME NEW f, FileStore(f), NEW p, NEW b, NEW who
  PROVE  FileStore(With(f, p, File(b, who)))
  BY DEF FileStore, With, File

LEMMA FileStoreWithout ==
  ASSUME NEW f, FileStore(f), NEW s
  PROVE  FileStore(Without(f, s))
  BY DEF FileStore, Without, File

LEMMA FileStoreMove ==
  ASSUME NEW f, FileStore(f), NEW from \in DOMAIN f, NEW to
  PROVE  FileStore(With(Without(f, {from}), to, f[from]))
  <1>1. f[from] = File(f[from].c, f[from].open)
    BY DEF FileStore
  <1> QED BY <1>1, FileStoreWith, FileStoreWithout

LEMMA FileParts ==
  ASSUME NEW b, NEW who PROVE File(b, who).c = b /\ File(b, who).open = who
  BY DEF File

\* A write changes one file the client has open, or none.
LEMMA WriteFacts ==
  ASSUME FileStore(fs), NEW c, NEW b, Write(c, b)
  PROVE  /\ FileStore(fs') /\ DOMAIN fs' = DOMAIN fs
         /\ \A p \in DOMAIN fs :
              \/ fs'[p] = fs[p]
              \/ /\ c \in fs[p].open /\ fs'[p].open = fs[p].open \ {c}
                 /\ fs'[p].c \in Written(fs[p].c, b)
  <1>1. CASE Handled(c) = {}
    BY <1>1 DEF Write
  <1>2. CASE Handled(c) # {}
    <2>0. PICK p \in Handled(c) : \E new \in Written(fs[p].c, b) :
            fs' = [fs EXCEPT ![p] = File(new, fs[p].open \ {c})]
      BY <1>2 DEF Write
    <2>1. PICK new \in Written(fs[p].c, b) :
            fs' = [fs EXCEPT ![p] = File(new, fs[p].open \ {c})]
      BY <2>0
    <2>2. p \in DOMAIN fs /\ c \in fs[p].open
      BY DEF Handled
    <2>3. /\ DOMAIN fs' = DOMAIN fs
          /\ fs'[p] = File(new, fs[p].open \ {c})
          /\ \A q \in DOMAIN fs : q # p => fs'[q] = fs[q]
      BY <2>1, <2>2 DEF FileStore
    <2>4. FileStore(fs')
      BY <2>1, <2>2, <2>3 DEF FileStore, File
    <2> QED BY <2>2, <2>3, <2>4, FileParts
  <1> QED BY <1>1, <1>2

\* What a record of a push or of a fetch is, field by field.
LEMMA PushShape ==
  ASSUME ShapeInv, NEW c \in Clients, cl[c].pc \in Pushing
  PROVE  cl[c] = PushRecord(c) /\ cl[c].job \in Pushes /\ cl[c].job \in Jobs
  BY DEF ShapeInv, Pushing, Pulling, Idle, Pushes

LEMMA PullShape ==
  ASSUME ShapeInv, NEW c \in Clients, cl[c].pc \in Pulling
  PROVE  cl[c] = PullRecord(c) /\ cl[c].job \in Jobs
  BY DEF ShapeInv, Pushing, Pulling, Idle

LEMMA ShapeStep == ASSUME ShapeInv, Next PROVE ShapeInv'
  <1> DEFINE Files == FileStore(fs)'
             Rest(c) == /\ cl' = [x \in Clients |-> cl'[x]]
                        /\ \A x \in Clients : x # c => cl'[x] = cl[x]
             One(c) == \/ cl'[c] = Idle
                       \/ /\ cl'[c] = PushRecord(c)' /\ cl'[c].pc \in Pushing
                          /\ cl'[c].job \in Pushes
                       \/ /\ cl'[c] = PullRecord(c)' /\ cl'[c].pc \in Pulling
                          /\ cl'[c].job \in Jobs
  <1>0. kind' = kind /\ jobs' \in Nat
    <2>1. jobs \in Nat
      BY DEF ShapeInv
    <2>2. ASSUME NEW c \in Clients, NEW j \in Jobs, Push(c, j) \/ Fetch(c, j)
          PROVE  kind' = kind /\ jobs' \in Nat
      <3>1. kind' = kind /\ jobs > 0 /\ jobs' = jobs - 1
        BY <2>2 DEF Push, Fetch
      <3> QED BY <2>1, <3>1
    <2>3. ASSUME NEW c \in Clients, PushStep(c)
          PROVE  kind' = kind /\ jobs' \in Nat
      BY <2>1, <2>2, <2>3 DEF PushStep, PutCheck, PutOpen, PutWrite, PutReplace, PutLoad,
         HeadBlob, PostBlob, PutManifest
    <2>4. ASSUME NEW c \in Clients, PullStep(c)
          PROVE  kind' = kind /\ jobs' \in Nat
      BY <2>1, <2>2, <2>4 DEF PullStep, ResolveManifest, ResolveConfig, PullLayer,
         PullStage, PullWrite, PullVerify, PullRename
    <2> QED BY <2>1, <2>3, <2>4 DEF Next, Crash, Rot
  <1>a. ASSUME NEW c \in Clients, Rest(c), One(c), Files PROVE ShapeInv'
    <2>1. ASSUME NEW x \in Clients, x # c
          PROVE  cl'[x] = cl[x] /\ PushRecord(x)' = PushRecord(x) /\ PullRecord(x)' = PullRecord(x)
      BY <1>a, <2>1 DEF PushRecord, PullRecord
    <2> QED BY <1>0, <1>a, <2>1 DEF ShapeInv
  <1>f. FileStore(fs)
    BY DEF ShapeInv
  <1>u. ASSUME UNCHANGED fs PROVE Files
    BY <1>f, <1>u
  <1>x. ASSUME NEW c \in Clients, Fail(c) PROVE Rest(c) /\ One(c)
    BY <1>x, FailFacts
  <1>p. ASSUME NEW c \in Clients, Published(c) PROVE Rest(c) /\ One(c)
    <2>1. Fail(c)
      BY <1>p DEF Published, Fail
    <2> QED BY <2>1, <1>x
  <1>g. ASSUME NEW c \in Clients, NEW pc, Goto(c, pc), cl[c].pc \in Pushing, pc \in Pushing
        PROVE  Rest(c) /\ One(c)
    <2>1. cl[c].pc # "idle"
      BY <1>g DEF Pushing
    <2>2. Rest(c) /\ cl'[c] = [pc |-> pc, job |-> cl[c].job, todo |-> cl[c].todo]
      BY <1>g, <2>1, GotoFacts
    <2>3. cl[c].job \in Pushes
      BY <1>g, PushShape
    <2>4. cl'[c] = PushRecord(c)'
      BY <2>2 DEF PushRecord
    <2> QED BY <1>g, <2>2, <2>3, <2>4
  <1>l. ASSUME NEW c \in Clients, NEW pc, Goto(c, pc), cl[c].pc \in Pulling, pc \in Pulling
        PROVE  Rest(c) /\ One(c)
    <2>1. cl[c].pc # "idle"
      BY <1>l DEF Pulling
    <2>2. Rest(c) /\ cl'[c] = [pc |-> pc, job |-> cl[c].job, man |-> cl[c].man,
                               cfg |-> cl[c].cfg, layer |-> cl[c].layer]
      BY <1>l, <2>1, GotoFacts
    <2>3. cl[c].job \in Jobs
      BY <1>l, PullShape
    <2>4. cl'[c] = PullRecord(c)'
      BY <2>2 DEF PullRecord
    <2> QED BY <1>l, <2>2, <2>3, <2>4
  <1>v. ASSUME NEW c \in Clients, Advance(c), cl[c].pc \in Pushing PROVE Rest(c) /\ One(c)
    <2> DEFINE rest == Tail(cl[c].todo)
               pc   == IF rest = <<>> /\ kind = "registry" THEN "put" ELSE NextFile(rest)
    <2>1. /\ Rest(c) /\ cl'[c].pc \in Pushing
          /\ cl'[c] = [pc |-> pc, job |-> cl[c].job, todo |-> rest]
      BY <1>v, AdvanceFacts
    <2> HIDE DEF rest, pc
    <2>2. cl[c].job \in Pushes
      BY <1>v, PushShape
    <2>3. cl'[c] = PushRecord(c)'
      BY <2>1 DEF PushRecord
    <2> QED BY <2>1, <2>2, <2>3
  <1>k. ASSUME NEW c \in Clients, UNCHANGED cl PROVE Rest(c) /\ One(c)
    BY <1>k DEF ShapeInv, PushRecord, PullRecord
  <1> HIDE DEF Rest, One, Files
  <1>1. ASSUME NEW c \in Clients, PushStep(c) PROVE ShapeInv'
    <2>1. CASE \E j \in Jobs : Push(c, j)
      <3>1. PICK j \in Jobs : Push(c, j)
        BY <2>1
      <3>2. CASE PushRefused(j)
        BY <3>1, <3>2, <1>k, <1>u, <1>a DEF Push
      <3>3. CASE ~PushRefused(j)
        <4>1. cl' = [cl EXCEPT ![c] = [pc |-> "check", job |-> j, todo |-> PushFiles(j)]]
          BY <3>1, <3>3 DEF Push
        <4>2. Rest(c) /\ cl'[c] = [pc |-> "check", job |-> j, todo |-> PushFiles(j)]
          BY <4>1 DEF ShapeInv, Rest
        <4>3. j \in Pushes
          BY <3>1 DEF Push, Pushes
        <4>4. One(c)
          BY <4>2, <4>3 DEF One, PushRecord, Pushing
        <4> QED BY <4>2, <4>4, <3>1, <1>u, <1>a DEF Push
      <3> QED BY <3>2, <3>3
    <2>2. CASE PutCheck(c)
      <3>1. cl[c].pc \in Pushing /\ "open" \in Pushing
        BY <2>2 DEF PutCheck, At, Pushing
      <3> QED BY <2>2, <3>1, <1>v, <1>g, <1>u, <1>a DEF PutCheck
    <2>3. CASE PutOpen(c)
      <3>1. cl[c].pc \in Pushing /\ "write" \in Pushing
        BY <2>3 DEF PutOpen, At, Pushing
      <3>2. Files
        BY <2>3, <1>f, FileStoreWith DEF PutOpen, Files
      <3> QED BY <2>3, <3>1, <3>2, <1>g, <1>a DEF PutOpen
    <2>4. CASE PutWrite(c)
      <3>1. cl[c].pc \in Pushing /\ "replace" \in Pushing
        BY <2>4 DEF PutWrite, At, Pushing
      <3>2. Files
        BY <2>4, <1>f, WriteFacts DEF PutWrite, Files
      <3> QED BY <2>4, <3>1, <3>2, <1>g, <1>a DEF PutWrite
    <2>5. CASE PutReplace(c)
      <3>1. cl[c].pc \in Pushing
        BY <2>5 DEF PutReplace, At, Pushing
      <3> DEFINE t == Temp(Todo(c).path)
      <3>2. CASE ~Exists(t)
        BY <2>5, <3>2, <1>x, <1>u, <1>a DEF PutReplace
      <3>3. CASE Exists(t)
        <4>1. Rename(t, Todo(c).path) /\ (Published(c) \/ Advance(c))
          BY <2>5, <3>3 DEF PutReplace
        <4>2. Files
          BY <4>1, <3>3, <1>f, FileStoreMove DEF Rename, Exists, Files
        <4> QED BY <3>1, <4>1, <4>2, <1>p, <1>v, <1>a
      <3> QED BY <3>2, <3>3
    <2>6. CASE PutLoad(c)
      <3>1. cl[c] = PushRecord(c) /\ cl[c].job \in Pushes
        BY <2>6, PushShape DEF PutLoad, At, Pushing
      <3>2. CASE Fail(c)
        BY <2>6, <3>2, <1>x, <1>u, <1>a DEF PutLoad
      <3>3. CASE ~Fail(c)
        <4>1. PICK todo : cl' = [cl EXCEPT ![c].pc = "check", ![c].todo = todo]
          BY <2>6, <3>3 DEF PutLoad
        <4>2. cl' = [cl EXCEPT ![c] = [cl[c] EXCEPT !.pc = "check", !.todo = todo]]
          BY <4>1
        <4>3. Rest(c) /\ cl'[c] = [cl[c] EXCEPT !.pc = "check", !.todo = todo]
          BY <4>2 DEF ShapeInv, Rest
        <4>4. cl'[c] = [pc |-> "check", job |-> cl[c].job, todo |-> todo]
          BY <3>1, <4>3 DEF PushRecord
        <4>5. One(c)
          BY <3>1, <4>4 DEF One, PushRecord, Pushing
        <4> QED BY <2>6, <4>3, <4>5, <1>u, <1>a DEF PutLoad
      <3> QED BY <3>2, <3>3
    <2>7. CASE HeadBlob(c)
      <3>1. cl[c].pc \in Pushing /\ "post" \in Pushing
        BY <2>7 DEF HeadBlob, At, Pushing
      <3> QED BY <2>7, <3>1, <1>v, <1>g, <1>x, <1>u, <1>a DEF HeadBlob
    <2>8. CASE PostBlob(c)
      <3>1. cl[c].pc \in Pushing
        BY <2>8 DEF PostBlob, At, Pushing
      <3>2. Files
        BY <2>8, <1>f, FileStoreWith DEF PostBlob, Put, Files
      <3> QED BY <2>8, <3>1, <3>2, <1>v, <1>x, <1>a DEF PostBlob
    <2>9. CASE PutManifest(c)
      <3>1. FileStore(Tagged(cl[c].job))
        BY <1>f, FileStoreWith DEF Tagged, Put
      <3>2. Files
        BY <2>9, <3>1, <1>f DEF PutManifest, Files
      <3> QED BY <2>9, <3>2, <1>p, <1>x, <1>a DEF PutManifest
    <2> QED BY <1>1, <2>1, <2>2, <2>3, <2>4, <2>5, <2>6, <2>7, <2>8, <2>9 DEF PushStep
  <1>2. ASSUME NEW c \in Clients, PullStep(c) PROVE ShapeInv'
    <2>1. CASE \E j \in Jobs : Fetch(c, j)
      <3>1. PICK j \in Jobs : Fetch(c, j)
        BY <2>1
      <3>2. CASE ParseRef(j.ref) = {}
        BY <3>1, <3>2, <1>k, <1>u, <1>a DEF Fetch
      <3>3. CASE ParseRef(j.ref) # {}
        <4> DEFINE new == [pc |-> "manifest", job |-> j, man |-> Torn, cfg |-> Torn,
                           layer |-> Torn]
        <4>1. cl' = [cl EXCEPT ![c] = new]
          BY <3>1, <3>3 DEF Fetch
        <4>2. Rest(c) /\ cl'[c] = new
          BY <4>1 DEF ShapeInv, Rest
        <4>4. One(c)
          BY <4>2 DEF One, PullRecord, Pulling
        <4> QED BY <4>2, <4>4, <3>1, <1>u, <1>a DEF Fetch
      <3> QED BY <3>2, <3>3
    <2>2. CASE ResolveManifest(c)
      <3>1. cl[c] = PullRecord(c) /\ cl[c].job \in Jobs
        BY <2>2, PullShape DEF ResolveManifest, At, Pulling
      <3>2. CASE Fail(c)
        BY <2>2, <3>2, <1>x, <1>u, <1>a DEF ResolveManifest
      <3>3. CASE ~Fail(c)
        <4>1. PICK b : cl' = [cl EXCEPT ![c].pc = "config", ![c].man = b]
          BY <2>2, <3>3 DEF ResolveManifest, Lost
        <4>2. Rest(c) /\ cl'[c] = [cl[c] EXCEPT !.pc = "config", !.man = b]
          BY <4>1 DEF ShapeInv, Rest
        <4>3. One(c)
          BY <3>1, <4>2 DEF One, PullRecord, Pulling
        <4> QED BY <2>2, <4>2, <4>3, <1>u, <1>a DEF ResolveManifest
      <3> QED BY <3>2, <3>3
    <2>3. CASE ResolveConfig(c)
      <3>1. cl[c] = PullRecord(c) /\ cl[c].job \in Jobs
        BY <2>3, PullShape DEF ResolveConfig, At, Pulling
      <3>2. CASE Fail(c)
        BY <2>3, <3>2, <1>x, <1>u, <1>a DEF ResolveConfig
      <3>3. CASE ~Fail(c)
        <4>1. PICK b : cl' = [cl EXCEPT ![c].pc = "layer", ![c].cfg = b]
          BY <2>3, <3>3 DEF ResolveConfig, Lost
        <4>2. Rest(c) /\ cl'[c] = [cl[c] EXCEPT !.pc = "layer", !.cfg = b]
          BY <4>1 DEF ShapeInv, Rest
        <4>3. One(c)
          BY <3>1, <4>2 DEF One, PullRecord, Pulling
        <4> QED BY <2>3, <4>2, <4>3, <1>u, <1>a DEF ResolveConfig
      <3> QED BY <3>2, <3>3
    <2>4. CASE PullLayer(c)
      <3>1. cl[c] = PullRecord(c) /\ cl[c].job \in Jobs
        BY <2>4, PullShape DEF PullLayer, At, Pulling
      <3>2. CASE Fail(c)
        BY <2>4, <3>2, <1>x, <1>u, <1>a DEF PullLayer
      <3>3. CASE ~Fail(c)
        <4>1. PICK b : cl' = [cl EXCEPT ![c].pc = "stage", ![c].layer = b]
          BY <2>4, <3>3 DEF PullLayer, Lost
        <4>2. Rest(c) /\ cl'[c] = [cl[c] EXCEPT !.pc = "stage", !.layer = b]
          BY <4>1 DEF ShapeInv, Rest
        <4>3. One(c)
          BY <3>1, <4>2 DEF One, PullRecord, Pulling
        <4> QED BY <2>4, <4>2, <4>3, <1>u, <1>a DEF PullLayer
      <3> QED BY <3>2, <3>3
    <2>5. CASE PullStage(c)
      <3>1. cl[c].pc \in Pulling /\ "staged" \in Pulling
        BY <2>5 DEF PullStage, At, Pulling
      <3>2. Files
        BY <2>5, <1>f, FileStoreWith DEF PullStage, Files
      <3> QED BY <2>5, <3>1, <3>2, <1>l, <1>a DEF PullStage
    <2>6. CASE PullWrite(c)
      <3>1. cl[c].pc \in Pulling /\ "verify" \in Pulling
        BY <2>6 DEF PullWrite, At, Pulling
      <3>2. Files
        BY <2>6, <1>f, WriteFacts DEF PullWrite, Files
      <3> QED BY <2>6, <3>1, <3>2, <1>l, <1>a DEF PullWrite
    <2>7. CASE PullVerify(c)
      <3>1. cl[c].pc \in Pulling /\ "rename" \in Pulling
        BY <2>7 DEF PullVerify, At, Pulling
      <3>2. Files
        BY <2>7, <1>f, FileStoreWithout DEF PullVerify, Files
      <3> QED BY <2>7, <3>1, <3>2, <1>l, <1>x, <1>a DEF PullVerify
    <2>8. CASE PullRename(c)
      <3>2. Files
        BY <2>8, <1>f, FileStoreMove DEF PullRename, Rename, Exists, Files
      <3> QED BY <2>8, <3>2, <1>x, <1>a DEF PullRename
    <2> QED BY <1>2, <2>1, <2>2, <2>3, <2>4, <2>5, <2>6, <2>7, <2>8 DEF PullStep
  <1>3. ASSUME NEW c \in Clients, Crash(c) PROVE ShapeInv'
    <2>1. Files
      BY <1>3 DEF Crash, Files, FileStore, File
    <2> QED BY <1>3, <2>1, <1>x, <1>a DEF Crash
  <1>4. ASSUME NEW p \in DOMAIN fs, Rot(p) PROVE ShapeInv'
    <2>1. Files
      <3>1. fs' = [fs EXCEPT ![p] = [fs[p] EXCEPT !.c = Torn]]
        BY <1>4 DEF Rot
      <3>2. fs[p] = File(fs[p].c, fs[p].open)
        BY <1>f DEF FileStore
      <3>3. [fs[p] EXCEPT !.c = Torn] = File(Torn, fs[p].open)
        BY <3>2 DEF File
      <3> QED BY <3>1, <3>3, <1>f DEF Files, FileStore, File
    <2>2. UNCHANGED cl
      BY <1>4 DEF Rot
    <2> QED BY <1>0, <2>1, <2>2 DEF ShapeInv, PushRecord, PullRecord, Files
  <1> QED BY <1>1, <1>2, <1>3, <1>4 DEF Next

-----------------------------------------------------------------------------
(* A tag comes last.                                                       *)

\* The blobs a layout document names: a manifest its config and layer, an index
\* its manifests.
Needs(b) ==
  IF ManifestOk(b)
  THEN {<<"blob", b[2].config.digest>>, <<"blob", b[2].layers[1].digest>>}
  ELSE IF b[1] = "index" THEN {<<"blob", e.desc.digest>> : e \in b[2]} ELSE {}

DocsIn(f, s) == \A p \in DOMAIN f : Needs(f[p].c) \subseteq s

\* The files a push puts into a layout.
BlobFile(b)       == PutFile(<<"blob", Sha256(b)>>, b, TRUE)
ConfigFile(job)   == BlobFile(ConfigOf(job))
LayerFile(job)    == BlobFile(EthBytes(job.reread))
ManifestFile(job) == BlobFile(ManifestOf(job))
MarkerFile        == PutFile(Marker, MarkerBytes, TRUE)
IndexFile(new)    == PutFile(Index, IndexBytes(new), FALSE)

\* How far a push is that has still to put the files of todo: those before are
\* among the paths s.
LayoutPlan(pc, job, todo, s) ==
  /\ pc \in {"check", "open", "write", "replace", "load"}
  /\ pc = "load" <=> todo = <<>>
  /\ \/ todo = <<ConfigFile(job), LayerFile(job), ManifestFile(job)>>
     \/ /\ ConfigFile(job).path \in s
        /\ \/ todo = <<LayerFile(job), ManifestFile(job)>>
           \/ /\ LayerFile(job).path \in s
              /\ \/ todo = <<ManifestFile(job)>>
                 \/ /\ ManifestFile(job).path \in s
                    /\ \/ todo = <<>>
                       \/ \E new : /\ Needs(IndexBytes(new)) \subseteq s
                                   /\ \/ todo = <<MarkerFile, IndexFile(new)>>
                                      \/ todo = <<IndexFile(new)>>

LayoutTodo(c) == LayoutPlan(cl[c].pc, cl[c].job, cl[c].todo, DOMAIN fs)

\* Every document of a layout, and every one in a client's hands, names blobs
\* that are there.
LayoutInv ==
  kind = "layout" =>
    /\ DocsIn(fs, DOMAIN fs)
    /\ \A c \in Clients : cl[c].pc \in Pulling => Needs(cl[c].layer) \subseteq DOMAIN fs
    /\ \A c \in Clients : cl[c].pc \in Pushing => LayoutTodo(c)

Kept(s, t) == \A p \in s : p[1] = "blob" => p \in t
BlobsKept  == Kept(DOMAIN fs, DOMAIN fs')

LEMMA NeedsBlobs == ASSUME NEW b, NEW p \in Needs(b) PROVE p[1] = "blob"
  BY DEF Needs

LEMMA NeedsKept ==
  ASSUME NEW s, NEW t, Kept(s, t), NEW b, Needs(b) \subseteq s
  PROVE  Needs(b) \subseteq t
  BY NeedsBlobs DEF Kept

\* What a push writes names only blobs it has put before.
LEMMA NeedsOf ==
  ASSUME NEW job
  PROVE  /\ Needs(Torn) = {} /\ Needs(MarkerBytes) = {}
         /\ Needs(ConfigOf(job)) = {} /\ Needs(EthBytes(job.reread)) = {}
         /\ Needs(ManifestOf(job)) = {ConfigFile(job).path, LayerFile(job).path}
  <1>1. ManifestOk(ManifestOf(job))
    BY DEF ManifestOk, ManifestOf, ManifestDocument, Desc, LayerOf
  <1>2. /\ ManifestOf(job)[2].config.digest = Sha256(ConfigOf(job))
        /\ ManifestOf(job)[2].layers[1].digest = Sha256(EthBytes(job.reread))
    BY DEF ManifestOf, ManifestDocument, Desc, LayerOf
  <1>3. /\ ConfigFile(job).path = <<"blob", Sha256(ConfigOf(job))>>
        /\ LayerFile(job).path = <<"blob", Sha256(EthBytes(job.reread))>>
    BY DEF ConfigFile, LayerFile, BlobFile, PutFile
  <1>4. Needs(ManifestOf(job)) = {ConfigFile(job).path, LayerFile(job).path}
    BY <1>1, <1>2, <1>3 DEF Needs
  <1>5. Needs(Torn) = {} /\ Needs(MarkerBytes) = {}
    BY DEF Needs, ManifestOk, Torn, MarkerBytes
  <1>6. Needs(ConfigOf(job)) = {} /\ Needs(EthBytes(job.reread)) = {}
    BY DEF Needs, ManifestOk, ConfigOf, ConfigDocument, EthBytes
  <1> QED BY <1>4, <1>5, <1>6

LEMMA DocsWith ==
  ASSUME NEW f, NEW s, DocsIn(f, s), NEW p, NEW b, NEW who, Needs(b) \subseteq s
  PROVE  DocsIn(With(f, p, File(b, who)), s)
  BY DEF DocsIn, With, File

LEMMA DocsWithout ==
  ASSUME NEW f, NEW s, DocsIn(f, s), NEW ps
  PROVE  DocsIn(Without(f, ps), s)
  BY DEF DocsIn, Without

LEMMA DocsMove ==
  ASSUME NEW f, NEW s, DocsIn(f, s), NEW from \in DOMAIN f, NEW to
  PROVE  DocsIn(With(Without(f, {from}), to, f[from]), s)
  BY DEF DocsIn, With, Without

LEMMA DocsWrite ==
  ASSUME FileStore(fs), NEW s, DocsIn(fs, s), NEW c, NEW b, Needs(b) \subseteq s, Write(c, b),
         Needs(Torn) = {}
  PROVE  DocsIn(fs', s)
  <1>1. /\ DOMAIN fs' = DOMAIN fs
        /\ \A p \in DOMAIN fs : fs'[p] = fs[p] \/ fs'[p].c \in Written(fs[p].c, b)
    BY WriteFacts
  <1>2. \A x : \A y \in Written(x, b) : y = b \/ y = Torn
    BY DEF Written
  <1> QED BY <1>1, <1>2 DEF DocsIn

\* Files only leave a temporary name or a .part.
StoreKept == \A p \in DOMAIN fs : p[1] \notin {"tmp", "part"} => p \in DOMAIN fs'

LEMMA FilesStay == ASSUME ShapeInv, Next PROVE StoreKept /\ kind' = kind
  <1>w. ASSUME NEW p, NEW v, fs' = With(fs, p, v) PROVE StoreKept
    BY <1>w DEF StoreKept, With
  <1>m. ASSUME NEW p, NEW q, Rename(p, q), p[1] \in {"tmp", "part"} PROVE StoreKept
    BY <1>m DEF StoreKept, Rename, With, Without
  <1>k. ASSUME DOMAIN fs' = DOMAIN fs PROVE StoreKept
    BY <1>k DEF StoreKept
  <1>1. ASSUME NEW c \in Clients, PushStep(c) PROVE StoreKept /\ kind' = kind
    <2>1. CASE \E j \in Jobs : Push(c, j)
      BY <2>1, <1>k DEF Push
    <2>2. CASE PutCheck(c) \/ PutLoad(c) \/ HeadBlob(c)
      BY <2>2, <1>k DEF PutCheck, PutLoad, HeadBlob
    <2>3. CASE PutOpen(c)
      BY <2>3, <1>w DEF PutOpen
    <2>4. CASE PutWrite(c)
      BY <2>4, <1>k, WriteFacts DEF PutWrite, ShapeInv
    <2>5. CASE PutReplace(c)
      <3>1. Temp(Todo(c).path)[1] \in {"tmp", "part"}
        BY DEF Temp
      <3> QED BY <2>5, <3>1, <1>m, <1>k DEF PutReplace
    <2>6. CASE PostBlob(c)
      BY <2>6, <1>w, <1>k DEF PostBlob, Put
    <2>7. CASE PutManifest(c)
      <3>1. ASSUME fs' = Tagged(cl[c].job) PROVE StoreKept
        BY <3>1 DEF StoreKept, Tagged, Put, With
      <3> QED BY <2>7, <3>1, <1>k DEF PutManifest
    <2> QED BY <1>1, <2>1, <2>2, <2>3, <2>4, <2>5, <2>6, <2>7 DEF PushStep
  <1>2. ASSUME NEW c \in Clients, PullStep(c) PROVE StoreKept /\ kind' = kind
    <2>1. CASE \E j \in Jobs : Fetch(c, j)
      BY <2>1, <1>k DEF Fetch
    <2>2. CASE ResolveManifest(c) \/ ResolveConfig(c) \/ PullLayer(c)
      BY <2>2, <1>k DEF ResolveManifest, ResolveConfig, PullLayer
    <2>3. CASE PullStage(c)
      BY <2>3, <1>w DEF PullStage
    <2>4. CASE PullWrite(c)
      BY <2>4, <1>k, WriteFacts DEF PullWrite, ShapeInv
    <2>5. Part(cl[c].job.dest)[1] \in {"tmp", "part"}
      BY DEF Part
    <2>6. CASE PullVerify(c)
      <3>1. ASSUME fs' = Without(fs, {Part(cl[c].job.dest)}) PROVE StoreKept
        BY <2>5, <3>1 DEF StoreKept, Without
      <3> QED BY <2>6, <3>1, <1>k DEF PullVerify
    <2>7. CASE PullRename(c)
      BY <2>5, <2>7, <1>m, <1>k DEF PullRename
    <2> QED BY <1>2, <2>1, <2>2, <2>3, <2>4, <2>6, <2>7 DEF PullStep
  <1>3. ASSUME NEW c \in Clients, Crash(c) PROVE StoreKept /\ kind' = kind
    BY <1>3, <1>k DEF Crash
  <1>4. ASSUME NEW p \in DOMAIN fs, Rot(p) PROVE StoreKept /\ kind' = kind
    BY <1>4, <1>k DEF Rot
  <1> QED BY <1>1, <1>2, <1>3, <1>4 DEF Next

LEMMA BlobsStay == ASSUME ShapeInv, Next PROVE BlobsKept /\ kind' = kind
  BY FilesStay DEF StoreKept, BlobsKept, Kept

LEMMA IndexPath ==
  ASSUME NEW new
  PROVE  /\ IndexFile(new).path = Index /\ IndexFile(new).b = IndexBytes(new)
         /\ IndexFile(new).dedup = FALSE
         /\ MarkerFile.path = Marker /\ MarkerFile.b = MarkerBytes /\ MarkerFile.dedup = TRUE
         /\ Marker # Index
  BY DEF PutFile, MarkerFile, IndexFile, Marker, Index

\* The paths a plan relies on are blobs, so a plan stays good while blobs stay.
LEMMA FilesKept ==
  ASSUME NEW s, NEW t, Kept(s, t), NEW job
  PROVE  /\ ConfigFile(job).path \in s => ConfigFile(job).path \in t
         /\ LayerFile(job).path \in s => LayerFile(job).path \in t
         /\ ManifestFile(job).path \in s => ManifestFile(job).path \in t
  <1>1. /\ ConfigFile(job).path[1] = "blob" /\ LayerFile(job).path[1] = "blob"
        /\ ManifestFile(job).path[1] = "blob"
    BY DEF ConfigFile, LayerFile, ManifestFile, BlobFile, PutFile
  <1> QED BY <1>1 DEF Kept

LEMMA PlanKept ==
  ASSUME NEW s, NEW t, Kept(s, t), NEW job, NEW pc, NEW todo, LayoutPlan(pc, job, todo, s)
  PROVE  LayoutPlan(pc, job, todo, t)
  <1>1. \A new : Needs(IndexBytes(new)) \subseteq s => Needs(IndexBytes(new)) \subseteq t
    BY NeedsKept
  <1> QED BY <1>1, FilesKept DEF LayoutPlan

\* The file in hand is in place: on to the next one.
LEMMA PlanAdvance ==
  ASSUME NEW s, NEW t, Kept(s, t), NEW job, NEW pc, NEW todo, LayoutPlan(pc, job, todo, s),
         pc # "load", Head(todo).path \in t
  PROVE  LayoutPlan(NextFile(Tail(todo)), job, Tail(todo), t)
  <1>1. /\ NextFile(Tail(todo)) \in {"check", "open", "write", "replace", "load"}
        /\ NextFile(Tail(todo)) = "load" <=> Tail(todo) = <<>>
    BY DEF NextFile
  <1>2. CASE todo = <<ConfigFile(job), LayerFile(job), ManifestFile(job)>>
    <2>1. Head(todo) = ConfigFile(job) /\ Tail(todo) = <<LayerFile(job), ManifestFile(job)>>
      BY <1>2, Todo3
    <2> QED BY <1>1, <2>1 DEF LayoutPlan
  <1>3. CASE ConfigFile(job).path \in s /\ todo = <<LayerFile(job), ManifestFile(job)>>
    <2>1. Head(todo) = LayerFile(job) /\ Tail(todo) = <<ManifestFile(job)>>
      BY <1>3, Todo2
    <2> QED BY <1>1, <1>3, <2>1, FilesKept DEF LayoutPlan
  <1>4. CASE /\ ConfigFile(job).path \in s /\ LayerFile(job).path \in s
             /\ todo = <<ManifestFile(job)>>
    <2>1. Head(todo) = ManifestFile(job) /\ Tail(todo) = <<>>
      BY <1>4, Todo1
    <2> QED BY <1>1, <1>4, <2>1, FilesKept DEF LayoutPlan
  <1>5. CASE /\ ConfigFile(job).path \in s /\ LayerFile(job).path \in s
             /\ ManifestFile(job).path \in s
             /\ \E new : /\ Needs(IndexBytes(new)) \subseteq s
                         /\ \/ todo = <<MarkerFile, IndexFile(new)>>
                            \/ todo = <<IndexFile(new)>>
    <2>1. PICK new : /\ Needs(IndexBytes(new)) \subseteq s
                     /\ \/ todo = <<MarkerFile, IndexFile(new)>>
                        \/ todo = <<IndexFile(new)>>
      BY <1>5
    <2>2. Tail(todo) = <<IndexFile(new)>> \/ Tail(todo) = <<>>
      <3>1. CASE todo = <<MarkerFile, IndexFile(new)>>
        BY <3>1, Todo2
      <3>2. CASE todo = <<IndexFile(new)>>
        BY <3>2, Todo1
      <3> QED BY <2>1, <3>1, <3>2
    <2>3. Needs(IndexBytes(new)) \subseteq t
      BY <2>1, NeedsKept
    <2>4. /\ ConfigFile(job).path \in t /\ LayerFile(job).path \in t
          /\ ManifestFile(job).path \in t
      BY <1>5, FilesKept
    <2> QED BY <1>1, <2>2, <2>3, <2>4 DEF LayoutPlan
  <1> QED BY <1>2, <1>3, <1>4, <1>5 DEF LayoutPlan

LEMMA PlanWrites ==
  ASSUME NEW s, NEW job, NEW pc, NEW todo, LayoutPlan(pc, job, todo, s), pc # "load"
  PROVE  Needs(Head(todo).b) \subseteq s
  <1>1. /\ ConfigFile(job).b = ConfigOf(job) /\ LayerFile(job).b = EthBytes(job.reread)
        /\ ManifestFile(job).b = ManifestOf(job)
    BY DEF ConfigFile, LayerFile, ManifestFile, BlobFile, PutFile
  <1>2. CASE todo = <<ConfigFile(job), LayerFile(job), ManifestFile(job)>>
    <2>1. Head(todo) = ConfigFile(job)
      BY <1>2, Todo3
    <2> QED BY <1>1, <2>1, NeedsOf
  <1>3. CASE ConfigFile(job).path \in s /\ todo = <<LayerFile(job), ManifestFile(job)>>
    <2>1. Head(todo) = LayerFile(job)
      BY <1>3, Todo2
    <2> QED BY <1>1, <2>1, NeedsOf
  <1>4. CASE /\ ConfigFile(job).path \in s /\ LayerFile(job).path \in s
             /\ todo = <<ManifestFile(job)>>
    <2>1. Head(todo) = ManifestFile(job)
      BY <1>4, Todo1
    <2> QED BY <1>1, <1>4, <2>1, NeedsOf
  <1>5. CASE \E new : /\ Needs(IndexBytes(new)) \subseteq s
                      /\ \/ todo = <<MarkerFile, IndexFile(new)>>
                         \/ todo = <<IndexFile(new)>>
    <2>1. PICK new : /\ Needs(IndexBytes(new)) \subseteq s
                     /\ \/ todo = <<MarkerFile, IndexFile(new)>>
                        \/ todo = <<IndexFile(new)>>
      BY <1>5
    <2>2. CASE todo = <<MarkerFile, IndexFile(new)>>
      <3>1. Head(todo) = MarkerFile
        BY <2>2, Todo2
      <3> QED BY <3>1, NeedsOf, IndexPath
    <2>3. CASE todo = <<IndexFile(new)>>
      <3>1. Head(todo) = IndexFile(new)
        BY <2>3, Todo1
      <3> QED BY <2>1, <3>1, IndexPath
    <2> QED BY <2>1, <2>2, <2>3
  <1> QED BY <1>2, <1>3, <1>4, <1>5 DEF LayoutPlan

LEMMA LayoutFiles ==
  ASSUME NEW job, kind = "layout"
  PROVE  PushFiles(job) = <<ConfigFile(job), LayerFile(job), ManifestFile(job)>>
  BY DEF PushFiles, ConfigFile, LayerFile, ManifestFile, BlobFile, Blob

\* The index a push computes names the entries it found and its own manifest.
LEMMA NeedsIndex ==
  ASSUME NEW old, NEW job, NEW s, ManifestFile(job).path \in s,
         \A e \in old : <<"blob", e.desc.digest>> \in s
  PROVE  Needs(IndexBytes(NewEntries(old, Entry(job)))) \subseteq s
  <1>1. Entry(job).desc.digest = Sha256(ManifestOf(job))
    BY DEF Entry, Desc
  <1>2. ManifestFile(job).path = <<"blob", Sha256(ManifestOf(job))>>
    BY DEF ManifestFile, BlobFile, PutFile
  <1>3. \A e \in NewEntries(old, Entry(job)) : <<"blob", e.desc.digest>> \in s
    BY <1>1, <1>2 DEF NewEntries
  <1>4. ASSUME NEW n
        PROVE  Needs(IndexBytes(n)) = {<<"blob", e.desc.digest>> : e \in n}
    BY DEF Needs, ManifestOk, IndexBytes
  <1> QED BY <1>3, <1>4

LEMMA LayoutStep ==
  ASSUME ShapeInv, LayoutInv, kind = "layout", Next PROVE LayoutInv'
  <1> DEFINE Rest(c) == \A x \in Clients : x # c => cl'[x] = cl[x]
             Docs    == DocsIn(fs', DOMAIN fs)
             Hand(c) == cl'[c].pc \in Pulling => Needs(cl'[c].layer) \subseteq DOMAIN fs
             Plan(c) == cl'[c].pc \in Pushing => LayoutTodo(c)'
  <1>0. Kept(DOMAIN fs, DOMAIN fs') /\ kind' = "layout"
    BY BlobsStay DEF BlobsKept
  <1>f. FileStore(fs) /\ DocsIn(fs, DOMAIN fs)
    BY DEF ShapeInv, LayoutInv
  <1>t. Needs(Torn) = {}
    BY NeedsOf
  <1>i. "idle" \notin Pulling /\ "idle" \notin Pushing /\ Idle.pc = "idle"
    BY DEF Pulling, Pushing, Idle
  <1>d. ASSUME Docs PROVE DocsIn(fs', DOMAIN fs')
    BY <1>d, <1>0, NeedsKept DEF DocsIn
  <1>a. ASSUME NEW c \in Clients, Rest(c), Docs, Hand(c), Plan(c) PROVE LayoutInv'
    <2>1. ASSUME NEW x \in Clients, cl'[x].pc \in Pulling
          PROVE  Needs(cl'[x].layer) \subseteq DOMAIN fs'
      <3>1. Needs(cl'[x].layer) \subseteq DOMAIN fs
        BY <1>a, <2>1 DEF LayoutInv
      <3> QED BY <1>0, <3>1, NeedsKept
    <2>2. ASSUME NEW x \in Clients, cl'[x].pc \in Pushing
          PROVE  LayoutTodo(x)'
      <3>1. CASE x = c
        BY <1>a, <2>2, <3>1
      <3>2. CASE x # c
        <4>1. cl'[x] = cl[x] /\ LayoutPlan(cl[x].pc, cl[x].job, cl[x].todo, DOMAIN fs)
          BY <1>a, <2>2, <3>2 DEF LayoutInv, LayoutTodo
        <4>2. LayoutPlan(cl[x].pc, cl[x].job, cl[x].todo, DOMAIN fs')
          BY <1>0, <4>1, PlanKept
        <4> QED BY <4>1, <4>2 DEF LayoutTodo
      <3> QED BY <3>1, <3>2
    <2> QED BY <1>a, <1>d, <2>1, <2>2 DEF LayoutInv
  <1>u. ASSUME UNCHANGED fs PROVE Docs
    BY <1>f, <1>u
  <1>x. ASSUME NEW c \in Clients, Fail(c) PROVE Rest(c) /\ Hand(c) /\ Plan(c)
    BY <1>i, <1>x, FailFacts
  <1>p. ASSUME NEW c \in Clients, Published(c) PROVE Rest(c) /\ Hand(c) /\ Plan(c)
    <2>1. Fail(c)
      BY <1>p DEF Published, Fail
    <2> QED BY <2>1, <1>x
  <1>k. ASSUME NEW c \in Clients, UNCHANGED cl PROVE Rest(c) /\ Hand(c) /\ Plan(c)
    <2>1. Rest(c) /\ Hand(c)
      BY <1>k DEF LayoutInv
    <2>2. ASSUME cl[c].pc \in Pushing PROVE LayoutTodo(c)'
      <3>1. LayoutPlan(cl[c].pc, cl[c].job, cl[c].todo, DOMAIN fs)
        BY <2>2 DEF LayoutInv, LayoutTodo
      <3>2. LayoutPlan(cl[c].pc, cl[c].job, cl[c].todo, DOMAIN fs')
        BY <1>0, <3>1, PlanKept
      <3> QED BY <1>k, <3>2 DEF LayoutTodo
    <2> QED BY <1>k, <2>1, <2>2
  <1>g. ASSUME NEW c \in Clients, NEW pc \in {"open", "write", "replace"}, Goto(c, pc),
               cl[c].pc \in {"check", "open", "write"}
        PROVE  Rest(c) /\ Hand(c) /\ Plan(c)
    <2>1. cl[c].pc \in Pushing /\ cl[c].pc # "idle" /\ pc \notin Pulling /\ cl[c].pc # "load"
      BY <1>g DEF Pushing, Pulling
    <2>2. Rest(c) /\ cl'[c] = [pc |-> pc, job |-> cl[c].job, todo |-> cl[c].todo]
      BY <1>g, <2>1, GotoFacts
    <2>3. LayoutPlan(cl[c].pc, cl[c].job, cl[c].todo, DOMAIN fs)
      BY <2>1 DEF LayoutInv, LayoutTodo
    <2>4. LayoutPlan(cl[c].pc, cl[c].job, cl[c].todo, DOMAIN fs')
      BY <1>0, <2>3, PlanKept
    <2>5. LayoutPlan(pc, cl[c].job, cl[c].todo, DOMAIN fs')
      BY <1>g, <2>1, <2>4 DEF LayoutPlan
    <2>6. LayoutTodo(c)'
      BY <2>2, <2>5 DEF LayoutTodo
    <2> QED BY <2>1, <2>2, <2>6
  <1>l. ASSUME NEW c \in Clients, NEW pc, Goto(c, pc), cl[c].pc \in Pulling, pc \notin Pushing
        PROVE  Rest(c) /\ Hand(c) /\ Plan(c)
    <2>1. cl[c].pc # "idle"
      BY <1>l DEF Pulling
    <2>2. Rest(c) /\ cl'[c] = [pc |-> pc, job |-> cl[c].job, man |-> cl[c].man,
                               cfg |-> cl[c].cfg, layer |-> cl[c].layer]
      BY <1>l, <2>1, GotoFacts
    <2>3. Needs(cl[c].layer) \subseteq DOMAIN fs
      BY <1>l DEF LayoutInv
    <2> QED BY <1>l, <2>2, <2>3
  <1>v. ASSUME NEW c \in Clients, Advance(c), cl[c].pc \in {"check", "replace"},
               Todo(c).path \in DOMAIN fs'
        PROVE  Rest(c) /\ Hand(c) /\ Plan(c)
    <2>1. cl[c].pc \in Pushing /\ cl[c].pc # "load" /\ kind # "registry"
      BY <1>v DEF Pushing
    <2> DEFINE rest == Tail(cl[c].todo)
    <2>2. /\ Rest(c) /\ cl'[c].pc \in Pushing
          /\ cl'[c] = [pc |-> NextFile(rest), job |-> cl[c].job, todo |-> rest]
      BY <1>v, <2>1, AdvanceFacts
    <2>3. LayoutPlan(cl[c].pc, cl[c].job, cl[c].todo, DOMAIN fs)
      BY <2>1 DEF LayoutInv, LayoutTodo
    <2>4. LayoutPlan(NextFile(rest), cl[c].job, rest, DOMAIN fs')
      BY <1>0, <1>v, <2>1, <2>3, PlanAdvance DEF Todo
    <2>5. LayoutTodo(c)'
      BY <2>2, <2>4 DEF LayoutTodo
    <2>6. cl'[c].pc \notin Pulling
      BY <2>2 DEF Pushing, Pulling
    <2> QED BY <2>2, <2>5, <2>6
  <1>w. ASSUME NEW c \in Clients, cl[c].pc \in {"check", "open", "write", "replace"}
        PROVE  Needs(Todo(c).b) \subseteq DOMAIN fs
    <2>1. cl[c].pc \in Pushing /\ cl[c].pc # "load"
      BY <1>w DEF Pushing
    <2>2. LayoutPlan(cl[c].pc, cl[c].job, cl[c].todo, DOMAIN fs)
      BY <2>1 DEF LayoutInv, LayoutTodo
    <2> QED BY <2>1, <2>2, PlanWrites DEF Todo
  <1> HIDE DEF Rest, Docs, Hand, Plan
  <1>1. ASSUME NEW c \in Clients, PushStep(c) PROVE LayoutInv'
    <2>0. cl[c].pc \notin {"post", "put"}
      BY DEF LayoutInv, LayoutTodo, LayoutPlan, Pushing
    <2>1. CASE \E j \in Jobs : Push(c, j)
      <3>1. PICK j \in Jobs : Push(c, j)
        BY <2>1
      <3>2. CASE PushRefused(j)
        BY <3>1, <3>2, <1>k, <1>u, <1>a DEF Push
      <3>3. CASE ~PushRefused(j)
        <4> DEFINE new == [pc |-> "check", job |-> j, todo |-> PushFiles(j)]
        <4>1. cl' = [cl EXCEPT ![c] = new]
          BY <3>1, <3>3 DEF Push
        <4>2. Rest(c) /\ cl'[c] = new
          BY <4>1 DEF ShapeInv, Rest
        <4>3. LayoutPlan("check", j, PushFiles(j), DOMAIN fs')
          BY LayoutFiles, Todo3 DEF LayoutPlan
        <4>4. Plan(c)
          BY <4>2, <4>3 DEF Plan, LayoutTodo
        <4>5. Hand(c)
          BY <4>2 DEF Hand, Pulling
        <4> QED BY <4>2, <4>4, <4>5, <3>1, <1>u, <1>a DEF Push
      <3> QED BY <3>2, <3>3
    <2>2. CASE PutCheck(c)
      <3>1. UNCHANGED fs /\ cl[c].pc = "check"
        BY <2>2 DEF PutCheck, At
      <3>2. CASE Exists(Todo(c).path)
        BY <2>2, <3>1, <3>2, <1>v, <1>u, <1>a DEF PutCheck, Exists
      <3>3. CASE ~Exists(Todo(c).path)
        BY <2>2, <3>1, <3>3, <1>g, <1>u, <1>a DEF PutCheck
      <3> QED BY <3>2, <3>3
    <2>3. CASE PutOpen(c)
      <3>1. cl[c].pc = "open"
        BY <2>3 DEF PutOpen, At
      <3>2. Docs
        BY <2>3, <1>f, <1>t, DocsWith DEF PutOpen, Docs
      <3> QED BY <2>3, <3>1, <3>2, <1>g, <1>a DEF PutOpen
    <2>4. CASE PutWrite(c)
      <3>1. cl[c].pc = "write" /\ Write(c, Todo(c).b)
        BY <2>4 DEF PutWrite, At
      <3>2. Docs
        BY <3>1, <1>f, <1>t, <1>w, DocsWrite DEF Docs
      <3> QED BY <2>4, <3>1, <3>2, <1>g, <1>a DEF PutWrite
    <2>5. CASE PutReplace(c)
      <3>1. cl[c].pc = "replace"
        BY <2>5 DEF PutReplace, At
      <3> DEFINE t == Temp(Todo(c).path)
      <3>2. CASE ~Exists(t)
        BY <2>5, <3>2, <1>x, <1>u, <1>a DEF PutReplace
      <3>3. CASE Exists(t)
        <4>1. Rename(t, Todo(c).path) /\ (Published(c) \/ Advance(c))
          BY <2>5, <3>3 DEF PutReplace
        <4>2. Docs
          BY <4>1, <3>3, <1>f, DocsMove DEF Rename, Exists, Docs
        <4>3. Todo(c).path \in DOMAIN fs'
          BY <4>1 DEF Rename, With
        <4> QED BY <3>1, <4>1, <4>2, <4>3, <1>p, <1>v, <1>a
      <3> QED BY <3>2, <3>3
    <2>6. CASE PutLoad(c)
      <3>0. cl[c].pc = "load" /\ cl[c].pc \in Pushing
        BY <2>6 DEF PutLoad, At, Pushing
      <3>1. cl[c] = PushRecord(c)
        BY <3>0, PushShape
      <3>2. CASE Exists(Marker) /\ ~Loadable(fs)
        BY <2>6, <3>2, <1>x, <1>u, <1>a DEF PutLoad
      <3>3. CASE ~(Exists(Marker) /\ ~Loadable(fs))
        <4> DEFINE old  == IF Exists(Marker) THEN Entries ELSE {}
                   new  == NewEntries(old, Entry(cl[c].job))
                   todo == <<MarkerFile, IndexFile(new)>>
        <4>1. cl' = [cl EXCEPT ![c].pc = "check", ![c].todo = todo]
          BY <2>6, <3>3 DEF PutLoad, MarkerFile, IndexFile
        <4>2. \A e \in old : <<"blob", e.desc.digest>> \in DOMAIN fs
          <5>1. CASE Exists(Marker)
            <6>1. Index \in DOMAIN fs /\ fs[Index].c[1] = "index"
              BY <3>3, <5>1 DEF Loadable
            <6>2. Needs(fs[Index].c) \subseteq DOMAIN fs
              BY <1>f, <6>1 DEF DocsIn
            <6>3. Needs(fs[Index].c) = {<<"blob", e.desc.digest>> : e \in fs[Index].c[2]}
              BY <6>1 DEF Needs, ManifestOk
            <6> QED BY <5>1, <6>2, <6>3 DEF Entries
          <5> QED BY <5>1
        <4>3. LayoutPlan("load", cl[c].job, cl[c].todo, DOMAIN fs)
          BY <3>0 DEF LayoutInv, LayoutTodo
        <4>4. /\ ConfigFile(cl[c].job).path \in DOMAIN fs
              /\ LayerFile(cl[c].job).path \in DOMAIN fs
              /\ ManifestFile(cl[c].job).path \in DOMAIN fs
          <5> DEFINE job == cl[c].job
          <5>1. cl[c].todo = <<>>
            BY <4>3 DEF LayoutPlan
          <5>2. /\ <<ConfigFile(job), LayerFile(job), ManifestFile(job)>> # <<>>
                /\ <<LayerFile(job), ManifestFile(job)>> # <<>>
                /\ <<ManifestFile(job)>> # <<>>
                /\ \A n : <<MarkerFile, IndexFile(n)>> # <<>> /\ <<IndexFile(n)>> # <<>>
            OBVIOUS
          <5> QED BY <4>3, <5>1, <5>2 DEF LayoutPlan
        <4> HIDE DEF old
        <4>5. Needs(IndexBytes(new)) \subseteq DOMAIN fs
          BY <4>2, <4>4, NeedsIndex
        <4> HIDE DEF new
        <4>6. todo # <<>>
          BY Todo2
        <4>7. LayoutPlan("check", cl[c].job, todo, DOMAIN fs)
          BY <4>4, <4>5, <4>6 DEF LayoutPlan
        <4> HIDE DEF todo
        <4>8. Rest(c) /\ cl'[c] = [cl[c] EXCEPT !.pc = "check", !.todo = todo]
          BY <4>1 DEF ShapeInv, Rest
        <4>9. cl'[c] = [pc |-> "check", job |-> cl[c].job, todo |-> todo]
          BY <3>1, <4>8 DEF PushRecord
        <4>10. fs' = fs
          BY <2>6 DEF PutLoad
        <4>11. Plan(c)
          BY <4>7, <4>9, <4>10 DEF Plan, LayoutTodo
        <4>12. Hand(c)
          BY <4>9 DEF Hand, Pulling
        <4> QED BY <4>8, <4>10, <4>11, <4>12, <1>u, <1>a
      <3> QED BY <3>2, <3>3
    <2>7. ~HeadBlob(c) /\ ~PostBlob(c) /\ ~PutManifest(c)
      BY <2>0 DEF HeadBlob, PostBlob, PutManifest, At
    <2> QED BY <1>1, <2>1, <2>2, <2>3, <2>4, <2>5, <2>6, <2>7 DEF PushStep
  <1>2. ASSUME NEW c \in Clients, PullStep(c) PROVE LayoutInv'
    <2>1. CASE \E j \in Jobs : Fetch(c, j)
      <3>1. PICK j \in Jobs : Fetch(c, j)
        BY <2>1
      <3>2. CASE ParseRef(j.ref) = {}
        BY <3>1, <3>2, <1>k, <1>u, <1>a DEF Fetch
      <3>3. CASE ParseRef(j.ref) # {}
        <4> DEFINE new == [pc |-> "manifest", job |-> j, man |-> Torn, cfg |-> Torn,
                           layer |-> Torn]
        <4>1. cl' = [cl EXCEPT ![c] = new]
          BY <3>1, <3>3 DEF Fetch
        <4>2. Rest(c) /\ cl'[c] = new
          BY <4>1 DEF ShapeInv, Rest
        <4>3. Hand(c) /\ Plan(c)
          BY <4>2, <1>t DEF Hand, Plan, Pushing
        <4> QED BY <4>2, <4>3, <3>1, <1>u, <1>a DEF Fetch
      <3> QED BY <3>2, <3>3
    <2>2. CASE ResolveManifest(c)
      <3>0. cl[c].pc \in Pulling
        BY <2>2 DEF ResolveManifest, At, Pulling
      <3>1. cl[c] = PullRecord(c) /\ Needs(cl[c].layer) \subseteq DOMAIN fs
        BY <3>0, PullShape DEF LayoutInv
      <3>2. CASE Fail(c)
        BY <2>2, <3>2, <1>x, <1>u, <1>a DEF ResolveManifest
      <3>3. CASE ~Fail(c)
        <4>1. PICK b : cl' = [cl EXCEPT ![c].pc = "config", ![c].man = b]
          BY <2>2, <3>3 DEF ResolveManifest, Lost
        <4>2. Rest(c) /\ cl'[c] = [cl[c] EXCEPT !.pc = "config", !.man = b]
          BY <4>1 DEF ShapeInv, Rest
        <4>3. Hand(c) /\ Plan(c)
          BY <3>1, <4>2 DEF Hand, Plan, PullRecord, Pushing
        <4> QED BY <2>2, <4>2, <4>3, <1>u, <1>a DEF ResolveManifest
      <3> QED BY <3>2, <3>3
    <2>3. CASE ResolveConfig(c)
      <3>0. cl[c].pc \in Pulling
        BY <2>3 DEF ResolveConfig, At, Pulling
      <3>1. cl[c] = PullRecord(c) /\ Needs(cl[c].layer) \subseteq DOMAIN fs
        BY <3>0, PullShape DEF LayoutInv
      <3>2. CASE Fail(c)
        BY <2>3, <3>2, <1>x, <1>u, <1>a DEF ResolveConfig
      <3>3. CASE ~Fail(c)
        <4>1. PICK b : cl' = [cl EXCEPT ![c].pc = "layer", ![c].cfg = b]
          BY <2>3, <3>3 DEF ResolveConfig, Lost
        <4>2. Rest(c) /\ cl'[c] = [cl[c] EXCEPT !.pc = "layer", !.cfg = b]
          BY <4>1 DEF ShapeInv, Rest
        <4>3. Hand(c) /\ Plan(c)
          BY <3>1, <4>2 DEF Hand, Plan, PullRecord, Pushing
        <4> QED BY <2>3, <4>2, <4>3, <1>u, <1>a DEF ResolveConfig
      <3> QED BY <3>2, <3>3
    <2>4. CASE PullLayer(c)
      <3>0. cl[c].pc \in Pulling
        BY <2>4 DEF PullLayer, At, Pulling
      <3>1. cl[c] = PullRecord(c)
        BY <3>0, PullShape
      <3>2. CASE Fail(c)
        BY <2>4, <3>2, <1>x, <1>u, <1>a DEF PullLayer
      <3>3. CASE ~Fail(c)
        <4>1. PICK b \in LayerBlob(c) : cl' = [cl EXCEPT ![c].pc = "stage", ![c].layer = b]
          BY <2>4, <3>3 DEF PullLayer, Lost
        <4>2. \E p \in DOMAIN fs : b = fs[p].c
          BY DEF LayerBlob, ReadBlob, Exists
        <4>3. Needs(b) \subseteq DOMAIN fs
          BY <4>2, <1>f DEF DocsIn
        <4>4. Rest(c) /\ cl'[c] = [cl[c] EXCEPT !.pc = "stage", !.layer = b]
          BY <4>1 DEF ShapeInv, Rest
        <4>5. Hand(c) /\ Plan(c)
          BY <3>1, <4>3, <4>4 DEF Hand, Plan, PullRecord, Pushing
        <4> QED BY <2>4, <4>4, <4>5, <1>u, <1>a DEF PullLayer
      <3> QED BY <3>2, <3>3
    <2>5. CASE PullStage(c)
      <3>1. cl[c].pc \in Pulling /\ "staged" \notin Pushing
        BY <2>5 DEF PullStage, At, Pulling, Pushing
      <3>2. Docs
        BY <2>5, <1>f, <1>t, DocsWith DEF PullStage, Docs
      <3> QED BY <2>5, <3>1, <3>2, <1>l, <1>a DEF PullStage
    <2>6. CASE PullWrite(c)
      <3>1. cl[c].pc \in Pulling /\ "verify" \notin Pushing
        BY <2>6 DEF PullWrite, At, Pulling, Pushing
      <3>2. Needs(cl[c].layer) \subseteq DOMAIN fs
        BY <3>1 DEF LayoutInv
      <3>3. Docs
        BY <2>6, <3>2, <1>f, <1>t, DocsWrite DEF PullWrite, Docs
      <3> QED BY <2>6, <3>1, <3>3, <1>l, <1>a DEF PullWrite
    <2>7. CASE PullVerify(c)
      <3>1. cl[c].pc \in Pulling /\ "rename" \notin Pushing
        BY <2>7 DEF PullVerify, At, Pulling, Pushing
      <3>2. Docs
        BY <2>7, <1>f, DocsWithout DEF PullVerify, Docs
      <3> QED BY <2>7, <3>1, <3>2, <1>l, <1>x, <1>a DEF PullVerify
    <2>8. CASE PullRename(c)
      <3>2. Docs
        BY <2>8, <1>f, DocsMove DEF PullRename, Rename, Exists, Docs
      <3> QED BY <2>8, <3>2, <1>x, <1>a DEF PullRename
    <2> QED BY <1>2, <2>1, <2>2, <2>3, <2>4, <2>5, <2>6, <2>7, <2>8 DEF PullStep
  <1>3. ASSUME NEW c \in Clients, Crash(c) PROVE LayoutInv'
    <2>1. Docs
      BY <1>3, <1>f DEF Crash, Docs, DocsIn, File
    <2> QED BY <1>3, <2>1, <1>x, <1>a DEF Crash
  <1>4. ASSUME NEW p \in DOMAIN fs, Rot(p) PROVE LayoutInv'
    <2>1. UNCHANGED cl /\ fs' = [fs EXCEPT ![p].c = Torn]
      BY <1>4 DEF Rot
    <2>2. Docs
      <3>1. DOMAIN fs' = DOMAIN fs /\ \A q \in DOMAIN fs : q # p => fs'[q] = fs[q]
        BY <2>1 DEF ShapeInv, FileStore
      <3>2. fs[p] = File(fs[p].c, fs[p].open) /\ fs'[p] = [fs[p] EXCEPT !.c = Torn]
        BY <2>1 DEF ShapeInv, FileStore
      <3>3. fs'[p].c = Torn
        BY <3>2 DEF File
      <3> QED BY <3>1, <3>3, <1>f, <1>t DEF Docs, DocsIn
    <2>3. CASE Clients = {}
      BY <2>2, <2>3, <1>d DEF LayoutInv
    <2>4. CASE Clients # {}
      BY <2>1, <2>2, <2>4, <1>k, <1>a
    <2> QED BY <2>3, <2>4
  <1> QED BY <1>1, <1>2, <1>3, <1>4 DEF Next

\* The files a push puts into a registry.
RemoteFile(job, b) == PutFile(<<"blob", Sha256(b), job.ref.name>>, b, TRUE)
RemoteConfig(job)  == RemoteFile(job, ConfigOf(job))
RemoteLayer(job)   == RemoteFile(job, EthBytes(job.reread))

\* How far a push into a registry is; s holds what was stored or answered 202.
RegistryPlan(pc, job, todo, s) ==
  /\ pc \in {"check", "post", "put"}
  /\ pc = "put" <=> todo = <<>>
  /\ \/ todo = <<RemoteConfig(job), RemoteLayer(job)>>
     \/ /\ RemoteConfig(job).path \in s
        /\ \/ todo = <<RemoteLayer(job)>>
           \/ todo = <<>> /\ RemoteLayer(job).path \in s

\* The blobs the manifest b names in the repository of a tag.
RemoteNeeds(name, b) ==
  IF ManifestOk(b)
  THEN {<<"blob", b[2].config.digest, name>>, <<"blob", b[2].layers[1].digest, name>>}
  ELSE {}

TagsIn(f, s) == \A p \in DOMAIN f : p[1] = "tag" => RemoteNeeds(p[3], f[p].c) \subseteq s

\* The client's own files, the only ones it has open when the store is remote.
Local(f) == \A p \in DOMAIN f : f[p].open # {} => p[1] \in {"part", "dest"}

RegistryInv ==
  kind = "registry" =>
    /\ TagsIn(fs, DOMAIN fs \cup deferred)
    /\ Local(fs)
    /\ \A c \in Clients : cl[c].pc \in Pushing =>
         RegistryPlan(cl[c].pc, cl[c].job, cl[c].todo, DOMAIN fs \cup deferred)

LEMMA RemoteKept ==
  ASSUME NEW s, NEW t, Kept(s, t), NEW name, NEW b, RemoteNeeds(name, b) \subseteq s
  PROVE  RemoteNeeds(name, b) \subseteq t
  <1>1. \A p \in RemoteNeeds(name, b) : p[1] = "blob"
    BY DEF RemoteNeeds
  <1> QED BY <1>1 DEF Kept

LEMMA TagsKept ==
  ASSUME NEW f, NEW s, NEW t, Kept(s, t), TagsIn(f, s) PROVE TagsIn(f, t)
  BY RemoteKept DEF TagsIn

LEMMA RemotePaths ==
  ASSUME NEW job
  PROVE  /\ RemoteConfig(job).path = <<"blob", Sha256(ConfigOf(job)), job.ref.name>>
         /\ RemoteLayer(job).path = <<"blob", Sha256(EthBytes(job.reread)), job.ref.name>>
         /\ RemoteConfig(job).path[1] = "blob" /\ RemoteLayer(job).path[1] = "blob"
  BY DEF RemoteConfig, RemoteLayer, RemoteFile, PutFile

LEMMA RemoteManifest ==
  ASSUME NEW job
  PROVE  RemoteNeeds(job.ref.name, ManifestOf(job)) =
           {RemoteConfig(job).path, RemoteLayer(job).path}
  <1>1. ManifestOk(ManifestOf(job))
    BY DEF ManifestOk, ManifestOf, ManifestDocument, Desc, LayerOf
  <1>2. /\ ManifestOf(job)[2].config.digest = Sha256(ConfigOf(job))
        /\ ManifestOf(job)[2].layers[1].digest = Sha256(EthBytes(job.reread))
    BY DEF ManifestOf, ManifestDocument, Desc, LayerOf
  <1> QED BY <1>1, <1>2, RemotePaths DEF RemoteNeeds

LEMMA RemotePlanKept ==
  ASSUME NEW s, NEW t, Kept(s, t), NEW job, NEW pc, NEW todo, RegistryPlan(pc, job, todo, s)
  PROVE  RegistryPlan(pc, job, todo, t)
  <1>1. /\ RemoteConfig(job).path \in s => RemoteConfig(job).path \in t
        /\ RemoteLayer(job).path \in s => RemoteLayer(job).path \in t
    BY RemotePaths DEF Kept
  <1> QED BY <1>1 DEF RegistryPlan

LEMMA RemoteAdvance ==
  ASSUME NEW s, NEW t, Kept(s, t), NEW job, NEW pc, NEW todo, RegistryPlan(pc, job, todo, s),
         pc # "put", Head(todo).path \in t
  PROVE  RegistryPlan(IF Tail(todo) = <<>> THEN "put" ELSE NextFile(Tail(todo)),
                      job, Tail(todo), t)
  <1>1. CASE todo = <<RemoteConfig(job), RemoteLayer(job)>>
    <2>1. Head(todo) = RemoteConfig(job) /\ Tail(todo) = <<RemoteLayer(job)>>
      BY <1>1, Todo2
    <2>2. Tail(todo) # <<>> /\ Head(Tail(todo)).dedup
      <3>1. Tail(todo) # <<>> /\ Head(Tail(todo)) = RemoteLayer(job)
        BY <2>1, Todo1
      <3>2. RemoteLayer(job).dedup = TRUE
        BY DEF RemoteLayer, RemoteFile, PutFile
      <3> QED BY <3>1, <3>2
    <2>3. NextFile(Tail(todo)) = "check"
      BY <2>2 DEF NextFile
    <2> QED BY <2>1, <2>2, <2>3 DEF RegistryPlan
  <1>2. CASE RemoteConfig(job).path \in s /\ todo = <<RemoteLayer(job)>>
    <2>1. Head(todo) = RemoteLayer(job) /\ Tail(todo) = <<>>
      BY <1>2, Todo1
    <2>2. RemoteConfig(job).path \in t
      BY <1>2, RemotePaths DEF Kept
    <2> QED BY <2>1, <2>2 DEF RegistryPlan
  <1> QED BY <1>1, <1>2 DEF RegistryPlan

LEMMA RemoteHead ==
  ASSUME NEW s, NEW job, NEW pc, NEW todo, RegistryPlan(pc, job, todo, s), pc # "put"
  PROVE  Head(todo).path[1] = "blob"
  <1>1. CASE todo = <<RemoteConfig(job), RemoteLayer(job)>>
    BY <1>1, Todo2, RemotePaths
  <1>2. CASE todo = <<RemoteLayer(job)>>
    BY <1>2, Todo1, RemotePaths
  <1> QED BY <1>1, <1>2 DEF RegistryPlan

LEMMA RemoteDone ==
  ASSUME NEW s, NEW job, NEW todo, RegistryPlan("put", job, todo, s)
  PROVE  RemoteNeeds(job.ref.name, ManifestOf(job)) \subseteq s
  <1>1. todo = <<>>
    BY DEF RegistryPlan
  <1>2. <<RemoteConfig(job), RemoteLayer(job)>> # <<>> /\ <<RemoteLayer(job)>> # <<>>
    OBVIOUS
  <1>3. RemoteConfig(job).path \in s /\ RemoteLayer(job).path \in s
    BY <1>1, <1>2 DEF RegistryPlan
  <1>4. RemoteNeeds(job.ref.name, ManifestOf(job)) =
          {RemoteConfig(job).path, RemoteLayer(job).path}
    BY RemoteManifest
  <1> QED BY <1>3, <1>4

LEMMA RegistryFiles ==
  ASSUME NEW job, kind = "registry"
  PROVE  PushFiles(job) = <<RemoteConfig(job), RemoteLayer(job)>>
  BY DEF PushFiles, RemoteConfig, RemoteLayer, RemoteFile, Blob

LEMMA RegistryStep ==
  ASSUME ShapeInv, RegistryInv, kind = "registry", Next PROVE RegistryInv'
  <1> DEFINE S == DOMAIN fs \cup deferred
             Rest(c) == \A x \in Clients : x # c => cl'[x] = cl[x]
             Tags    == TagsIn(fs', S)
             Plan(c) == cl'[c].pc \in Pushing =>
                          RegistryPlan(cl'[c].pc, cl'[c].job, cl'[c].todo, S')
  <1>0. Kept(S, S') /\ kind' = "registry" /\ kind # "layout"
    <2>1. Kept(DOMAIN fs, DOMAIN fs') /\ kind' = kind
      BY BlobsStay DEF BlobsKept
    <2>2. deferred \subseteq deferred'
      <3>1. ASSUME NEW c \in Clients, PushStep(c) PROVE deferred \subseteq deferred'
        BY <3>1 DEF PushStep, Push, PutCheck, PutOpen, PutWrite, PutReplace, PutLoad,
           HeadBlob, PostBlob, PutManifest, ghosts
      <3>2. ASSUME NEW c \in Clients, PullStep(c) PROVE deferred \subseteq deferred'
        BY <3>2 DEF PullStep, Fetch, ResolveManifest, ResolveConfig, PullLayer,
           PullStage, PullWrite, PullVerify, PullRename, ghosts
      <3> QED BY <3>1, <3>2 DEF Next, Crash, Rot, ghosts
    <2> QED BY <2>1, <2>2 DEF Kept
  <1>f. FileStore(fs) /\ TagsIn(fs, S) /\ Local(fs)
    BY DEF ShapeInv, RegistryInv
  <1>i. "idle" \notin Pushing /\ Idle.pc = "idle"
    BY DEF Pushing, Idle
  <1>a. ASSUME NEW c \in Clients, Rest(c), Tags, Local(fs'), Plan(c) PROVE RegistryInv'
    <2>1. TagsIn(fs', S')
      BY <1>0, <1>a, TagsKept
    <2>2. ASSUME NEW x \in Clients, cl'[x].pc \in Pushing
          PROVE  RegistryPlan(cl'[x].pc, cl'[x].job, cl'[x].todo, S')
      <3>1. CASE x = c
        BY <1>a, <2>2, <3>1
      <3>2. CASE x # c
        <4>1. cl'[x] = cl[x] /\ RegistryPlan(cl[x].pc, cl[x].job, cl[x].todo, S)
          BY <1>a, <2>2, <3>2 DEF RegistryInv
        <4>2. RegistryPlan(cl[x].pc, cl[x].job, cl[x].todo, S')
          BY <1>0, <4>1, RemotePlanKept
        <4> QED BY <4>1, <4>2
      <3> QED BY <3>1, <3>2
    <2> QED BY <1>a, <2>1, <2>2 DEF RegistryInv
  <1>u. ASSUME UNCHANGED fs PROVE Tags /\ Local(fs')
    BY <1>f, <1>u
  <1>x. ASSUME NEW c \in Clients, Fail(c) PROVE Rest(c) /\ Plan(c)
    BY <1>i, <1>x, FailFacts
  <1>p. ASSUME NEW c \in Clients, Published(c) PROVE Rest(c) /\ Plan(c)
    <2>1. Fail(c)
      BY <1>p DEF Published, Fail
    <2> QED BY <2>1, <1>x
  <1>k. ASSUME NEW c \in Clients, UNCHANGED cl PROVE Rest(c) /\ Plan(c)
    <2>2. ASSUME cl[c].pc \in Pushing
          PROVE  RegistryPlan(cl[c].pc, cl[c].job, cl[c].todo, S')
      <3>1. RegistryPlan(cl[c].pc, cl[c].job, cl[c].todo, S)
        BY <2>2 DEF RegistryInv
      <3> QED BY <1>0, <3>1, RemotePlanKept
    <2> QED BY <1>k, <2>2
  <1>l. ASSUME NEW c \in Clients, NEW pc, Goto(c, pc), cl[c].pc \in Pulling, pc \notin Pushing
        PROVE  Rest(c) /\ Plan(c)
    <2>1. cl[c].pc # "idle"
      BY <1>l DEF Pulling
    <2>2. Rest(c) /\ cl'[c].pc = pc
      BY <1>l, <2>1, GotoFacts
    <2> QED BY <1>l, <2>2
  <1>v. ASSUME NEW c \in Clients, Advance(c), cl[c].pc \in {"check", "post"},
               Todo(c).path \in S'
        PROVE  Rest(c) /\ Plan(c)
    <2>1. cl[c].pc \in Pushing /\ cl[c].pc # "put"
      BY <1>v DEF Pushing
    <2> DEFINE rest == Tail(cl[c].todo)
               pc   == IF rest = <<>> THEN "put" ELSE NextFile(rest)
    <2>2. /\ Rest(c) /\ cl'[c].pc \in Pushing
          /\ cl'[c] = [pc |-> pc, job |-> cl[c].job, todo |-> rest]
      BY <1>v, <2>1, AdvanceFacts
    <2>3. RegistryPlan(cl[c].pc, cl[c].job, cl[c].todo, S)
      BY <2>1 DEF RegistryInv
    <2>4. RegistryPlan(pc, cl[c].job, rest, S')
      BY <1>0, <1>v, <2>1, <2>3, RemoteAdvance DEF Todo
    <2> QED BY <2>2, <2>4
  <1>w. ASSUME NEW p, NEW b, NEW who, fs' = With(fs, p, File(b, who)), p[1] # "tag" PROVE Tags
    BY <1>f, <1>w DEF TagsIn, With, File
  <1>e. ASSUME NEW p, NEW b, fs' = With(fs, p, File(b, {})) PROVE Local(fs')
    BY <1>f, <1>e DEF Local, With, File
  <1> HIDE DEF Rest, Tags, Plan
  <1>1. ASSUME NEW c \in Clients, PushStep(c) PROVE RegistryInv'
    <2>0. cl[c].pc \notin {"open", "write", "replace", "load"}
      BY DEF RegistryInv, RegistryPlan, Pushing
    <2>1. CASE \E j \in Jobs : Push(c, j)
      <3>1. PICK j \in Jobs : Push(c, j)
        BY <2>1
      <3>2. CASE PushRefused(j)
        BY <3>1, <3>2, <1>k, <1>u, <1>a DEF Push
      <3>3. CASE ~PushRefused(j)
        <4> DEFINE new == [pc |-> "check", job |-> j, todo |-> PushFiles(j)]
        <4>1. cl' = [cl EXCEPT ![c] = new]
          BY <3>1, <3>3 DEF Push
        <4>2. Rest(c) /\ cl'[c] = new
          BY <4>1 DEF ShapeInv, Rest
        <4>3. RegistryPlan("check", j, PushFiles(j), S')
          BY RegistryFiles, Todo2 DEF RegistryPlan
        <4>4. Plan(c)
          BY <4>2, <4>3 DEF Plan
        <4> QED BY <4>2, <4>4, <3>1, <1>u, <1>a DEF Push
      <3> QED BY <3>2, <3>3
    <2>2. CASE HeadBlob(c)
      <3>1. UNCHANGED fs /\ UNCHANGED deferred /\ cl[c].pc = "check"
        BY <2>2 DEF HeadBlob, At, ghosts
      <3>2. CASE Fail(c)
        BY <3>1, <3>2, <1>x, <1>u, <1>a
      <3>3. CASE Exists(Todo(c).path) /\ Advance(c)
        BY <3>1, <3>3, <1>v, <1>u, <1>a DEF Exists
      <3>4. CASE Goto(c, "post")
        <4>1. cl[c].pc \in Pushing
          BY <3>1 DEF Pushing
        <4>2. /\ Rest(c)
              /\ cl'[c] = [pc |-> "post", job |-> cl[c].job, todo |-> cl[c].todo]
          BY <3>1, <3>4, <4>1, GotoFacts DEF Rest
        <4>3. RegistryPlan(cl[c].pc, cl[c].job, cl[c].todo, S)
          BY <4>1 DEF RegistryInv
        <4>4. RegistryPlan("post", cl[c].job, cl[c].todo, S)
          BY <3>1, <4>3 DEF RegistryPlan
        <4>5. Plan(c)
          BY <3>1, <4>2, <4>4 DEF Plan
        <4> QED BY <3>1, <4>2, <4>5, <1>u, <1>a
      <3> QED BY <2>2, <3>2, <3>3, <3>4 DEF HeadBlob
    <2>3. CASE PostBlob(c)
      <3>1. cl[c].pc = "post" /\ cl[c].pc \in Pushing
        BY <2>3 DEF PostBlob, At, Pushing
      <3>2. Todo(c).path[1] = "blob"
        <4>1. RegistryPlan(cl[c].pc, cl[c].job, cl[c].todo, S)
          BY <3>1 DEF RegistryInv
        <4> QED BY <3>1, <4>1, RemoteHead DEF Todo
      <3>3. ASSUME fs' = Put(fs, Todo(c).path, Todo(c).b)
            PROVE  Tags /\ Local(fs') /\ Todo(c).path \in DOMAIN fs'
        <4>1. fs' = With(fs, Todo(c).path, File(Todo(c).b, {}))
          BY <3>3 DEF Put
        <4>2. Todo(c).path \in DOMAIN fs'
          BY <4>1 DEF With
        <4> QED BY <4>1, <4>2, <3>2, <1>w, <1>e
      <3>4. CASE fs' = Put(fs, Todo(c).path, Todo(c).b) /\ Advance(c)
        BY <3>1, <3>3, <3>4, <1>v, <1>a
      <3>5. CASE deferred' = deferred \cup {Todo(c).path} /\ Advance(c) /\ UNCHANGED fs
        BY <3>1, <3>5, <1>v, <1>u, <1>a
      <3>6. CASE fs' \in {fs, Put(fs, Todo(c).path, Todo(c).b)} /\ Fail(c)
        BY <3>3, <3>6, <1>x, <1>u, <1>a
      <3> QED BY <2>3, <3>4, <3>5, <3>6 DEF PostBlob
    <2>4. CASE PutManifest(c)
      <3> DEFINE job == cl[c].job
                 m   == ManifestOf(job)
                 tag == Tag(job.ref.name, TagOf(job.ref))
                 blb == Blob(job.ref.name, Sha256(m))
      <3>1. cl[c].pc = "put" /\ cl[c].pc \in Pushing
        BY <2>4 DEF PutManifest, At, Pushing
      <3>2. RemoteNeeds(job.ref.name, m) \subseteq S
        <4>1. RegistryPlan("put", job, cl[c].todo, S)
          BY <3>1 DEF RegistryInv
        <4> QED BY <4>1, RemoteDone
      <3>3. tag[1] = "tag" /\ tag[3] = job.ref.name /\ blb[1] = "blob"
        BY DEF Tag, Blob
      <3>4. ASSUME fs' = Tagged(job) PROVE Tags /\ Local(fs')
        <4> HIDE DEF tag, blb, m
        <4>1. fs' = With(With(fs, tag, File(m, {})), blb, File(m, {}))
          BY <3>4 DEF Tagged, Put, tag, blb, m
        <4>2. /\ DOMAIN fs' = DOMAIN fs \cup {tag, blb}
              /\ fs'[tag].c = m /\ fs'[tag].open = {}
              /\ fs'[blb].c = m /\ fs'[blb].open = {}
              /\ \A p \in DOMAIN fs : p # tag /\ p # blb => fs'[p] = fs[p]
          BY <4>1, <3>3 DEF With, File
        <4>3. Tags
          BY <3>2, <3>3, <4>2, <1>f DEF Tags, TagsIn
        <4>4. Local(fs')
          BY <4>2, <1>f DEF Local
        <4> QED BY <4>3, <4>4
      <3> QED BY <2>4, <3>4, <1>p, <1>x, <1>u, <1>a DEF PutManifest
    <2>5. ~(PutCheck(c) \/ PutOpen(c) \/ PutWrite(c) \/ PutReplace(c) \/ PutLoad(c))
      BY <2>0, <1>0 DEF PutCheck, PutOpen, PutWrite, PutReplace, PutLoad, At
    <2> QED BY <1>1, <2>1, <2>2, <2>3, <2>4, <2>5 DEF PushStep
  <1>2. ASSUME NEW c \in Clients, PullStep(c) PROVE RegistryInv'
    <2>1. CASE \E j \in Jobs : Fetch(c, j)
      <3>1. PICK j \in Jobs : Fetch(c, j)
        BY <2>1
      <3>2. CASE ParseRef(j.ref) = {}
        BY <3>1, <3>2, <1>k, <1>u, <1>a DEF Fetch
      <3>3. CASE ParseRef(j.ref) # {}
        <4> DEFINE new == [pc |-> "manifest", job |-> j, man |-> Torn, cfg |-> Torn,
                           layer |-> Torn]
        <4>1. cl' = [cl EXCEPT ![c] = new]
          BY <3>1, <3>3 DEF Fetch
        <4>2. Rest(c) /\ cl'[c] = new
          BY <4>1 DEF ShapeInv, Rest
        <4>3. Plan(c)
          BY <4>2 DEF Plan, Pushing
        <4> QED BY <4>2, <4>3, <3>1, <1>u, <1>a DEF Fetch
      <3> QED BY <3>2, <3>3
    <2>2. CASE ResolveManifest(c)
      <3>1. cl[c] = PullRecord(c)
        BY <2>2, PullShape DEF ResolveManifest, At, Pulling
      <3>2. CASE Fail(c)
        BY <2>2, <3>2, <1>x, <1>u, <1>a DEF ResolveManifest
      <3>3. CASE ~Fail(c)
        <4>1. PICK b : cl' = [cl EXCEPT ![c].pc = "config", ![c].man = b]
          BY <2>2, <3>3 DEF ResolveManifest, Lost
        <4>2. Rest(c) /\ cl'[c] = [cl[c] EXCEPT !.pc = "config", !.man = b]
          BY <4>1 DEF ShapeInv, Rest
        <4>3. Plan(c)
          BY <3>1, <4>2 DEF Plan, PullRecord, Pushing
        <4> QED BY <2>2, <4>2, <4>3, <1>u, <1>a DEF ResolveManifest
      <3> QED BY <3>2, <3>3
    <2>3. CASE ResolveConfig(c)
      <3>1. cl[c] = PullRecord(c)
        BY <2>3, PullShape DEF ResolveConfig, At, Pulling
      <3>2. CASE Fail(c)
        BY <2>3, <3>2, <1>x, <1>u, <1>a DEF ResolveConfig
      <3>3. CASE ~Fail(c)
        <4>1. PICK b : cl' = [cl EXCEPT ![c].pc = "layer", ![c].cfg = b]
          BY <2>3, <3>3 DEF ResolveConfig, Lost
        <4>2. Rest(c) /\ cl'[c] = [cl[c] EXCEPT !.pc = "layer", !.cfg = b]
          BY <4>1 DEF ShapeInv, Rest
        <4>3. Plan(c)
          BY <3>1, <4>2 DEF Plan, PullRecord, Pushing
        <4> QED BY <2>3, <4>2, <4>3, <1>u, <1>a DEF ResolveConfig
      <3> QED BY <3>2, <3>3
    <2>4. CASE PullLayer(c)
      <3>1. cl[c] = PullRecord(c)
        BY <2>4, PullShape DEF PullLayer, At, Pulling
      <3>2. CASE Fail(c)
        BY <2>4, <3>2, <1>x, <1>u, <1>a DEF PullLayer
      <3>3. CASE ~Fail(c)
        <4>1. PICK b : cl' = [cl EXCEPT ![c].pc = "stage", ![c].layer = b]
          BY <2>4, <3>3 DEF PullLayer, Lost
        <4>2. Rest(c) /\ cl'[c] = [cl[c] EXCEPT !.pc = "stage", !.layer = b]
          BY <4>1 DEF ShapeInv, Rest
        <4>3. Plan(c)
          BY <3>1, <4>2 DEF Plan, PullRecord, Pushing
        <4> QED BY <2>4, <4>2, <4>3, <1>u, <1>a DEF PullLayer
      <3> QED BY <3>2, <3>3
    <2> DEFINE part == Part(cl[c].job.dest)
               dest == Dest(cl[c].job.dest)
    <2>a. part[1] = "part" /\ dest[1] = "dest"
      BY DEF Part, Dest
    <2>5. CASE PullStage(c)
      <3>1. cl[c].pc \in Pulling /\ "staged" \notin Pushing
        BY <2>5 DEF PullStage, At, Pulling, Pushing
      <3>2. PICK who : fs' = With(fs, part, File(Torn, who))
        BY <2>5 DEF PullStage
      <3>3. Tags
        BY <3>2, <2>a, <1>w
      <3>4. Local(fs')
        BY <3>2, <2>a, <1>f DEF Local, With
      <3> QED BY <2>5, <3>1, <3>3, <3>4, <1>l, <1>a DEF PullStage
    <2>6. CASE PullWrite(c)
      <3>1. cl[c].pc \in Pulling /\ "verify" \notin Pushing
        BY <2>6 DEF PullWrite, At, Pulling, Pushing
      <3>2. /\ DOMAIN fs' = DOMAIN fs
            /\ \A p \in DOMAIN fs :
                 \/ fs'[p] = fs[p]
                 \/ c \in fs[p].open /\ fs'[p].open = fs[p].open \ {c}
        BY <2>6, <1>f, WriteFacts DEF PullWrite
      <3>3. \A p \in DOMAIN fs : c \in fs[p].open => p[1] \in {"part", "dest"}
        BY <1>f DEF Local
      <3>4. Tags
        BY <3>2, <3>3, <1>f DEF Tags, TagsIn
      <3>5. Local(fs')
        BY <3>2, <3>3, <1>f DEF Local
      <3> QED BY <2>6, <3>1, <3>4, <3>5, <1>l, <1>a DEF PullWrite
    <2>7. CASE PullVerify(c)
      <3>1. cl[c].pc \in Pulling /\ "rename" \notin Pushing
        BY <2>7 DEF PullVerify, At, Pulling, Pushing
      <3>2. ASSUME fs' = Without(fs, {part}) PROVE Tags /\ Local(fs')
        BY <3>2, <1>f DEF Tags, TagsIn, Local, Without
      <3> QED BY <2>7, <3>1, <3>2, <1>u, <1>l, <1>x, <1>a DEF PullVerify
    <2>8. CASE PullRename(c)
      <3>1. ASSUME Rename(part, dest), part \in DOMAIN fs PROVE Tags /\ Local(fs')
        <4>1. Tags
          BY <3>1, <2>a, <1>f DEF Rename, Tags, TagsIn, With, Without
        <4>2. Local(fs')
          BY <3>1, <2>a, <1>f DEF Rename, Local, With, Without
        <4> QED BY <4>1, <4>2
      <3> QED BY <2>8, <3>1, <1>u, <1>x, <1>a DEF PullRename, Exists
    <2> QED BY <1>2, <2>1, <2>2, <2>3, <2>4, <2>5, <2>6, <2>7, <2>8 DEF PullStep
  <1>3. ASSUME NEW c \in Clients, Crash(c) PROVE RegistryInv'
    <2>1. Tags
      BY <1>3, <1>f DEF Crash, Tags, TagsIn, File
    <2>2. Local(fs')
      BY <1>3, <1>f DEF Crash, Local, File
    <2> QED BY <1>3, <2>1, <2>2, <1>x, <1>a DEF Crash
  <1>4. ASSUME NEW p \in DOMAIN fs, Rot(p) PROVE RegistryInv'
    <2>1. UNCHANGED cl /\ fs' = [fs EXCEPT ![p].c = Torn]
      BY <1>4 DEF Rot
    <2>2. Tags /\ Local(fs')
      <3>1. DOMAIN fs' = DOMAIN fs /\ \A q \in DOMAIN fs : q # p => fs'[q] = fs[q]
        BY <2>1 DEF ShapeInv, FileStore
      <3>2. fs[p] = File(fs[p].c, fs[p].open) /\ fs'[p] = [fs[p] EXCEPT !.c = Torn]
        BY <2>1 DEF ShapeInv, FileStore
      <3>3. fs'[p].c = Torn /\ fs'[p].open = fs[p].open
        BY <3>2 DEF File
      <3>4. \A name : RemoteNeeds(name, Torn) = {}
        BY DEF RemoteNeeds, ManifestOk, Torn
      <3>5. Tags
        BY <3>1, <3>3, <3>4, <1>f DEF Tags, TagsIn
      <3>6. Local(fs')
        BY <3>1, <3>3, <1>f DEF Local
      <3> QED BY <3>5, <3>6
    <2>3. CASE Clients = {}
      BY <2>2, <2>3, <1>0, TagsKept DEF RegistryInv, Tags
    <2>4. CASE Clients # {}
      BY <2>1, <2>2, <2>4, <1>k, <1>a
    <2> QED BY <2>3, <2>4
  <1> QED BY <1>1, <1>2, <1>3, <1>4 DEF Next

\* The store another tool, or an earlier push, left is closed.
StartsClosed ==
  \A s \in Scenarios :
    IF s.kind = "layout" THEN DocsIn(s.fs, DOMAIN s.fs) ELSE TagsIn(s.fs, DOMAIN s.fs)

\* Nobody has a file open at the start.
LEMMA StartClosed ==
  ASSUME Init
  PROVE  /\ kind \in {"layout", "registry"} /\ jobs \in Nat /\ FileStore(fs)
         /\ \A p \in DOMAIN fs : fs[p].open = {}
  <1>1. PICK s \in Scenarios : kind = s.kind /\ fs = s.fs /\ jobs = s.jobs
    BY DEF Init
  <1>2. kind \in {"layout", "registry"} /\ jobs \in Nat
    BY <1>1
  <1>3. fs = [p \in DOMAIN fs |-> File(fs[p].c, {})]
    BY <1>1
  <1>4. \A p \in DOMAIN fs : fs[p] = File(fs[p].c, {})
    BY <1>3
  <1>5. \A p \in DOMAIN fs : fs[p].open = {}
    BY <1>4, FileParts
  <1>6. FileStore(fs)
    BY <1>3, <1>5 DEF FileStore
  <1> QED BY <1>2, <1>5, <1>6

LEMMA ShapeAlways == Spec => []ShapeInv
  <1>1. Init => ShapeInv
    <2>1. ASSUME Init PROVE cl = [c \in Clients |-> cl[c]] /\ \A c \in Clients : cl[c] = Idle
      BY <2>1 DEF Init
    <2> QED BY <2>1, StartClosed DEF ShapeInv
  <1>2. ShapeInv /\ [Next]_vars => ShapeInv'
    <2>1. ASSUME ShapeInv, UNCHANGED vars PROVE ShapeInv'
      BY <2>1 DEF ShapeInv, PushRecord, PullRecord, vars
    <2> QED BY <2>1, ShapeStep
  <1> QED BY <1>1, <1>2, PTL DEF Spec

\* The tag comes last, for any number of concurrent pushes and pulls that die or
\* lose answers anywhere: what a tagged manifest names is in the store.  Blobs are
\* never removed, a push puts its manifest after the blobs and its index entry
\* after the manifest, and whoever writes an index or a manifest through a stale
\* handle writes a document that is closed in the same way.
THEOREM TagsAreClosed == ASSUME StartsClosed PROVE Spec => []TagClosed
  <1> DEFINE J == LayoutInv /\ RegistryInv
  <1>1. Init => J
    <2> SUFFICES ASSUME Init PROVE J
      OBVIOUS
    <2>1. PICK s \in Scenarios : kind = s.kind /\ fs = s.fs
      BY DEF Init
    <2>2. \A c \in Clients : cl[c].pc = "idle"
      BY DEF Init, Idle
    <2>3. deferred = {} /\ \A p \in DOMAIN fs : fs[p].open = {}
      BY StartClosed DEF Init
    <2>4. kind = "layout" => DocsIn(fs, DOMAIN fs)
      BY <2>1 DEF StartsClosed
    <2>5. kind = "registry" => TagsIn(fs, DOMAIN fs \cup deferred)
      BY <2>1, <2>3 DEF StartsClosed, TagsIn
    <2>6. LayoutInv
      BY <2>2, <2>4 DEF LayoutInv, Pushing, Pulling
    <2>7. RegistryInv
      BY <2>2, <2>3, <2>5 DEF RegistryInv, Local, Pushing
    <2> QED BY <2>6, <2>7
  <1>2. ShapeInv /\ J /\ [Next]_vars => J'
    <2>1. ASSUME ShapeInv, J, Next PROVE J'
      <3>1. kind' = kind
        BY <2>1, BlobsStay
      <3>2. CASE kind = "layout"
        BY <2>1, <3>1, <3>2, LayoutStep DEF RegistryInv
      <3>3. CASE kind = "registry"
        BY <2>1, <3>1, <3>3, RegistryStep DEF LayoutInv
      <3> QED BY <2>1, <3>2, <3>3 DEF ShapeInv
    <2>2. ASSUME J, UNCHANGED vars PROVE J'
      <3>1. LayoutInv'
        BY <2>2 DEF LayoutInv, LayoutTodo, vars
      <3>2. RegistryInv'
        BY <2>2 DEF RegistryInv, vars
      <3> QED BY <3>1, <3>2
    <2> QED BY <2>1, <2>2
  <1>3. J => TagClosed
    <2> SUFFICES ASSUME J PROVE TagClosed
      OBVIOUS
    <2>1. ASSUME kind = "layout", Loadable(fs), NEW e \in Entries
          PROVE  /\ Exists(Blob(e.owner, e.desc.digest))
                 /\ ManifestOk(fs[Blob(e.owner, e.desc.digest)].c) =>
                      Reaches(e.owner, fs[Blob(e.owner, e.desc.digest)].c) \subseteq DOMAIN fs
      <3> DEFINE p == <<"blob", e.desc.digest>>
      <3>1. Index \in DOMAIN fs /\ fs[Index].c[1] = "index" /\ DocsIn(fs, DOMAIN fs)
        BY <2>1 DEF Loadable, LayoutInv
      <3>2. Needs(fs[Index].c) = {<<"blob", x.desc.digest>> : x \in fs[Index].c[2]}
        BY <3>1 DEF Needs, ManifestOk
      <3>3. p \in DOMAIN fs
        BY <2>1, <3>1, <3>2 DEF DocsIn, Entries
      <3>4. Blob(e.owner, e.desc.digest) = p
        BY <2>1 DEF Blob
      <3>5. ASSUME ManifestOk(fs[p].c) PROVE Reaches(e.owner, fs[p].c) \subseteq DOMAIN fs
        <4>1. Needs(fs[p].c) \subseteq DOMAIN fs
          BY <3>1, <3>3 DEF DocsIn
        <4>2. Reaches(e.owner, fs[p].c) = Needs(fs[p].c)
          BY <2>1, <3>5 DEF Reaches, Needs, Blob
        <4> QED BY <4>1, <4>2
      <3> QED BY <3>3, <3>4, <3>5 DEF Exists
    <2>2. ASSUME kind = "registry", NEW p \in DOMAIN fs, p[1] = "tag", ManifestOk(fs[p].c)
          PROVE  Reaches(p[3], fs[p].c) \subseteq DOMAIN fs \cup deferred
      <3>1. RemoteNeeds(p[3], fs[p].c) \subseteq DOMAIN fs \cup deferred
        BY <2>2 DEF RegistryInv, TagsIn
      <3>2. Reaches(p[3], fs[p].c) = RemoteNeeds(p[3], fs[p].c)
        BY <2>2 DEF Reaches, RemoteNeeds, Blob
      <3> QED BY <3>1, <3>2
    <2> QED BY <2>1, <2>2 DEF TagClosed
  <1> QED BY <1>1, <1>2, <1>3, ShapeAlways, PTL DEF Spec

-----------------------------------------------------------------------------
(* How clients move, and where contents come from.                         *)

\* What one step does to a push.
PushMove(c) ==
  \/ cl'[c].pc \notin Pushing
  \/ /\ cl'[c].job \in Pushes /\ ~PushRefused(cl'[c].job)
     /\ cl'[c].pc = "check" /\ cl'[c].todo = PushFiles(cl'[c].job)
  \/ /\ cl[c].pc \in Pushing /\ cl'[c].job = cl[c].job
     /\ \/ cl'[c] = cl[c]
        \/ /\ cl'[c].todo = cl[c].todo
           /\ \/ cl[c].pc = "check" /\ kind = "layout" /\ cl'[c].pc = "open"
              \/ cl[c].pc = "open"  /\ cl'[c].pc = "write"
              \/ cl[c].pc = "write" /\ cl'[c].pc = "replace"
              \/ cl[c].pc = "check" /\ kind = "registry" /\ cl'[c].pc = "post"
        \/ /\ cl[c].pc \in {"check", "replace", "post"} /\ cl'[c].todo = Tail(cl[c].todo)
           /\ cl'[c].pc = IF Tail(cl[c].todo) = <<>> /\ kind = "registry" THEN "put"
                          ELSE NextFile(Tail(cl[c].todo))
        \/ /\ cl[c].pc = "load" /\ cl'[c].pc = "check"
           /\ Exists(Marker) => Loadable(fs)
           /\ \E old : /\ old = IF Exists(Marker) THEN Entries ELSE {}
                       /\ cl'[c].todo = <<MarkerFile, IndexFile(NewEntries(old, Entry(cl[c].job)))>>

\* What one step does to a fetch.
PullMove(c) ==
  \/ cl'[c].pc \notin Pulling
  \/ cl'[c].pc = "manifest" /\ cl'[c].layer = Torn
  \/ /\ cl[c].pc \in Pulling /\ cl'[c].job = cl[c].job
     /\ \/ cl'[c] = cl[c]
        \/ /\ cl[c].pc = "manifest" /\ cl'[c].pc = "config"
           /\ cl'[c].man \in GetManifest(cl[c].job.ref)
           /\ cl'[c].layer = cl[c].layer
        \/ /\ cl[c].pc = "config" /\ cl'[c].pc = "layer"
           /\ cl'[c].man = cl[c].man /\ cl'[c].layer = cl[c].layer
        \/ /\ cl[c].pc = "layer" /\ cl'[c].pc = "stage"
           /\ cl'[c].man = cl[c].man /\ cl'[c].cfg = cl[c].cfg
           /\ VerifyDigest(cl'[c].layer, cl[c].man[2].layers[1])
           /\ \E p \in DOMAIN fs : cl'[c].layer = fs[p].c
        \/ /\ cl'[c].man = cl[c].man /\ cl'[c].cfg = cl[c].cfg /\ cl'[c].layer = cl[c].layer
           /\ <<cl[c].pc, cl'[c].pc>> \in
                {<<"stage", "staged">>, <<"staged", "verify">>, <<"verify", "rename">>}

LEMMA Moves ==
  ASSUME ShapeInv, Next, NEW y \in Clients PROVE PushMove(y) /\ PullMove(y)
  <1> DEFINE Rest(c) == \A x \in Clients : x # c => cl'[x] = cl[x]
             Good(c) == PushMove(c) /\ PullMove(c)
             All == \A x \in Clients : PushMove(x) /\ PullMove(x)
  <1>s. \A x \in Clients : cl'[x] = cl[x] => PushMove(x) /\ PullMove(x)
    <2> SUFFICES ASSUME NEW x \in Clients, cl'[x] = cl[x] PROVE PushMove(x) /\ PullMove(x)
      OBVIOUS
    <2> QED BY DEF PushMove, PullMove
  <1>a. ASSUME NEW c \in Clients, Rest(c), Good(c) PROVE All
    BY <1>a, <1>s
  <1>i. /\ "idle" \notin Pushing /\ "idle" \notin Pulling /\ Idle.pc = "idle"
        /\ \A z \in Pushing : z \notin Pulling
    BY DEF Pushing, Pulling, Idle
  <1>x. ASSUME NEW c \in Clients, Fail(c) PROVE Rest(c) /\ Good(c)
    <2>1. Rest(c) /\ cl'[c] = Idle
      BY <1>x, FailFacts
    <2> QED BY <1>i, <2>1 DEF PushMove, PullMove
  <1>p. ASSUME NEW c \in Clients, Published(c) PROVE Rest(c) /\ Good(c)
    <2>1. Fail(c)
      BY <1>p DEF Published, Fail
    <2> QED BY <2>1, <1>x
  <1>g. ASSUME NEW c \in Clients, NEW pc, Goto(c, pc), pc \in Pushing,
               \/ cl[c].pc = "check" /\ kind = "layout" /\ pc = "open"
               \/ cl[c].pc = "open"  /\ pc = "write"
               \/ cl[c].pc = "write" /\ pc = "replace"
               \/ cl[c].pc = "check" /\ kind = "registry" /\ pc = "post"
        PROVE  Rest(c) /\ Good(c)
    <2>1. cl[c].pc \in Pushing /\ cl[c].pc # "idle"
      BY <1>g DEF Pushing
    <2>2. Rest(c) /\ cl'[c] = [pc |-> pc, job |-> cl[c].job, todo |-> cl[c].todo]
      BY <1>g, <2>1, GotoFacts
    <2>3. PullMove(c)
      BY <1>g, <1>i, <2>2 DEF PullMove
    <2>4. PushMove(c)
      BY <1>g, <2>1, <2>2 DEF PushMove
    <2> QED BY <2>2, <2>3, <2>4
  <1>l. ASSUME NEW c \in Clients, NEW pc, Goto(c, pc),
               <<cl[c].pc, pc>> \in
                 {<<"stage", "staged">>, <<"staged", "verify">>, <<"verify", "rename">>}
        PROVE  Rest(c) /\ Good(c)
    <2>1. cl[c].pc \in Pulling /\ cl[c].pc # "idle" /\ pc \notin Pushing
      BY <1>l DEF Pulling, Pushing
    <2>2. Rest(c) /\ cl'[c] = [pc |-> pc, job |-> cl[c].job, man |-> cl[c].man,
                               cfg |-> cl[c].cfg, layer |-> cl[c].layer]
      BY <1>l, <2>1, GotoFacts
    <2>3. PushMove(c)
      BY <2>1, <2>2 DEF PushMove
    <2>4. PullMove(c)
      BY <1>l, <2>1, <2>2 DEF PullMove
    <2> QED BY <2>2, <2>3, <2>4
  <1>v. ASSUME NEW c \in Clients, Advance(c), cl[c].pc \in {"check", "replace", "post"}
        PROVE  Rest(c) /\ Good(c)
    <2>1. cl[c].pc \in Pushing
      BY <1>v DEF Pushing
    <2> DEFINE rest == Tail(cl[c].todo)
               pc   == IF rest = <<>> /\ kind = "registry" THEN "put" ELSE NextFile(rest)
    <2>2. /\ Rest(c) /\ cl'[c].pc \in Pushing
          /\ cl'[c] = [pc |-> pc, job |-> cl[c].job, todo |-> rest]
      BY <1>v, <2>1, AdvanceFacts
    <2>3. cl'[c].pc = pc /\ cl'[c].job = cl[c].job /\ cl'[c].todo = rest
      BY <2>2
    <2>4. PullMove(c)
      BY <1>i, <2>2 DEF PullMove
    <2>5. PushMove(c)
      BY <1>v, <2>1, <2>3 DEF PushMove
    <2> QED BY <2>2, <2>4, <2>5
  <1> HIDE DEF Rest, Good, All
  <1>1. ASSUME NEW c \in Clients, PushStep(c) PROVE All
    <2>1. CASE \E j \in Jobs : Push(c, j)
      <3>1. PICK j \in Jobs : Push(c, j)
        BY <2>1
      <3>2. CASE PushRefused(j)
        BY <3>1, <3>2, <1>s DEF Push, All
      <3>3. CASE ~PushRefused(j)
        <4> DEFINE new == [pc |-> "check", job |-> j, todo |-> PushFiles(j)]
        <4>1. cl' = [cl EXCEPT ![c] = new] /\ j \in Pushes
          BY <3>1, <3>3 DEF Push, Pushes
        <4>2. Rest(c) /\ cl'[c] = new
          BY <4>1 DEF ShapeInv, Rest
        <4>3. cl'[c].pc = "check" /\ cl'[c].job = j /\ cl'[c].todo = PushFiles(j)
          BY <4>2
        <4>4. Good(c)
          BY <3>3, <4>1, <4>3 DEF Good, PushMove, PullMove, Pulling
        <4> QED BY <4>2, <4>4, <1>a
      <3> QED BY <3>2, <3>3
    <2>2. CASE PutCheck(c)
      <3>1. cl[c].pc = "check" /\ kind = "layout" /\ "open" \in Pushing
        BY <2>2 DEF PutCheck, At, Pushing
      <3> QED BY <2>2, <3>1, <1>v, <1>g, <1>a DEF PutCheck
    <2>3. CASE PutOpen(c)
      <3>1. cl[c].pc = "open" /\ Goto(c, "write") /\ "write" \in Pushing
        BY <2>3 DEF PutOpen, At, Pushing
      <3> QED BY <3>1, <1>g, <1>a
    <2>4. CASE PutWrite(c)
      <3>1. cl[c].pc = "write" /\ Goto(c, "replace") /\ "replace" \in Pushing
        BY <2>4 DEF PutWrite, At, Pushing
      <3> QED BY <3>1, <1>g, <1>a
    <2>5. CASE PutReplace(c)
      <3>1. cl[c].pc = "replace" /\ (Fail(c) \/ Published(c) \/ Advance(c))
        BY <2>5 DEF PutReplace, At
      <3> QED BY <3>1, <1>v, <1>x, <1>p, <1>a
    <2>6. CASE PutLoad(c)
      <3>0. cl[c].pc = "load" /\ cl[c].pc \in Pushing
        BY <2>6 DEF PutLoad, At, Pushing
      <3>1. cl[c] = PushRecord(c)
        BY <3>0, PushShape
      <3>2. CASE Exists(Marker) /\ ~Loadable(fs)
        BY <2>6, <3>2, <1>x, <1>a DEF PutLoad
      <3>3. CASE ~(Exists(Marker) /\ ~Loadable(fs))
        <4> DEFINE old  == IF Exists(Marker) THEN Entries ELSE {}
                   todo == <<MarkerFile, IndexFile(NewEntries(old, Entry(cl[c].job)))>>
        <4>1. cl' = [cl EXCEPT ![c].pc = "check", ![c].todo = todo]
          BY <2>6, <3>3 DEF PutLoad, MarkerFile, IndexFile
        <4>2. \E o : o = old /\ todo = <<MarkerFile, IndexFile(NewEntries(o, Entry(cl[c].job)))>>
          OBVIOUS
        <4> HIDE DEF todo
        <4>3. Rest(c) /\ cl'[c] = [cl[c] EXCEPT !.pc = "check", !.todo = todo]
          BY <4>1 DEF ShapeInv, Rest
        <4>4. cl'[c] = [pc |-> "check", job |-> cl[c].job, todo |-> todo]
          BY <3>1, <4>3 DEF PushRecord
        <4>5. cl'[c].pc = "check" /\ cl'[c].job = cl[c].job /\ cl'[c].todo = todo
          BY <4>4
        <4>6. PushMove(c)
          BY <3>0, <3>3, <4>2, <4>5 DEF PushMove
        <4>7. PullMove(c)
          BY <4>5 DEF PullMove, Pulling
        <4> QED BY <4>3, <4>6, <4>7, <1>a DEF Good
      <3> QED BY <3>2, <3>3
    <2>7. CASE HeadBlob(c)
      <3>1. cl[c].pc = "check" /\ kind = "registry" /\ "post" \in Pushing
        BY <2>7 DEF HeadBlob, At, Pushing
      <3> QED BY <2>7, <3>1, <1>v, <1>g, <1>x, <1>a DEF HeadBlob
    <2>8. CASE PostBlob(c)
      <3>1. cl[c].pc = "post" /\ (Fail(c) \/ Advance(c))
        BY <2>8 DEF PostBlob, At
      <3> QED BY <3>1, <1>v, <1>x, <1>a
    <2>9. CASE PutManifest(c)
      BY <2>9, <1>p, <1>x, <1>a DEF PutManifest
    <2> QED BY <1>1, <2>1, <2>2, <2>3, <2>4, <2>5, <2>6, <2>7, <2>8, <2>9 DEF PushStep
  <1>2. ASSUME NEW c \in Clients, PullStep(c) PROVE All
    <2>1. CASE \E j \in Jobs : Fetch(c, j)
      <3>1. PICK j \in Jobs : Fetch(c, j)
        BY <2>1
      <3>2. CASE ParseRef(j.ref) = {}
        BY <3>1, <3>2, <1>s DEF Fetch, All
      <3>3. CASE ParseRef(j.ref) # {}
        <4> DEFINE new == [pc |-> "manifest", job |-> j, man |-> Torn, cfg |-> Torn,
                           layer |-> Torn]
        <4>1. cl' = [cl EXCEPT ![c] = new]
          BY <3>1, <3>3 DEF Fetch
        <4>2. Rest(c) /\ cl'[c] = new
          BY <4>1 DEF ShapeInv, Rest
        <4>3. cl'[c].pc = "manifest" /\ cl'[c].layer = Torn
          BY <4>2
        <4>4. Good(c)
          BY <4>3 DEF Good, PushMove, PullMove, Pushing
        <4> QED BY <4>2, <4>4, <1>a
      <3> QED BY <3>2, <3>3
    <2>2. CASE ResolveManifest(c)
      <3>0. cl[c].pc = "manifest" /\ cl[c].pc \in Pulling
        BY <2>2 DEF ResolveManifest, At, Pulling
      <3>1. cl[c] = PullRecord(c)
        BY <3>0, PullShape
      <3>2. CASE Fail(c)
        BY <3>2, <1>x, <1>a
      <3>3. CASE ~Fail(c)
        <4>1. PICK b \in GetManifest(cl[c].job.ref) :
                cl' = [cl EXCEPT ![c].pc = "config", ![c].man = b]
          BY <2>2, <3>3 DEF ResolveManifest, Lost
        <4>2. Rest(c) /\ cl'[c] = [cl[c] EXCEPT !.pc = "config", !.man = b]
          BY <4>1 DEF ShapeInv, Rest
        <4>3. /\ cl'[c].pc = "config" /\ cl'[c].job = cl[c].job /\ cl'[c].man = b
              /\ cl'[c].layer = cl[c].layer
          BY <3>1, <4>2 DEF PullRecord
        <4>4. PullMove(c)
          BY <3>0, <4>1, <4>3 DEF PullMove
        <4>5. PushMove(c)
          BY <4>3 DEF PushMove, Pushing
        <4> QED BY <4>2, <4>4, <4>5, <1>a DEF Good
      <3> QED BY <3>2, <3>3
    <2>3. CASE ResolveConfig(c)
      <3>0. cl[c].pc = "config" /\ cl[c].pc \in Pulling
        BY <2>3 DEF ResolveConfig, At, Pulling
      <3>1. cl[c] = PullRecord(c)
        BY <3>0, PullShape
      <3>2. CASE Fail(c)
        BY <3>2, <1>x, <1>a
      <3>3. CASE ~Fail(c)
        <4>1. PICK b : cl' = [cl EXCEPT ![c].pc = "layer", ![c].cfg = b]
          BY <2>3, <3>3 DEF ResolveConfig, Lost
        <4>2. Rest(c) /\ cl'[c] = [cl[c] EXCEPT !.pc = "layer", !.cfg = b]
          BY <4>1 DEF ShapeInv, Rest
        <4>3. /\ cl'[c].pc = "layer" /\ cl'[c].job = cl[c].job /\ cl'[c].man = cl[c].man
              /\ cl'[c].layer = cl[c].layer
          BY <3>1, <4>2 DEF PullRecord
        <4>4. PullMove(c)
          BY <3>0, <4>3 DEF PullMove
        <4>5. PushMove(c)
          BY <4>3 DEF PushMove, Pushing
        <4> QED BY <4>2, <4>4, <4>5, <1>a DEF Good
      <3> QED BY <3>2, <3>3
    <2>4. CASE PullLayer(c)
      <3>0. cl[c].pc = "layer" /\ cl[c].pc \in Pulling
        BY <2>4 DEF PullLayer, At, Pulling
      <3>1. cl[c] = PullRecord(c)
        BY <3>0, PullShape
      <3>2. CASE Fail(c)
        BY <3>2, <1>x, <1>a
      <3>3. CASE ~Fail(c)
        <4>1. PICK b \in LayerBlob(c) :
                /\ VerifyDigest(b, cl[c].man[2].layers[1])
                /\ cl' = [cl EXCEPT ![c].pc = "stage", ![c].layer = b]
          BY <2>4, <3>3 DEF PullLayer, Lost
        <4>2. \E p \in DOMAIN fs : b = fs[p].c
          BY DEF LayerBlob, ReadBlob, Exists
        <4>3. Rest(c) /\ cl'[c] = [cl[c] EXCEPT !.pc = "stage", !.layer = b]
          BY <4>1 DEF ShapeInv, Rest
        <4>4. /\ cl'[c].pc = "stage" /\ cl'[c].job = cl[c].job /\ cl'[c].man = cl[c].man
              /\ cl'[c].cfg = cl[c].cfg /\ cl'[c].layer = b
          BY <3>1, <4>3 DEF PullRecord
        <4>5. PullMove(c)
          BY <3>0, <4>1, <4>2, <4>4 DEF PullMove
        <4>6. PushMove(c)
          BY <4>4 DEF PushMove, Pushing
        <4> QED BY <4>3, <4>5, <4>6, <1>a DEF Good
      <3> QED BY <3>2, <3>3
    <2>5. CASE PullStage(c)
      BY <2>5, <1>l, <1>a DEF PullStage, At
    <2>6. CASE PullWrite(c)
      BY <2>6, <1>l, <1>a DEF PullWrite, At
    <2>7. CASE PullVerify(c)
      BY <2>7, <1>l, <1>x, <1>a DEF PullVerify, At
    <2>8. CASE PullRename(c)
      BY <2>8, <1>x, <1>a DEF PullRename
    <2> QED BY <1>2, <2>1, <2>2, <2>3, <2>4, <2>5, <2>6, <2>7, <2>8 DEF PullStep
  <1>3. ASSUME NEW c \in Clients, Crash(c) PROVE All
    BY <1>3, <1>x, <1>a DEF Crash
  <1>4. ASSUME NEW p \in DOMAIN fs, Rot(p) PROVE All
    BY <1>4, <1>s DEF Rot, All
  <1>5. All
    BY <1>1, <1>2, <1>3, <1>4 DEF Next
  <1> QED BY <1>5 DEF All

\* How the content under the name p came about in one step.
Change(p) ==
  LET new == fs'[p].c
  IN  \/ p \in DOMAIN fs /\ new = fs[p].c
      \/ p[1] \in {"tmp", "part"} /\ new = Torn
      \/ p[1] \in {"blob", "tag"} /\ new = Torn /\ rot' = "has"
      \/ \E c \in Clients :
           \/ cl[c].pc = "write"   /\ p \in Handled(c) /\ new \in {Torn, Todo(c).b}
           \/ cl[c].pc = "staged"  /\ p \in Handled(c) /\ new \in {Torn, cl[c].layer}
           \/ cl[c].pc = "replace" /\ p = Todo(c).path /\ Exists(Temp(p)) /\ new = fs[Temp(p)].c
           \/ /\ cl[c].pc = "rename"  /\ p = Dest(cl[c].job.dest)
              /\ Exists(Part(cl[c].job.dest)) /\ new = fs[Part(cl[c].job.dest)].c
           \/ cl[c].pc = "post" /\ p = Todo(c).path /\ new = Todo(c).b
           \/ /\ cl[c].pc = "put" /\ p[1] \in {"blob", "tag"} /\ new = ManifestOf(cl[c].job)
              /\ p \in {Tag(cl[c].job.ref.name, TagOf(cl[c].job.ref)),
                        Blob(cl[c].job.ref.name, Sha256(new))}

LEMMA Changes == ASSUME ShapeInv, Next PROVE \A p \in DOMAIN fs' : Change(p)
  <1> DEFINE All == \A p \in DOMAIN fs' : Change(p)
  <1>u. ASSUME UNCHANGED fs PROVE All
    BY <1>u DEF Change
  <1>w. ASSUME NEW p, NEW b, NEW who, fs' = With(fs, p, File(b, who)), fs'[p].c = b => Change(p)
        PROVE  All
    <2>1. fs'[p].c = b /\ \A q \in DOMAIN fs' : q = p \/ (q \in DOMAIN fs /\ fs'[q] = fs[q])
      BY <1>w DEF With, File
    <2> QED BY <1>w, <2>1 DEF Change
  <1>m. ASSUME NEW p \in DOMAIN fs, NEW q, Rename(p, q), fs'[q] = fs[p] => Change(q) PROVE All
    <2>1. fs'[q] = fs[p] /\ \A x \in DOMAIN fs' : x = q \/ (x \in DOMAIN fs /\ fs'[x] = fs[x])
      BY <1>m DEF Rename, With, Without
    <2> QED BY <1>m, <2>1 DEF Change
  <1>d. ASSUME NEW ps, fs' = Without(fs, ps) PROVE All
    BY <1>d DEF Without, Change
  <1>h. ASSUME NEW c, NEW b, Write(c, b),
               \A p \in Handled(c) : fs'[p].c \in {Torn, b} => Change(p)
        PROVE  All
    <2>1. /\ DOMAIN fs' = DOMAIN fs
          /\ \A p \in DOMAIN fs : fs'[p] = fs[p] \/ (c \in fs[p].open /\ fs'[p].c \in Written(fs[p].c, b))
      BY <1>h, WriteFacts DEF ShapeInv
    <2>2. \A x : Written(x, b) \subseteq {Torn, b}
      BY DEF Written
    <2>3. ASSUME NEW p \in DOMAIN fs PROVE Change(p)
      <3>1. CASE fs'[p] = fs[p]
        BY <3>1 DEF Change
      <3>2. CASE fs'[p] # fs[p]
        BY <1>h, <2>1, <2>2, <3>2 DEF Handled
      <3> QED BY <3>1, <3>2
    <2> QED BY <2>1, <2>3
  <1> SUFFICES All
    OBVIOUS
  <1> HIDE DEF All
  <1>1. ASSUME NEW c \in Clients, PushStep(c) PROVE All
    <2>1. CASE \E j \in Jobs : Push(c, j)
      BY <2>1, <1>u DEF Push
    <2>2. CASE PutCheck(c) \/ PutLoad(c) \/ HeadBlob(c)
      BY <2>2, <1>u DEF PutCheck, PutLoad, HeadBlob
    <2>3. CASE PutOpen(c)
      <3>1. PICK t, who : t = Temp(Todo(c).path) /\ fs' = With(fs, t, File(Torn, who))
        BY <2>3 DEF PutOpen
      <3>2. fs'[t].c = Torn => Change(t)
        BY <3>1 DEF Change, Temp
      <3> QED BY <3>1, <3>2, <1>w
    <2>4. CASE PutWrite(c)
      <3>1. cl[c].pc = "write" /\ Write(c, Todo(c).b)
        BY <2>4 DEF PutWrite, At
      <3>2. \A p \in Handled(c) : fs'[p].c \in {Torn, Todo(c).b} => Change(p)
        BY <3>1 DEF Change
      <3> QED BY <3>1, <3>2, <1>h
    <2>5. CASE PutReplace(c)
      <3>1. PICK p : p = Todo(c).path
        OBVIOUS
      <3>2. cl[c].pc = "replace" /\ ((Exists(Temp(p)) /\ Rename(Temp(p), p)) \/ UNCHANGED fs)
        BY <2>5, <3>1 DEF PutReplace, At
      <3>3. CASE Exists(Temp(p)) /\ Rename(Temp(p), p)
        <4>1. fs'[p] = fs[Temp(p)] => Change(p)
          BY <3>1, <3>2, <3>3 DEF Change
        <4> QED BY <3>3, <4>1, <1>m DEF Exists
      <3> QED BY <3>2, <3>3, <1>u
    <2>6. CASE PostBlob(c)
      <3>1. PICK p : p = Todo(c).path
        OBVIOUS
      <3>2. cl[c].pc = "post" /\ (fs' = With(fs, p, File(Todo(c).b, {})) \/ UNCHANGED fs)
        BY <2>6, <3>1 DEF PostBlob, At, Put
      <3>3. fs'[p].c = Todo(c).b => Change(p)
        BY <3>1, <3>2 DEF Change
      <3> QED BY <3>2, <3>3, <1>w, <1>u
    <2>7. CASE PutManifest(c)
      <3> DEFINE m == ManifestOf(cl[c].job)
      <3>1. cl[c].pc = "put" /\ fs' \in {fs, Tagged(cl[c].job)}
        BY <2>7 DEF PutManifest, At
      <3>2. CASE fs' = Tagged(cl[c].job)
        <4>1. \A n, t : Tag(n, t)[1] = "tag" /\ Blob(n, t)[1] = "blob"
          BY DEF Tag, Blob
        <4>2. \A q \in DOMAIN fs' :
                 \/ /\ q[1] \in {"blob", "tag"} /\ fs'[q].c = m
                    /\ q \in {Tag(cl[c].job.ref.name, TagOf(cl[c].job.ref)),
                              Blob(cl[c].job.ref.name, Sha256(m))}
                 \/ q \in DOMAIN fs /\ fs'[q] = fs[q]
          BY <3>2, <4>1 DEF Tagged, Put, With, File
        <4>3. ASSUME NEW q \in DOMAIN fs' PROVE Change(q)
          BY <3>1, <4>2 DEF Change
        <4> QED BY <4>3 DEF All
      <3> QED BY <3>1, <3>2, <1>u
    <2> QED BY <1>1, <2>1, <2>2, <2>3, <2>4, <2>5, <2>6, <2>7 DEF PushStep
  <1>2. ASSUME NEW c \in Clients, PullStep(c) PROVE All
    <2>1. CASE \E j \in Jobs : Fetch(c, j)
      BY <2>1, <1>u DEF Fetch
    <2>2. CASE ResolveManifest(c) \/ ResolveConfig(c) \/ PullLayer(c)
      BY <2>2, <1>u DEF ResolveManifest, ResolveConfig, PullLayer
    <2>3. CASE PullStage(c)
      <3>1. PICK t, who : t = Part(cl[c].job.dest) /\ fs' = With(fs, t, File(Torn, who))
        BY <2>3 DEF PullStage
      <3>2. fs'[t].c = Torn => Change(t)
        BY <3>1 DEF Change, Part
      <3> QED BY <3>1, <3>2, <1>w
    <2>4. CASE PullWrite(c)
      <3>1. cl[c].pc = "staged" /\ Write(c, cl[c].layer)
        BY <2>4 DEF PullWrite, At
      <3>2. \A p \in Handled(c) : fs'[p].c \in {Torn, cl[c].layer} => Change(p)
        BY <3>1 DEF Change
      <3> QED BY <3>1, <3>2, <1>h
    <2>5. CASE PullVerify(c)
      BY <2>5, <1>d, <1>u DEF PullVerify
    <2>6. CASE PullRename(c)
      <3>1. PICK p, q : p = Part(cl[c].job.dest) /\ q = Dest(cl[c].job.dest)
        OBVIOUS
      <3>2. cl[c].pc = "rename" /\ ((Exists(p) /\ Rename(p, q)) \/ UNCHANGED fs)
        BY <2>6, <3>1 DEF PullRename, At
      <3>3. CASE Exists(p) /\ Rename(p, q)
        <4>1. fs'[q] = fs[p] => Change(q)
          BY <3>1, <3>2, <3>3 DEF Change
        <4> QED BY <3>3, <4>1, <1>m DEF Exists
      <3> QED BY <3>2, <3>3, <1>u
    <2> QED BY <1>2, <2>1, <2>2, <2>3, <2>4, <2>5, <2>6 DEF PullStep
  <1>3. ASSUME NEW c \in Clients, Crash(c) PROVE All
    BY <1>3 DEF Crash, All, Change, File
  <1>4. ASSUME NEW p \in DOMAIN fs, Rot(p) PROVE All
    <2>1. /\ DOMAIN fs' = DOMAIN fs /\ \A q \in DOMAIN fs : q # p => fs'[q] = fs[q]
          /\ p[1] \in {"blob", "tag"} /\ rot' = "has"
      BY <1>4 DEF Rot, ShapeInv, FileStore
    <2>2. fs[p] = File(fs[p].c, fs[p].open) /\ fs'[p] = [fs[p] EXCEPT !.c = Torn]
      BY <1>4 DEF Rot, ShapeInv, FileStore
    <2>3. fs'[p].c = Torn
      BY <2>2 DEF File
    <2>4. Change(p)
      BY <2>1, <2>3 DEF Change
    <2>5. \A q \in DOMAIN fs : q # p => Change(q)
      BY <2>1 DEF Change
    <2> QED BY <2>1, <2>4, <2>5 DEF All
  <1> QED BY <1>1, <1>2, <1>3, <1>4 DEF Next

\* Where a content of the next store comes from.
Origin(b) ==
  \/ b = Torn
  \/ \E p \in DOMAIN fs : b = fs[p].c
  \/ \E c \in Clients :
       \/ cl[c].pc \in {"write", "post"} /\ b = Todo(c).b
       \/ cl[c].pc = "staged" /\ b = cl[c].layer
       \/ cl[c].pc = "put" /\ b = ManifestOf(cl[c].job)

LEMMA Origins == ASSUME ShapeInv, Next PROVE \A p \in DOMAIN fs' : Origin(fs'[p].c)
  <1>1. ASSUME NEW p \in DOMAIN fs' PROVE Origin(fs'[p].c)
    <2>1. Change(p)
      BY Changes
    <2> QED BY <2>1 DEF Change, Origin, Exists
  <1> QED BY <1>1

\* What a push has still to put, whatever it has put before.
TodoInv ==
  \A c \in Clients : cl[c].pc \in Pushing =>
    IF kind = "layout" THEN \E s : LayoutPlan(cl[c].pc, cl[c].job, cl[c].todo, s)
                       ELSE \E s : RegistryPlan(cl[c].pc, cl[c].job, cl[c].todo, s)

LEMMA TodoStep == ASSUME ShapeInv, TodoInv, Next PROVE TodoInv'
  <1> SUFFICES ASSUME NEW c \in Clients, cl'[c].pc \in Pushing
               PROVE  IF kind' = "layout"
                      THEN \E s : LayoutPlan(cl'[c].pc, cl'[c].job, cl'[c].todo, s)
                      ELSE \E s : RegistryPlan(cl'[c].pc, cl'[c].job, cl'[c].todo, s)
    BY DEF TodoInv
  <1>0. kind' = kind /\ PushMove(c) /\ kind \in {"layout", "registry"}
    BY BlobsStay, Moves DEF ShapeInv
  <1> DEFINE job == cl[c].job
             todo == cl[c].todo
             Goal == IF kind = "layout"
                     THEN \E s : LayoutPlan(cl'[c].pc, cl'[c].job, cl'[c].todo, s)
                     ELSE \E s : RegistryPlan(cl'[c].pc, cl'[c].job, cl'[c].todo, s)
  <1>1. ASSUME cl'[c].pc = "check", cl'[c].todo = PushFiles(cl'[c].job) PROVE Goal
    <2>1. CASE kind = "layout"
      <3>1. LayoutPlan("check", cl'[c].job, PushFiles(cl'[c].job), {})
        BY <2>1, LayoutFiles, Todo3 DEF LayoutPlan
      <3> QED BY <1>1, <2>1, <3>1
    <2>2. CASE kind = "registry"
      <3>1. RegistryPlan("check", cl'[c].job, PushFiles(cl'[c].job), {})
        BY <2>2, RegistryFiles, Todo2 DEF RegistryPlan
      <3> QED BY <1>1, <2>2, <3>1
    <2> QED BY <1>0, <2>1, <2>2
  <1>2. ASSUME cl[c].pc \in Pushing, cl'[c].job = job PROVE Goal
    <2>1. CASE kind = "layout"
      <3>1. PICK s : LayoutPlan(cl[c].pc, job, todo, s)
        BY <1>2, <2>1 DEF TodoInv
      <3>2. CASE cl'[c] = cl[c]
        BY <2>1, <3>1, <3>2
      <3>3. CASE /\ cl'[c].todo = todo /\ cl[c].pc \in {"check", "open", "write"}
                 /\ cl'[c].pc \in {"open", "write", "replace"}
        <4>1. LayoutPlan(cl'[c].pc, job, todo, s)
          BY <3>1, <3>3 DEF LayoutPlan
        <4> QED BY <1>2, <2>1, <3>3, <4>1
      <3>4. CASE /\ cl[c].pc \in {"check", "replace", "post"} /\ cl'[c].todo = Tail(todo)
                 /\ cl'[c].pc = NextFile(Tail(todo))
        <4> DEFINE t == s \cup {Head(todo).path}
        <4>1. Kept(s, t) /\ Head(todo).path \in t /\ cl[c].pc # "load"
          BY <3>4 DEF Kept
        <4> HIDE DEF t
        <4>2. LayoutPlan(NextFile(Tail(todo)), job, Tail(todo), t)
          BY <3>1, <4>1, PlanAdvance
        <4> QED BY <1>2, <2>1, <3>4, <4>2
      <3>5. CASE /\ cl[c].pc = "load" /\ cl'[c].pc = "check"
                 /\ \E new : cl'[c].todo = <<MarkerFile, IndexFile(new)>>
        <4>1. PICK new : cl'[c].todo = <<MarkerFile, IndexFile(new)>>
          BY <3>5
        <4> DEFINE t == s \cup Needs(IndexBytes(new)) \cup {ConfigFile(job).path,
                          LayerFile(job).path, ManifestFile(job).path}
        <4>2. /\ ConfigFile(job).path \in t /\ LayerFile(job).path \in t
              /\ ManifestFile(job).path \in t /\ Needs(IndexBytes(new)) \subseteq t
          OBVIOUS
        <4> HIDE DEF t
        <4>3. <<MarkerFile, IndexFile(new)>> # <<>>
          OBVIOUS
        <4>4. LayoutPlan("check", job, <<MarkerFile, IndexFile(new)>>, t)
          BY <4>2, <4>3 DEF LayoutPlan
        <4> QED BY <1>2, <2>1, <3>5, <4>1, <4>4
      <3>6. cl[c].pc # "post"
        BY <3>1 DEF LayoutPlan
      <3> QED BY <1>0, <1>2, <2>1, <3>1, <3>2, <3>3, <3>4, <3>5, <1>1 DEF PushMove
    <2>2. CASE kind = "registry"
      <3>1. PICK s : RegistryPlan(cl[c].pc, job, todo, s)
        BY <1>2, <2>2 DEF TodoInv
      <3>2. CASE cl'[c] = cl[c]
        BY <2>2, <3>1, <3>2
      <3>3. CASE cl'[c].todo = todo /\ cl[c].pc = "check" /\ cl'[c].pc = "post"
        <4>1. RegistryPlan("post", job, todo, s)
          BY <3>1, <3>3 DEF RegistryPlan
        <4> QED BY <1>2, <2>2, <3>3, <4>1
      <3>4. CASE /\ cl[c].pc \in {"check", "replace", "post"} /\ cl'[c].todo = Tail(todo)
                 /\ cl'[c].pc = IF Tail(todo) = <<>> THEN "put" ELSE NextFile(Tail(todo))
        <4> DEFINE t == s \cup {Head(todo).path}
        <4>1. Kept(s, t) /\ Head(todo).path \in t /\ cl[c].pc # "put"
          BY <3>4 DEF Kept
        <4> HIDE DEF t
        <4>2. RegistryPlan(IF Tail(todo) = <<>> THEN "put" ELSE NextFile(Tail(todo)), job,
                           Tail(todo), t)
          BY <3>1, <4>1, RemoteAdvance
        <4> QED BY <1>2, <2>2, <3>4, <4>2
      <3>5. cl[c].pc \in {"check", "post", "put"}
        BY <3>1 DEF RegistryPlan
      <3> QED BY <1>0, <1>2, <2>2, <3>2, <3>3, <3>4, <3>5, <1>1 DEF PushMove
    <2> QED BY <1>0, <2>1, <2>2
  <1>3. Goal
    BY <1>0, <1>1, <1>2 DEF PushMove
  <1> QED BY <1>0, <1>3

\* A pushed file is a blob, the marker or the index, with the content that is its.
LEMMA TodoPath ==
  ASSUME TodoInv, NEW c \in Clients,
         cl[c].pc \in {"check", "open", "write", "replace", "post"}
  PROVE  /\ Todo(c).path[1] \in {"blob", "oci-layout", "index.json"}
         /\ cl[c].pc \in {"open", "write", "replace"} => kind = "layout"
  <1>1. cl[c].pc \in Pushing
    BY DEF Pushing
  <1>2. CASE kind = "layout"
    <2>1. PICK s : LayoutPlan(cl[c].pc, cl[c].job, cl[c].todo, s)
      BY <1>1, <1>2 DEF TodoInv
    <2>2. ASSUME NEW s2, NEW job, NEW pc, NEW todo, LayoutPlan(pc, job, todo, s2), pc # "load"
          PROVE  Head(todo).path[1] \in {"blob", "oci-layout", "index.json"}
      <3>1. /\ ConfigFile(job).path[1] = "blob" /\ LayerFile(job).path[1] = "blob"
            /\ ManifestFile(job).path[1] = "blob" /\ MarkerFile.path[1] = "oci-layout"
            /\ \A new : IndexFile(new).path[1] = "index.json"
        BY DEF ConfigFile, LayerFile, ManifestFile, BlobFile, PutFile, MarkerFile, IndexFile,
           Marker, Index
      <3>2. CASE todo = <<ConfigFile(job), LayerFile(job), ManifestFile(job)>>
        BY <3>1, <3>2, Todo3
      <3>3. CASE todo = <<LayerFile(job), ManifestFile(job)>>
        BY <3>1, <3>3, Todo2
      <3>4. CASE todo = <<ManifestFile(job)>>
        BY <3>1, <3>4, Todo1
      <3>5. CASE \E new : \/ todo = <<MarkerFile, IndexFile(new)>>
                          \/ todo = <<IndexFile(new)>>
        BY <3>1, <3>5, Todo1, Todo2
      <3> QED BY <2>2, <3>2, <3>3, <3>4, <3>5 DEF LayoutPlan
    <2> QED BY <1>2, <2>1, <2>2 DEF Todo
  <1>3. CASE kind # "layout"
    <2>1. PICK s : RegistryPlan(cl[c].pc, cl[c].job, cl[c].todo, s)
      BY <1>1, <1>3 DEF TodoInv
    <2>2. Todo(c).path[1] = "blob"
      BY <2>1, RemoteHead DEF Todo
    <2> QED BY <2>1, <2>2 DEF RegistryPlan
  <1> QED BY <1>2, <1>3

-----------------------------------------------------------------------------
(* What a pull delivers.                                                   *)

\* man is what the ref of job resolves to: named by its digest, another tool's, or
\* put there by a push under the same repository and tag.
Prov(man, job) ==
  \/ job.ref.digest # NoDigest
  \/ \A k \in Pushes : man # ManifestOf(k)
  \/ \E k \in Pushes : Label(k) = Label(job) /\ man = ManifestOf(k)

\* An index entry is one of a push, or names a manifest no push makes; a tag of a
\* registry likewise.
Honest(e) ==
  \/ \E k \in Pushes : e = Entry(k)
  \/ \A k \in Pushes : e.desc.digest # Sha256(ManifestOf(k))
Labelled(b) == b[1] = "index" => \A e \in b[2] : Honest(e)
TagFits(p, b) ==
  \/ \A k \in Pushes : b # ManifestOf(k)
  \/ \E k \in Pushes : b = ManifestOf(k) /\ p = Tag(k.ref.name, TagOf(k.ref))

TodoLabelled(todo) ==
  \A new : todo \in {<<MarkerFile, IndexFile(new)>>, <<IndexFile(new)>>} =>
            Labelled(IndexBytes(new))

LabelInv ==
  kind = "layout" =>
    /\ \A p \in DOMAIN fs : Labelled(fs[p].c)
    /\ \A c \in Clients : cl[c].pc \in Pulling => Labelled(cl[c].layer)
    /\ \A c \in Clients : cl[c].pc \in Pushing => TodoLabelled(cl[c].todo)

TagInv == kind = "registry" => \A p \in DOMAIN fs : p[1] = "tag" => TagFits(p, fs[p].c)

\* What a fetch holds has been checked against what names it.
FetchInv ==
  \A c \in Clients :
    /\ cl[c].pc \in Pulling \ {"manifest"} => Prov(cl[c].man, cl[c].job)
    /\ cl[c].pc \in {"stage"} \cup Staging => VerifyDigest(cl[c].layer, cl[c].man[2].layers[1])

\* An open file is the one its client is writing, under its first or its final
\* name, and a client has one file open at most.
Holds(c, p) ==
  /\ c \in Clients
  /\ \/ cl[c].pc = "write"  /\ p \in {Temp(Todo(c).path), Todo(c).path}
     \/ cl[c].pc = "staged" /\ p \in {Part(cl[c].job.dest), Dest(cl[c].job.dest)}
Single(f) == \A p, q \in DOMAIN f : \A c \in f[p].open : c \in f[q].open => p = q
HandleInv == Single(fs) /\ \A p \in DOMAIN fs : \A c \in fs[p].open : Holds(c, p)

\* A pull that no other has met on its destination has its .part file to itself.
Owner(c) ==
  LET part == Part(cl[c].job.dest)
  IN  /\ \A x \in Clients \ {c} : cl[x].pc \in Staging => cl[x].job.dest # cl[c].job.dest
      /\ part \in DOMAIN fs
      /\ cl[c].pc = "staged" => fs[part] = File(Torn, {c})
      /\ cl[c].pc # "staged" => fs[part] = File(cl[c].layer, {})
      /\ cl[c].pc = "rename" => PullAccepts(cl[c].layer, cl[c].job, cl[c].cfg)
OwnInv == \A c \in Clients : cl[c].pc \in Staging /\ cl[c].job.dest \notin shared => Owner(c)

\* The file delivered is closed and is what that pull checked.
Delivery(f, del) ==
  /\ f.open = {}
  /\ PullAccepts(f.c, del.job, del.cfg)
  /\ VerifyDigest(f.c, del.man[2].layers[1])
  /\ Prov(del.man, del.job)
DeliverInv ==
  \A d \in DOMAIN delivered \ shared :
    Dest(d) \in DOMAIN fs /\ Delivery(fs[Dest(d)], delivered[d])

-----------------------------------------------------------------------------
(* Handles.                                                                *)

\* A step of one client does not touch another.
LEMMA OneMoves ==
  ASSUME ShapeInv, NEW c \in Clients, PushStep(c) \/ PullStep(c) \/ Crash(c)
  PROVE  \A x \in Clients : x # c => cl'[x] = cl[x]
  <1> DEFINE Rest == \A x \in Clients : x # c => cl'[x] = cl[x]
  <1>e. ASSUME NEW r, cl' = [cl EXCEPT ![c] = r] PROVE Rest
    BY <1>e DEF ShapeInv
  <1>u. ASSUME UNCHANGED cl PROVE Rest
    BY <1>u
  <1>f. ASSUME Fail(c) \/ Published(c) PROVE Rest
    BY <1>f, <1>e DEF Fail, Published
  <1>g. ASSUME NEW pc, Goto(c, pc) PROVE Rest
    BY <1>g, <1>e DEF Goto
  <1>v. ASSUME Advance(c) PROVE Rest
    BY <1>v, <1>e DEF Advance
  <1> SUFFICES Rest
    OBVIOUS
  <1> HIDE DEF Rest
  <1>1. CASE PushStep(c)
    <2>1. CASE \E j \in Jobs : Push(c, j)
      BY <2>1, <1>e, <1>u DEF Push
    <2>2. CASE PutCheck(c) \/ HeadBlob(c)
      BY <2>2, <1>g, <1>v, <1>f DEF PutCheck, HeadBlob
    <2>3. CASE PutOpen(c) \/ PutWrite(c)
      BY <2>3, <1>g DEF PutOpen, PutWrite
    <2>4. CASE PutReplace(c) \/ PostBlob(c) \/ PutManifest(c)
      BY <2>4, <1>f, <1>v DEF PutReplace, PostBlob, PutManifest
    <2>5. CASE PutLoad(c)
      BY <2>5, <1>f, <1>e DEF PutLoad
    <2> QED BY <1>1, <2>1, <2>2, <2>3, <2>4, <2>5 DEF PushStep
  <1>2. CASE PullStep(c)
    <2>1. CASE \E j \in Jobs : Fetch(c, j)
      BY <2>1, <1>e, <1>u DEF Fetch
    <2>2. CASE ResolveManifest(c)
      BY <2>2, <1>f, <1>e DEF ResolveManifest, Lost
    <2>3. CASE ResolveConfig(c)
      BY <2>3, <1>f, <1>e DEF ResolveConfig, Lost
    <2>4. CASE PullLayer(c)
      BY <2>4, <1>f, <1>e DEF PullLayer, Lost
    <2>5. CASE PullStage(c) \/ PullWrite(c) \/ PullVerify(c) \/ PullRename(c)
      BY <2>5, <1>f, <1>g DEF PullStage, PullWrite, PullVerify, PullRename
    <2> QED BY <1>2, <2>1, <2>2, <2>3, <2>4, <2>5 DEF PullStep
  <1>3. CASE Crash(c)
    BY <1>3, <1>f DEF Crash
  <1> QED BY <1>1, <1>2, <1>3

\* The names of files differ by what they are for.
LEMMA Names ==
  ASSUME NEW p, NEW q
  PROVE  /\ Temp(p)[1] = "tmp" /\ Part(p)[1] = "part" /\ Dest(p)[1] = "dest"
         /\ Temp(p) = Temp(q) => p = q
         /\ Part(p) = Part(q) => p = q
         /\ Dest(p) = Dest(q) => p = q
         /\ Part(p) # Dest(q) /\ Temp(p) # Part(q) /\ Temp(p) # Dest(q)
  BY DEF Temp, Part, Dest

LEMMA HandleStep == ASSUME ShapeInv, TodoInv, HandleInv, Next PROVE HandleInv'
  <1> DEFINE Held(c) == \A q \in DOMAIN fs' : \A x \in fs'[q].open :
                          (x # c /\ Holds(x, q)) \/ (x = c /\ Holds(c, q)')
             Quiet(c) == cl[c].pc \notin {"write", "staged"}
             NoHandle(c)  == \A q \in DOMAIN fs : c \notin fs[q].open
  <1>a. ASSUME NEW c \in Clients, PushStep(c) \/ PullStep(c) \/ Crash(c), Held(c), Single(fs')
        PROVE  HandleInv'
    <2>1. \A x \in Clients : x # c => cl'[x] = cl[x]
      BY <1>a, OneMoves
    <2>2. ASSUME NEW q \in DOMAIN fs', NEW x \in fs'[q].open PROVE Holds(x, q)'
      <3>1. CASE x = c
        BY <1>a, <3>1
      <3>2. CASE x # c
        <4>1. Holds(x, q) /\ x \in Clients
          BY <1>a, <3>2 DEF Holds
        <4>2. cl'[x] = cl[x]
          BY <2>1, <3>2, <4>1
        <4> QED BY <4>1, <4>2 DEF Holds, Todo
      <3> QED BY <3>1, <3>2
    <2> QED BY <1>a, <2>2 DEF HandleInv
  <1>q. ASSUME NEW c \in Clients, Quiet(c) PROVE NoHandle(c)
    BY <1>q DEF HandleInv, Holds
  <1>n. ASSUME NEW c \in Clients, NoHandle(c), \A q \in DOMAIN fs' : fs'[q].open # {} =>
                  q \in DOMAIN fs /\ fs'[q].open \subseteq fs[q].open
        PROVE  Held(c) /\ Single(fs')
    <2>1. \A q \in DOMAIN fs' : \A x \in fs'[q].open : q \in DOMAIN fs /\ x \in fs[q].open
      BY <1>n
    <2> QED BY <1>n, <2>1 DEF HandleInv, Single
  <1>u. ASSUME NEW c \in Clients, PushStep(c) \/ PullStep(c), Quiet(c), UNCHANGED fs
        PROVE  HandleInv'
    <2>1. Held(c) /\ Single(fs')
      BY <1>u, <1>q, <1>n
    <2> QED BY <1>u, <2>1, <1>a
  <1>p. ASSUME NEW c \in Clients, PushStep(c) \/ PullStep(c), Quiet(c), NEW p, NEW b,
               fs' = Put(fs, p, b)
        PROVE  HandleInv'
    <2>1. \A q \in DOMAIN fs' : fs'[q].open # {} => q \in DOMAIN fs /\ fs'[q].open \subseteq fs[q].open
      BY <1>p DEF Put, With, File
    <2>2. Held(c) /\ Single(fs')
      BY <1>p, <2>1, <1>q, <1>n
    <2> QED BY <1>p, <2>2, <1>a
  <1>m. ASSUME NEW c \in Clients, PushStep(c) \/ PullStep(c), Quiet(c), NEW p \in DOMAIN fs,
               NEW q, Rename(p, q), p # q,
               \A x \in fs[p].open : Holds(x, p) => Holds(x, q)
        PROVE  HandleInv'
    <2>0. NoHandle(c)
      BY <1>m, <1>q
    <2>1. \A y \in DOMAIN fs' : IF y = q THEN fs'[y] = fs[p]
                                ELSE y \in DOMAIN fs /\ y # p /\ fs'[y] = fs[y]
      BY <1>m DEF Rename, With, Without
    <2>2. Held(c)
      BY <1>m, <2>0, <2>1 DEF HandleInv
    <2>3. Single(fs')
      BY <1>m, <2>1 DEF HandleInv, Single
    <2> QED BY <1>m, <2>2, <2>3, <1>a
  <1>o. ASSUME NEW c \in Clients, PushStep(c) \/ PullStep(c), Quiet(c), NEW t,
               fs' = With(fs, t, File(Torn, (IF Exists(t) THEN fs[t].open ELSE {}) \cup {c})),
               Holds(c, t)'
        PROVE  HandleInv'
    <2>0. NoHandle(c)
      BY <1>o, <1>q
    <2>1. \A y \in DOMAIN fs' : y # t => y \in DOMAIN fs /\ fs'[y] = fs[y]
      BY <1>o DEF With
    <2>2. fs'[t].open = (IF Exists(t) THEN fs[t].open ELSE {}) \cup {c}
      BY <1>o DEF With, File
    <2>3. \A x \in fs'[t].open : x = c \/ (t \in DOMAIN fs /\ x \in fs[t].open)
      BY <2>2 DEF Exists
    <2>4. Held(c)
      BY <1>o, <2>0, <2>1, <2>3 DEF HandleInv
    <2>5. Single(fs')
      BY <2>0, <2>1, <2>3 DEF HandleInv, Single
    <2> QED BY <1>o, <2>4, <2>5, <1>a
  <1>w. ASSUME NEW c \in Clients, PushStep(c) \/ PullStep(c), NEW b, Write(c, b)
        PROVE  HandleInv'
    <2>1. /\ DOMAIN fs' = DOMAIN fs
          /\ \A p \in DOMAIN fs : \/ fs'[p] = fs[p]
                                  \/ c \in fs[p].open /\ fs'[p].open = fs[p].open \ {c}
      BY <1>w, WriteFacts DEF ShapeInv
    <2>2. ASSUME NEW p \in DOMAIN fs PROVE c \notin fs'[p].open
      <3>1. CASE c \notin fs[p].open
        BY <2>1, <3>1
      <3>2. CASE c \in fs[p].open
        <4>1. p \in Handled(c) /\ \A q \in Handled(c) : q = p
          BY <3>2 DEF Handled, HandleInv, Single
        <4>2. PICK new : fs' = [fs EXCEPT ![p] = File(new, fs[p].open \ {c})]
          BY <1>w, <4>1 DEF Write
        <4>3. fs'[p] = File(new, fs[p].open \ {c})
          BY <4>2 DEF ShapeInv, FileStore
        <4> QED BY <4>3, FileParts
      <3> QED BY <3>1, <3>2
    <2>3. \A p \in DOMAIN fs : fs'[p].open \subseteq fs[p].open
      BY <2>1
    <2>4. Held(c)
      BY <2>1, <2>2, <2>3 DEF HandleInv
    <2>5. Single(fs')
      BY <2>1, <2>3 DEF HandleInv, Single
    <2> QED BY <1>w, <2>4, <2>5, <1>a
  <1> HIDE DEF Held, Quiet, NoHandle
  <1>1. ASSUME NEW c \in Clients, PushStep(c) PROVE HandleInv'
    <2>0. ASSUME cl[c].pc \notin {"write", "staged"} PROVE Quiet(c)
      BY <2>0 DEF Quiet
    <2>1. CASE \E j \in Jobs : Push(c, j)
      BY <1>1, <2>1, <2>0, <1>u DEF Push, Working
    <2>2. CASE PutCheck(c) \/ PutLoad(c) \/ HeadBlob(c)
      BY <1>1, <2>2, <2>0, <1>u DEF PutCheck, PutLoad, HeadBlob, At
    <2>3. CASE PutOpen(c)
      <3>0. PICK t : t = Temp(Todo(c).path)
        OBVIOUS
      <3>1. /\ cl[c].pc = "open" /\ Goto(c, "write")
            /\ fs' = With(fs, t, File(Torn, (IF Exists(t) THEN fs[t].open ELSE {}) \cup {c}))
        BY <2>3, <3>0 DEF PutOpen, At
      <3>2. cl[c].pc \in Pushing /\ cl[c].pc # "idle"
        BY <3>1 DEF Pushing
      <3>3. cl'[c] = [pc |-> "write", job |-> cl[c].job, todo |-> cl[c].todo]
        BY <3>1, <3>2, GotoFacts
      <3>4. cl'[c].pc = "write" /\ cl'[c].todo = cl[c].todo
        BY <3>3
      <3>5. Holds(c, t)'
        BY <3>0, <3>4 DEF Holds, Todo, Temp
      <3> QED BY <1>1, <3>1, <3>5, <2>0, <1>o
    <2>4. CASE PutWrite(c)
      BY <1>1, <2>4, <1>w DEF PutWrite
    <2>5. CASE PutReplace(c)
      <3> DEFINE p == Todo(c).path
      <3>1. cl[c].pc = "replace" /\ ((Rename(Temp(p), p) /\ Temp(p) \in DOMAIN fs) \/ UNCHANGED fs)
        BY <2>5 DEF PutReplace, At, Exists
      <3>2. p[1] \in {"blob", "oci-layout", "index.json"}
        BY <3>1, TodoPath
      <3>3. Temp(p) # p
        BY <3>2, Names
      <3>4. ASSUME NEW x, Holds(x, Temp(p)) PROVE Holds(x, p)
        <4>1. CASE cl[x].pc = "write"
          <5>1. Todo(x).path[1] \in {"blob", "oci-layout", "index.json"}
            BY <3>4, <4>1, TodoPath DEF Holds
          <5> QED BY <3>4, <4>1, <5>1, Names DEF Holds
        <4>2. CASE cl[x].pc # "write"
          BY <3>4, <4>2, Names DEF Holds
        <4> QED BY <4>1, <4>2
      <3> QED BY <1>1, <3>1, <3>3, <3>4, <2>0, <1>m, <1>u
    <2>6. CASE PostBlob(c)
      BY <1>1, <2>6, <2>0, <1>p, <1>u DEF PostBlob, At
    <2>7. CASE PutManifest(c)
      <3>1. cl[c].pc = "put" /\ fs' \in {fs, Tagged(cl[c].job)}
        BY <2>7 DEF PutManifest, At
      <3>2. CASE fs' = Tagged(cl[c].job)
        <4>1. \A q \in DOMAIN fs' : fs'[q].open # {} =>
                q \in DOMAIN fs /\ fs'[q].open \subseteq fs[q].open
          BY <3>2 DEF Tagged, Put, With, File
        <4>2. NoHandle(c)
          BY <3>1, <2>0, <1>q
        <4>3. Held(c) /\ Single(fs')
          BY <4>1, <4>2, <1>n
        <4> QED BY <1>1, <4>3, <1>a
      <3> QED BY <1>1, <3>1, <3>2, <2>0, <1>u
    <2> QED BY <1>1, <2>1, <2>2, <2>3, <2>4, <2>5, <2>6, <2>7 DEF PushStep
  <1>2. ASSUME NEW c \in Clients, PullStep(c) PROVE HandleInv'
    <2>0. ASSUME cl[c].pc \notin {"write", "staged"} PROVE Quiet(c)
      BY <2>0 DEF Quiet
    <2>1. CASE \E j \in Jobs : Fetch(c, j)
      BY <1>2, <2>1, <2>0, <1>u DEF Fetch, Working
    <2>2. CASE ResolveManifest(c) \/ ResolveConfig(c) \/ PullLayer(c)
      BY <1>2, <2>2, <2>0, <1>u DEF ResolveManifest, ResolveConfig, PullLayer, At
    <2>3. CASE PullStage(c)
      <3>0. PICK t : t = Part(cl[c].job.dest)
        OBVIOUS
      <3>1. /\ cl[c].pc = "stage" /\ Goto(c, "staged")
            /\ fs' = With(fs, t, File(Torn, (IF Exists(t) THEN fs[t].open ELSE {}) \cup {c}))
        BY <2>3, <3>0 DEF PullStage, At
      <3>2. cl[c].pc # "idle"
        BY <3>1
      <3>3. cl'[c].pc = "staged" /\ cl'[c].job = cl[c].job
        BY <3>1, <3>2, GotoFacts
      <3>4. Holds(c, t)'
        BY <3>0, <3>3 DEF Holds, Part, Dest
      <3> QED BY <1>2, <3>1, <3>4, <2>0, <1>o
    <2>4. CASE PullWrite(c)
      BY <1>2, <2>4, <1>w DEF PullWrite
    <2>5. CASE PullVerify(c)
      <3>1. cl[c].pc = "verify" /\ (UNCHANGED fs \/ fs' = Without(fs, {Part(cl[c].job.dest)}))
        BY <2>5 DEF PullVerify, At
      <3>2. CASE fs' = Without(fs, {Part(cl[c].job.dest)})
        <4>1. \A q \in DOMAIN fs' : fs'[q].open # {} =>
                q \in DOMAIN fs /\ fs'[q].open \subseteq fs[q].open
          BY <3>2 DEF Without
        <4>2. NoHandle(c)
          BY <3>1, <2>0, <1>q
        <4>3. Held(c) /\ Single(fs')
          BY <4>1, <4>2, <1>n
        <4> QED BY <1>2, <4>3, <1>a
      <3> QED BY <1>2, <3>1, <3>2, <2>0, <1>u
    <2>6. CASE PullRename(c)
      <3> DEFINE d == cl[c].job.dest
      <3>1. /\ cl[c].pc = "rename"
            /\ (Rename(Part(d), Dest(d)) /\ Part(d) \in DOMAIN fs) \/ UNCHANGED fs
        BY <2>6 DEF PullRename, At, Exists
      <3>2. ASSUME NEW x, Holds(x, Part(d)) PROVE Holds(x, Dest(d))
        <4>1. CASE cl[x].pc = "write"
          <5>1. Todo(x).path[1] \in {"blob", "oci-layout", "index.json"}
            BY <3>2, <4>1, TodoPath DEF Holds
          <5> QED BY <3>2, <4>1, <5>1, Names DEF Holds
        <4>2. CASE cl[x].pc # "write"
          BY <3>2, <4>2, Names DEF Holds
        <4> QED BY <4>1, <4>2
      <3>3. Part(d) # Dest(d)
        BY Names
      <3> QED BY <1>2, <3>1, <3>2, <3>3, <2>0, <1>m, <1>u
    <2> QED BY <1>2, <2>1, <2>2, <2>3, <2>4, <2>5, <2>6 DEF PullStep
  <1>3. ASSUME NEW c \in Clients, Crash(c) PROVE HandleInv'
    <2>1. /\ DOMAIN fs' = DOMAIN fs
          /\ \A q \in DOMAIN fs : fs'[q].open = fs[q].open \ {c}
      BY <1>3 DEF Crash, File
    <2>2. Held(c)
      BY <2>1 DEF HandleInv, Held
    <2>3. Single(fs')
      BY <2>1 DEF HandleInv, Single
    <2> QED BY <1>3, <2>2, <2>3, <1>a
  <1>4. ASSUME NEW p \in DOMAIN fs, Rot(p) PROVE HandleInv'
    <2>1. DOMAIN fs' = DOMAIN fs /\ \A q \in DOMAIN fs : q # p => fs'[q] = fs[q]
      BY <1>4 DEF Rot, ShapeInv, FileStore
    <2>2. fs[p] = File(fs[p].c, fs[p].open) /\ fs'[p] = [fs[p] EXCEPT !.c = Torn]
      BY <1>4 DEF Rot, ShapeInv, FileStore
    <2>3. fs'[p].open = fs[p].open
      BY <2>2 DEF File
    <2>4. \A q \in DOMAIN fs : fs'[q].open = fs[q].open
      BY <2>1, <2>3
    <2>5. Single(fs')
      BY <2>1, <2>4 DEF HandleInv, Single
    <2>6. \A q, x : Holds(x, q) => Holds(x, q)'
      BY <1>4 DEF Rot, Holds, Todo
    <2> QED BY <2>1, <2>4, <2>5, <2>6 DEF HandleInv
  <1> QED BY <1>1, <1>2, <1>3, <1>4 DEF Next

-----------------------------------------------------------------------------
(* Destinations.                                                           *)

\* The file at p stays as it is.
Same(p) == /\ p \in DOMAIN fs' <=> p \in DOMAIN fs
           /\ p \in DOMAIN fs => fs'[p] = fs[p]
LocalSame == \A p : p[1] \in {"part", "dest"} => Same(p)

LEMMA LocalPut ==
  ASSUME NEW p, NEW v, fs' = With(fs, p, v), p[1] \notin {"part", "dest"}
  PROVE  LocalSame
  BY DEF With, LocalSame, Same

\* Who does not stage a file does not touch the ones that are.
LEMMA QuietFiles ==
  ASSUME ShapeInv, TodoInv, HandleInv, NEW c \in Clients, PushStep(c) \/ PullStep(c),
         cl[c].pc \notin {"stage"} \cup Staging
  PROVE  LocalSame
  <1>u. ASSUME UNCHANGED fs PROVE LocalSame
    BY <1>u DEF LocalSame, Same
  <1>1. CASE PushStep(c)
    <2>1. CASE \E j \in Jobs : Push(c, j)
      BY <2>1, <1>u DEF Push
    <2>2. CASE PutCheck(c) \/ PutLoad(c) \/ HeadBlob(c)
      BY <2>2, <1>u DEF PutCheck, PutLoad, HeadBlob
    <2>3. CASE PutOpen(c)
      BY <2>3, Names, LocalPut DEF PutOpen
    <2>4. CASE PutWrite(c)
      <3>1. cl[c].pc = "write" /\ Write(c, Todo(c).b)
        BY <2>4 DEF PutWrite, At
      <3>2. Todo(c).path[1] \in {"blob", "oci-layout", "index.json"}
        BY <3>1, TodoPath
      <3>3. /\ DOMAIN fs' = DOMAIN fs
            /\ \A p \in DOMAIN fs : fs'[p] = fs[p] \/ c \in fs[p].open
        BY <3>1, WriteFacts DEF ShapeInv
      <3>4. \A p \in DOMAIN fs : c \in fs[p].open => p[1] \notin {"part", "dest"}
        BY <3>1, <3>2, Names DEF HandleInv, Holds
      <3> QED BY <3>3, <3>4 DEF LocalSame, Same
    <2>5. CASE PutReplace(c)
      <3> DEFINE p == Todo(c).path
      <3>1. cl[c].pc = "replace" /\ ((Rename(Temp(p), p) /\ Temp(p) \in DOMAIN fs) \/ UNCHANGED fs)
        BY <2>5 DEF PutReplace, At, Exists
      <3>2. p[1] \in {"blob", "oci-layout", "index.json"} /\ Temp(p)[1] = "tmp"
        BY <3>1, TodoPath, Names
      <3> HIDE DEF p
      <3>3. CASE Rename(Temp(p), p)
        BY <3>2, <3>3 DEF Rename, With, Without, LocalSame, Same
      <3> QED BY <3>1, <3>3, <1>u
    <2>6. CASE PostBlob(c)
      <3>1. cl[c].pc = "post"
        BY <2>6 DEF PostBlob, At
      <3>2. Todo(c).path[1] \in {"blob", "oci-layout", "index.json"}
        BY <3>1, TodoPath
      <3>3. Todo(c).path[1] \notin {"part", "dest"}
        BY <3>2
      <3> QED BY <2>6, <3>3, LocalPut, <1>u DEF PostBlob, Put
    <2>7. CASE PutManifest(c)
      <3>1. fs' \in {fs, Tagged(cl[c].job)}
        BY <2>7 DEF PutManifest
      <3>2. \A n, t : Tag(n, t)[1] = "tag" /\ Blob(n, t)[1] = "blob"
        BY DEF Tag, Blob
      <3>3. CASE fs' = Tagged(cl[c].job)
        BY <3>2, <3>3 DEF Tagged, Put, With, LocalSame, Same
      <3> QED BY <3>1, <3>3, <1>u
    <2> QED BY <1>1, <2>1, <2>2, <2>3, <2>4, <2>5, <2>6, <2>7 DEF PushStep
  <1>2. CASE PullStep(c)
    BY <1>2, <1>u DEF PullStep, Fetch, ResolveManifest, ResolveConfig, PullLayer, PullStage,
       PullWrite, PullVerify, PullRename, At, Staging
  <1> QED BY <1>1, <1>2

\* ... and does not begin to.
LEMMA QuietStays ==
  ASSUME ShapeInv, TodoInv, NEW c \in Clients, PushStep(c) \/ PullStep(c),
         cl[c].pc \notin {"stage"} \cup Staging
  PROVE  cl'[c].pc \notin Staging /\ UNCHANGED <<shared, delivered>>
  <1>1. Next
    BY DEF Next
  <1>2. PullMove(c)
    BY <1>1, Moves
  <1>3. cl'[c].pc \notin Staging
    BY <1>2 DEF PullMove, Staging, Pulling
  <1>4. UNCHANGED <<shared, delivered>>
    BY DEF PushStep, PullStep, Push, PutCheck, PutOpen, PutWrite, PutReplace, PutLoad, HeadBlob,
       PostBlob, PutManifest, Fetch, ResolveManifest, ResolveConfig, PullLayer, PullStage,
       PullWrite, PullVerify, PullRename, At, Staging, ghosts
  <1> QED BY <1>3, <1>4

\* Who owns its .part file keeps it when its file does not change and nobody else
\* begins to stage to the same destination.
LEMMA OwnerKept ==
  ASSUME NEW c \in Clients, \A y \in Clients : y # c => cl'[y] = cl[y],
         NEW x \in Clients, x # c, Owner(x), Same(Part(cl[x].job.dest)),
         cl'[c].pc \in Staging => cl'[c].job.dest # cl[x].job.dest
  PROVE  Owner(x)'
  BY DEF Owner, Same, Part

\* No delivered file changes.
DeliverSame == \A d \in DOMAIN delivered \ shared : Same(Dest(d))

LEMMA DeliverKept ==
  ASSUME DeliverInv, DeliverSame, shared \subseteq shared', delivered' = delivered
  PROVE  DeliverInv'
  BY DEF DeliverInv, DeliverSame, Same, Dest

\* A step keeps the owners and, when what is fetched was checked, the deliveries.
OwnKept == OwnInv' /\ (DeliverInv /\ FetchInv => DeliverInv')

LEMMA PullStageOwn ==
  ASSUME ShapeInv, TodoInv, HandleInv, HandleInv', OwnInv, NEW c \in Clients, PullStage(c)
  PROVE  OwnKept
  <1>0. PICK d : d = cl[c].job.dest
    OBVIOUS
  <1> DEFINE t == Part(d)
             others == IF Exists(t) THEN fs[t].open ELSE {}
             met == \E x \in Clients \ {c} : cl[x].pc \in Staging /\ cl[x].job.dest = d
  <1>1. /\ cl[c].pc = "stage" /\ Goto(c, "staged")
        /\ fs' = With(fs, t, File(Torn, others \cup {c}))
        /\ shared' = IF met THEN shared \cup {d} ELSE shared
        /\ delivered' = delivered
    BY <1>0 DEF PullStage, At
  <1>2. /\ cl'[c].pc = "staged" /\ cl'[c].job = cl[c].job
        /\ \A y \in Clients : y # c => cl'[y] = cl[y]
    BY <1>1, GotoFacts
  <1>3. \A p : p # t => Same(p)
    BY <1>1 DEF With, Same
  <1>4. fs'[t] = File(Torn, others \cup {c}) /\ t \in DOMAIN fs'
    BY <1>1 DEF With
  <1>5. ASSUME DeliverInv PROVE DeliverInv'
    <2>1. DeliverSame
      BY <1>3, Names DEF DeliverSame
    <2> QED BY <1>1, <1>5, <2>1, DeliverKept
  <1>6. ASSUME NEW x \in Clients, x # c, cl'[x].pc \in Staging, cl'[x].job.dest \notin shared'
        PROVE  Owner(x)'
    <2>1. cl'[x] = cl[x]
      BY <1>2, <1>6
    <2>2. cl[x].job.dest # d
      BY <1>1, <1>6, <2>1
    <2>3. Owner(x)
      BY <1>1, <1>6, <2>1 DEF OwnInv
    <2>4. Same(Part(cl[x].job.dest))
      BY <1>3, <2>2, Names
    <2> QED BY <1>0, <1>2, <1>6, <2>2, <2>3, <2>4, OwnerKept
  <1>7. ASSUME d \notin shared' PROVE Owner(c)'
    <2>1. ~met
      BY <1>1, <1>7
    <2>2. ASSUME NEW x \in others PROVE FALSE
      <3>1. t \in DOMAIN fs /\ x \in fs[t].open
        BY <2>2 DEF Exists
      <3>2. Holds(x, t)
        BY <3>1 DEF HandleInv
      <3>3. x \in Clients /\ x # c
        BY <1>1, <3>2 DEF Holds
      <3>4. CASE cl[x].pc = "write"
        <4>1. Todo(x).path[1] \in {"blob", "oci-layout", "index.json"}
          BY <3>3, <3>4, TodoPath
        <4> QED BY <3>2, <3>4, <4>1, Names DEF Holds
      <3>5. CASE cl[x].pc = "staged"
        <4>1. cl[x].job.dest = d
          BY <3>2, <3>5, Names DEF Holds
        <4> QED BY <2>1, <3>3, <3>5, <4>1 DEF Staging
      <3> QED BY <3>2, <3>4, <3>5 DEF Holds
    <2>3. others \cup {c} = {c}
      BY <2>2
    <2>4. fs'[t] = File(Torn, {c})
      BY <1>4, <2>3
    <2>5. \A x \in Clients \ {c} : cl'[x].pc \in Staging => cl'[x].job.dest # d
      BY <1>2, <2>1
    <2>6. cl'[c].job.dest = d /\ cl'[c].pc = "staged"
      BY <1>0, <1>2
    <2> QED BY <1>4, <2>4, <2>5, <2>6 DEF Owner, Part
  <1>8. OwnInv'
    BY <1>0, <1>2, <1>6, <1>7 DEF OwnInv
  <1> QED BY <1>5, <1>8 DEF OwnKept

\* What a client that leaves a destination it staged to does to the others.
LEMMA OthersKept ==
  ASSUME OwnInv, NEW c \in Clients, \A y \in Clients : y # c => cl'[y] = cl[y],
         cl[c].pc \in Staging, UNCHANGED shared, cl'[c].pc \in Staging => cl'[c].job = cl[c].job,
         \A d : d # cl[c].job.dest => Same(Part(d)),
         cl'[c].pc \in Staging /\ cl'[c].job.dest \notin shared' => Owner(c)'
  PROVE  OwnInv'
  <1>1. ASSUME NEW x \in Clients, x # c, cl'[x].pc \in Staging, cl'[x].job.dest \notin shared'
        PROVE  Owner(x)'
    <2>1. cl'[x] = cl[x]
      BY <1>1
    <2>2. Owner(x)
      BY <1>1, <2>1 DEF OwnInv
    <2>3. cl[c].job.dest # cl[x].job.dest
      BY <1>1, <2>2 DEF Owner
    <2>4. Same(Part(cl[x].job.dest))
      BY <2>3
    <2>5. cl'[c].pc \in Staging => cl'[c].job.dest # cl[x].job.dest
      BY <2>3
    <2> QED BY <1>1, <2>2, <2>4, <2>5, OwnerKept
  <1> QED BY <1>1 DEF OwnInv

LEMMA PullWriteOwn ==
  ASSUME ShapeInv, TodoInv, HandleInv, HandleInv', OwnInv, NEW c \in Clients, PullWrite(c)
  PROVE  OwnKept
  <1>0. PICK d : d = cl[c].job.dest
    OBVIOUS
  <1>1. /\ cl[c].pc = "staged" /\ Goto(c, "verify") /\ Write(c, cl[c].layer)
        /\ shared' = shared /\ delivered' = delivered
    BY DEF PullWrite, At, ghosts
  <1>2. /\ cl'[c].pc = "verify" /\ cl'[c].job = cl[c].job
        /\ \A y \in Clients : y # c => cl'[y] = cl[y]
    BY <1>1, GotoFacts
  <1>3. cl'[c].layer = cl[c].layer
    <2>1. cl[c].pc \in Pulling /\ cl[c].pc # "idle"
      BY <1>1 DEF Pulling
    <2>2. cl'[c] = [pc |-> "verify", job |-> cl[c].job, man |-> cl[c].man,
                    cfg |-> cl[c].cfg, layer |-> cl[c].layer]
      BY <1>1, <2>1, GotoFacts
    <2> QED BY <2>2
  <1>4. /\ DOMAIN fs' = DOMAIN fs
        /\ \A p \in DOMAIN fs : fs'[p] = fs[p] \/ c \in fs[p].open
    BY <1>1, WriteFacts DEF ShapeInv
  <1>5. \A p \in DOMAIN fs : c \in fs[p].open => p \in {Part(d), Dest(d)}
    BY <1>0, <1>1 DEF HandleInv, Holds
  <1>6. \A p : p \notin {Part(d), Dest(d)} => Same(p)
    BY <1>4, <1>5 DEF Same
  <1>7. \A e : e # d => Same(Part(e))
    BY <1>6, Names
  <1>8. ASSUME d \notin shared' PROVE Owner(c)'
    <2>1. Owner(c)
      BY <1>0, <1>1, <1>8 DEF OwnInv, Staging
    <2>2. Part(d) \in DOMAIN fs /\ fs[Part(d)] = File(Torn, {c})
      BY <1>0, <1>1, <2>1 DEF Owner
    <2>3. fs[Part(d)].open = {c} /\ fs[Part(d)].c = Torn
      BY <2>2, FileParts
    <2>4. Handled(c) = {Part(d)}
      BY <2>2, <2>3 DEF Handled, HandleInv, Single
    <2>5. PICK new \in Written(fs[Part(d)].c, cl[c].layer) :
            fs' = [fs EXCEPT ![Part(d)] = File(new, fs[Part(d)].open \ {c})]
      BY <1>1, <2>4 DEF Write
    <2>6. new = cl[c].layer /\ fs[Part(d)].open \ {c} = {}
      BY <2>3, <2>5 DEF Written
    <2>7. fs'[Part(d)] = File(cl[c].layer, {})
      BY <2>2, <2>5, <2>6 DEF ShapeInv, FileStore
    <2>8. \A x \in Clients \ {c} : cl'[x].pc \in Staging => cl'[x].job.dest # d
      BY <1>0, <1>2, <2>1 DEF Owner
    <2>9. cl'[c].job.dest = d
      BY <1>0, <1>2
    <2> QED BY <1>2, <1>3, <1>4, <2>2, <2>7, <2>8, <2>9 DEF Owner, Part
  <1>9. OwnInv'
    BY <1>0, <1>1, <1>2, <1>7, <1>8, OthersKept DEF Staging
  <1>10. ASSUME DeliverInv PROVE DeliverSame
    <2>1. ASSUME NEW e \in DOMAIN delivered \ shared PROVE Same(Dest(e))
      BY <1>4, <1>10 DEF DeliverInv, Delivery, Same
    <2> QED BY <2>1 DEF DeliverSame
  <1>11. ASSUME DeliverInv PROVE DeliverInv'
    BY <1>1, <1>10, <1>11, DeliverKept
  <1> QED BY <1>9, <1>11 DEF OwnKept

LEMMA PullVerifyOwn ==
  ASSUME ShapeInv, OwnInv, NEW c \in Clients, PullVerify(c)
  PROVE  OwnKept
  <1>0. PICK d : d = cl[c].job.dest
    OBVIOUS
  <1>1. cl[c].pc = "verify" /\ cl[c].pc \in Staging /\ shared' = shared /\ delivered' = delivered
    BY DEF PullVerify, At, ghosts, Staging
  <1>2. CASE Exists(Part(d)) /\ PullAccepts(fs[Part(d)].c, cl[c].job, cl[c].cfg)
    <2>1. Goto(c, "rename") /\ fs' = fs
      BY <1>0, <1>2 DEF PullVerify
    <2>2. cl[c].pc \in Pulling /\ cl[c].pc # "idle"
      BY <1>1 DEF Pulling
    <2>3. /\ \A y \in Clients : y # c => cl'[y] = cl[y]
          /\ cl'[c] = [pc |-> "rename", job |-> cl[c].job, man |-> cl[c].man,
                       cfg |-> cl[c].cfg, layer |-> cl[c].layer]
      BY <2>1, <2>2, GotoFacts
    <2>4. /\ cl'[c].pc = "rename" /\ cl'[c].job = cl[c].job
          /\ cl'[c].cfg = cl[c].cfg /\ cl'[c].layer = cl[c].layer
      BY <2>3
    <2>5. \A p : Same(p)
      BY <2>1 DEF Same
    <2>6. ASSUME d \notin shared' PROVE Owner(c)'
      <3>1. Owner(c)
        BY <1>0, <1>1, <2>6 DEF OwnInv
      <3>2. Part(d) \in DOMAIN fs /\ fs[Part(d)] = File(cl[c].layer, {})
        BY <1>0, <1>1, <3>1 DEF Owner
      <3>3. PullAccepts(cl[c].layer, cl[c].job, cl[c].cfg)
        BY <1>2, <3>2, FileParts
      <3>4. \A x \in Clients \ {c} : cl'[x].pc \in Staging => cl'[x].job.dest # d
        BY <1>0, <2>3, <3>1 DEF Owner
      <3>5. PullAccepts(cl'[c].layer, cl'[c].job, cl'[c].cfg)
        BY <2>4, <3>3
      <3>6. Part(d) \in DOMAIN fs' /\ fs'[Part(d)] = File(cl'[c].layer, {})
        BY <2>1, <2>4, <3>2
      <3>7. cl'[c].job.dest = d
        BY <1>0, <2>4
      <3> HIDE DEF PullAccepts
      <3> QED BY <2>4, <3>4, <3>5, <3>6, <3>7 DEF Owner, Part
    <2>7. OwnInv'
      BY <1>0, <1>1, <2>3, <2>4, <2>5, <2>6, OthersKept
    <2>8. ASSUME DeliverInv PROVE DeliverInv'
      BY <1>1, <2>5, <2>8, DeliverKept DEF DeliverSame
    <2> QED BY <2>7, <2>8 DEF OwnKept
  <1>3. CASE ~(Exists(Part(d)) /\ PullAccepts(fs[Part(d)].c, cl[c].job, cl[c].cfg))
    <2>1. Fail(c) /\ fs' = Without(fs, {Part(d)})
      BY <1>0, <1>3 DEF PullVerify
    <2>2. cl'[c] = Idle /\ \A y \in Clients : y # c => cl'[y] = cl[y]
      BY <2>1, FailFacts
    <2>3. cl'[c].pc \notin Staging
      BY <2>2 DEF Idle, Staging
    <2>4. \A p : p # Part(d) => Same(p)
      BY <2>1 DEF Same, Without
    <2>5. \A e : e # d => Same(Part(e))
      BY <2>4, Names
    <2>6. OwnInv'
      BY <1>0, <1>1, <2>2, <2>3, <2>5, OthersKept
    <2>7. DeliverSame
      BY <2>4, Names DEF DeliverSame
    <2>8. ASSUME DeliverInv PROVE DeliverInv'
      BY <1>1, <2>7, <2>8, DeliverKept
    <2> QED BY <2>6, <2>8 DEF OwnKept
  <1> QED BY <1>2, <1>3

LEMMA PullRenameOwn ==
  ASSUME ShapeInv, OwnInv, NEW c \in Clients, PullRename(c)
  PROVE  OwnKept
  <1>0. PICK d : d = cl[c].job.dest
    OBVIOUS
  <1> DEFINE del == [job |-> cl[c].job, man |-> cl[c].man, cfg |-> cl[c].cfg]
  <1>1. cl[c].pc = "rename" /\ cl[c].pc \in Staging /\ shared' = shared /\ Fail(c)
    BY DEF PullRename, At, Staging
  <1>2. cl'[c] = Idle /\ \A y \in Clients : y # c => cl'[y] = cl[y]
    BY <1>1, FailFacts
  <1>3. cl'[c].pc \notin Staging
    BY <1>2 DEF Idle, Staging
  <1>4. CASE ~Exists(Part(d))
    <2>1. fs' = fs /\ delivered' = delivered
      BY <1>0, <1>4 DEF PullRename
    <2>2. \A p : Same(p)
      BY <2>1 DEF Same
    <2>3. OwnInv'
      BY <1>0, <1>1, <1>2, <1>3, <2>2, OthersKept
    <2>4. ASSUME DeliverInv PROVE DeliverInv'
      BY <1>1, <2>1, <2>2, <2>4, DeliverKept DEF DeliverSame
    <2> QED BY <2>3, <2>4 DEF OwnKept
  <1>5. CASE Exists(Part(d))
    <2>1. Rename(Part(d), Dest(d)) /\ delivered' = With(delivered, d, del)
      BY <1>0, <1>5 DEF PullRename
    <2>2. Part(d) \in DOMAIN fs /\ Part(d) # Dest(d)
      BY <1>5, Names DEF Exists
    <2>3. /\ Dest(d) \in DOMAIN fs' /\ fs'[Dest(d)] = fs[Part(d)]
          /\ \A p : p \notin {Part(d), Dest(d)} => Same(p)
      BY <2>1, <2>2 DEF Rename, With, Without, Same
    <2>4. \A e : e # d => Same(Part(e)) /\ Same(Dest(e))
      BY <2>3, Names
    <2>5. OwnInv'
      BY <1>0, <1>1, <1>2, <1>3, <2>4, OthersKept
    <2>6. /\ DOMAIN delivered' = DOMAIN delivered \cup {d} /\ delivered'[d] = del
          /\ \A e \in DOMAIN delivered : e # d => delivered'[e] = delivered[e]
      BY <2>1 DEF With
    <2>7. ASSUME FetchInv, d \notin shared PROVE Delivery(fs'[Dest(d)], delivered'[d])
      <3>1. Owner(c)
        BY <1>0, <1>1, <2>7 DEF OwnInv
      <3>2. fs[Part(d)] = File(cl[c].layer, {}) /\ PullAccepts(cl[c].layer, cl[c].job, cl[c].cfg)
        BY <1>0, <1>1, <3>1 DEF Owner
      <3>3. fs'[Dest(d)].c = cl[c].layer /\ fs'[Dest(d)].open = {}
        BY <2>3, <3>2, FileParts
      <3>4. Prov(cl[c].man, cl[c].job) /\ VerifyDigest(cl[c].layer, cl[c].man[2].layers[1])
        BY <1>1, <2>7 DEF FetchInv, Pulling, Staging
      <3>5. del.job = cl[c].job /\ del.man = cl[c].man /\ del.cfg = cl[c].cfg
        OBVIOUS
      <3> HIDE DEF del
      <3> QED BY <2>6, <3>2, <3>3, <3>4, <3>5 DEF Delivery
    <2>8. ASSUME DeliverInv, FetchInv, NEW e \in DOMAIN delivered' \ shared'
          PROVE  Dest(e) \in DOMAIN fs' /\ Delivery(fs'[Dest(e)], delivered'[e])
      <3>1. CASE e = d
        BY <1>1, <2>3, <2>7, <2>8, <3>1
      <3>2. CASE e # d
        BY <1>1, <2>4, <2>6, <2>8, <3>2 DEF DeliverInv, Same
      <3> QED BY <3>1, <3>2
    <2>9. DeliverInv /\ FetchInv => DeliverInv'
      BY <2>8 DEF DeliverInv, Dest
    <2> QED BY <2>5, <2>9 DEF OwnKept
  <1> QED BY <1>4, <1>5

LEMMA CrashOwn ==
  ASSUME ShapeInv, OwnInv, NEW c \in Clients, Crash(c)
  PROVE  OwnKept
  <1>1. Fail(c) /\ fs' = [p \in DOMAIN fs |-> File(fs[p].c, fs[p].open \ {c})]
        /\ shared' = shared /\ delivered' = delivered
    BY DEF Crash, ghosts
  <1>2. cl'[c] = Idle /\ \A y \in Clients : y # c => cl'[y] = cl[y]
    BY <1>1, FailFacts
  <1>3. cl'[c].pc \notin Staging
    BY <1>2 DEF Idle, Staging
  <1>4. DOMAIN fs' = DOMAIN fs /\ \A p \in DOMAIN fs : fs'[p] = File(fs[p].c, fs[p].open \ {c})
    BY <1>1
  <1>5. ASSUME NEW p \in DOMAIN fs, c \notin fs[p].open PROVE Same(p)
    <2>1. fs[p] = File(fs[p].c, fs[p].open) /\ fs[p].open \ {c} = fs[p].open
      BY <1>5 DEF ShapeInv, FileStore
    <2> QED BY <1>4, <2>1 DEF Same
  <1>6. ASSUME NEW x \in Clients, x # c, cl'[x].pc \in Staging, cl'[x].job.dest \notin shared'
        PROVE  Owner(x)'
    <2>1. cl'[x] = cl[x] /\ Owner(x)
      BY <1>1, <1>2, <1>6 DEF OwnInv
    <2>2. PICK p : p = Part(cl[x].job.dest)
      OBVIOUS
    <2>3. p \in DOMAIN fs /\ c \notin fs[p].open
      BY <1>6, <2>1, <2>2, FileParts DEF Owner
    <2>4. Same(p)
      BY <1>5, <2>3
    <2> QED BY <1>2, <1>3, <1>6, <2>1, <2>2, <2>4, OwnerKept
  <1>7. OwnInv'
    BY <1>2, <1>3, <1>6 DEF OwnInv
  <1>8. ASSUME DeliverInv PROVE DeliverSame
    BY <1>5, <1>8 DEF DeliverInv, Delivery, DeliverSame
  <1>9. ASSUME DeliverInv PROVE DeliverInv'
    BY <1>1, <1>8, <1>9, DeliverKept
  <1> QED BY <1>7, <1>9 DEF OwnKept

LEMMA OwnStep ==
  ASSUME ShapeInv, TodoInv, HandleInv, OwnInv, Next PROVE OwnKept
  <1>h. HandleInv'
    BY HandleStep
  <1>1. ASSUME NEW c \in Clients, PushStep(c) \/ PullStep(c), cl[c].pc \notin {"stage"} \cup Staging
        PROVE  OwnKept
    <2>1. LocalSame /\ cl'[c].pc \notin Staging /\ shared' = shared /\ delivered' = delivered
      BY <1>1, QuietFiles, QuietStays
    <2>2. \A y \in Clients : y # c => cl'[y] = cl[y]
      BY <1>1, OneMoves
    <2>3. \A d : Same(Part(d)) /\ Same(Dest(d))
      BY <2>1, Names DEF LocalSame
    <2>4. ASSUME NEW x \in Clients, cl'[x].pc \in Staging, cl'[x].job.dest \notin shared'
          PROVE  Owner(x)'
      <3>1. x # c /\ cl'[x] = cl[x]
        BY <2>1, <2>2, <2>4
      <3>2. Owner(x)
        BY <2>1, <2>4, <3>1 DEF OwnInv
      <3> QED BY <2>1, <2>2, <2>3, <3>1, <3>2, OwnerKept
    <2>5. OwnInv'
      BY <2>4 DEF OwnInv
    <2>6. ASSUME DeliverInv PROVE DeliverInv'
      BY <2>1, <2>3, <2>6, DeliverKept DEF DeliverSame
    <2> QED BY <2>5, <2>6 DEF OwnKept
  <1>2. ASSUME NEW c \in Clients, PushStep(c) \/ PullStep(c), cl[c].pc \in {"stage"} \cup Staging
        PROVE  OwnKept
    <2>1. PullStage(c) \/ PullWrite(c) \/ PullVerify(c) \/ PullRename(c)
      BY <1>2 DEF PushStep, PullStep, Push, PutCheck, PutOpen, PutWrite, PutReplace, PutLoad,
         HeadBlob, PostBlob, PutManifest, Fetch, ResolveManifest, ResolveConfig, PullLayer,
         At, Working, Staging
    <2> QED BY <1>h, <2>1, PullStageOwn, PullWriteOwn, PullVerifyOwn, PullRenameOwn
  <1>3. ASSUME NEW p \in DOMAIN fs, Rot(p) PROVE OwnKept
    <2>1. /\ p[1] \in {"blob", "tag"} /\ cl' = cl /\ shared' = shared /\ delivered' = delivered
          /\ DOMAIN fs' = DOMAIN fs /\ \A q \in DOMAIN fs : q # p => fs'[q] = fs[q]
      BY <1>3 DEF Rot, ghosts, ShapeInv, FileStore
    <2>2. \A d : Same(Part(d)) /\ Same(Dest(d))
      BY <2>1, Names DEF Same
    <2>3. ASSUME NEW x \in Clients, Owner(x) PROVE Owner(x)'
      BY <2>1, <2>2, <2>3 DEF Owner, Same, Part
    <2>4. OwnInv'
      BY <2>1, <2>3 DEF OwnInv
    <2>5. ASSUME DeliverInv PROVE DeliverInv'
      BY <2>1, <2>2, <2>5, DeliverKept DEF DeliverSame
    <2> QED BY <2>4, <2>5 DEF OwnKept
  <1> QED BY <1>1, <1>2, <1>3, CrashOwn DEF Next

-----------------------------------------------------------------------------
(* Labels.                                                                 *)

LEMMA NotIndex ==
  ASSUME NEW job
  PROVE  /\ Labelled(Torn) /\ Labelled(MarkerBytes) /\ Labelled(ConfigOf(job))
         /\ Labelled(EthBytes(job.reread)) /\ Labelled(ManifestOf(job))
  BY DEF Labelled, Torn, MarkerBytes, ConfigOf, ConfigDocument, EthBytes, ManifestOf,
     ManifestDocument

\* A file of a push is the index only when it is an index that was computed.
LEMMA NoIndexFile ==
  ASSUME NEW job, NEW new
  PROVE  /\ ConfigFile(job) # MarkerFile /\ LayerFile(job) # MarkerFile
         /\ ManifestFile(job) # IndexFile(new) /\ MarkerFile # IndexFile(new)
  <1>1. /\ ConfigFile(job).path[1] = "blob" /\ LayerFile(job).path[1] = "blob"
        /\ ManifestFile(job).path[1] = "blob" /\ MarkerFile.path[1] = "oci-layout"
        /\ IndexFile(new).path[1] = "index.json"
    BY DEF PutFile, ConfigFile, LayerFile, ManifestFile, BlobFile, MarkerFile, IndexFile,
       Marker, Index
  <1> QED BY <1>1

LEMMA IndexFileB ==
  ASSUME NEW new, NEW n, IndexFile(new) = IndexFile(n) PROVE IndexBytes(new) = IndexBytes(n)
  BY DEF PutFile, IndexFile

\* What a push puts next is labelled, and so is what is left after it.
LEMMA LabelPlan ==
  ASSUME NEW pc, NEW job, NEW todo, NEW s, LayoutPlan(pc, job, todo, s), TodoLabelled(todo),
         pc # "load"
  PROVE  Labelled(Head(todo).b) /\ TodoLabelled(Tail(todo))
  <1> DEFINE Goal == Labelled(Head(todo).b) /\ TodoLabelled(Tail(todo))
  <1>0. /\ ConfigFile(job).b = ConfigOf(job) /\ LayerFile(job).b = EthBytes(job.reread)
        /\ ManifestFile(job).b = ManifestOf(job) /\ MarkerFile.b = MarkerBytes
        /\ \A new : IndexFile(new).b = IndexBytes(new)
    BY DEF PutFile, ConfigFile, LayerFile, ManifestFile, BlobFile, MarkerFile, IndexFile
  <1>1. CASE todo = <<ConfigFile(job), LayerFile(job), ManifestFile(job)>>
    <2>1. Head(todo) = ConfigFile(job) /\ Tail(todo) = <<LayerFile(job), ManifestFile(job)>>
      BY <1>1, Todo3
    <2>2. \A new : /\ Tail(todo) # <<MarkerFile, IndexFile(new)>>
                   /\ Tail(todo) # <<IndexFile(new)>>
      BY <2>1, NoIndexFile
    <2> QED BY <1>0, <2>1, <2>2, NotIndex DEF TodoLabelled
  <1>2. CASE todo = <<LayerFile(job), ManifestFile(job)>>
    <2>1. Head(todo) = LayerFile(job) /\ Tail(todo) = <<ManifestFile(job)>>
      BY <1>2, Todo2
    <2>2. \A new : /\ Tail(todo) # <<MarkerFile, IndexFile(new)>>
                   /\ Tail(todo) # <<IndexFile(new)>>
      BY <2>1, NoIndexFile
    <2> QED BY <1>0, <2>1, <2>2, NotIndex DEF TodoLabelled
  <1>3. CASE todo = <<ManifestFile(job)>>
    <2>1. Head(todo) = ManifestFile(job) /\ Tail(todo) = <<>>
      BY <1>3, Todo1
    <2>2. \A new : /\ Tail(todo) # <<MarkerFile, IndexFile(new)>>
                   /\ Tail(todo) # <<IndexFile(new)>>
      BY <2>1
    <2> QED BY <1>0, <2>1, <2>2, NotIndex DEF TodoLabelled
  <1>4. ASSUME NEW new, todo = <<MarkerFile, IndexFile(new)>> PROVE Goal
    <2>1. Head(todo) = MarkerFile /\ Tail(todo) = <<IndexFile(new)>>
      BY <1>4, Todo2
    <2>2. Labelled(IndexBytes(new))
      BY <1>4 DEF TodoLabelled
    <2>3. ASSUME NEW n, Tail(todo) \in {<<MarkerFile, IndexFile(n)>>, <<IndexFile(n)>>}
          PROVE  Labelled(IndexBytes(n))
      <3>1. IndexFile(n) = IndexFile(new)
        BY <2>1, <2>3
      <3> QED BY <2>2, <3>1, IndexFileB
    <2> QED BY <1>0, <2>1, <2>3, NotIndex DEF TodoLabelled
  <1>5. ASSUME NEW new, todo = <<IndexFile(new)>> PROVE Goal
    <2>1. Head(todo) = IndexFile(new) /\ Tail(todo) = <<>>
      BY <1>5, Todo1
    <2>2. Labelled(IndexBytes(new))
      BY <1>5 DEF TodoLabelled
    <2>3. \A n : /\ Tail(todo) # <<MarkerFile, IndexFile(n)>>
                 /\ Tail(todo) # <<IndexFile(n)>>
      BY <2>1
    <2> QED BY <1>0, <2>1, <2>2, <2>3 DEF TodoLabelled
  <1> QED BY <1>1, <1>2, <1>3, <1>4, <1>5 DEF LayoutPlan

LEMMA LabelStep == ASSUME ShapeInv, TodoInv, LabelInv, Next PROVE LabelInv'
  <1> SUFFICES ASSUME kind = "layout" PROVE LabelInv'
    BY BlobsStay DEF LabelInv
  <1>0. /\ \A p \in DOMAIN fs : Labelled(fs[p].c)
        /\ \A c \in Clients : cl[c].pc \in Pulling => Labelled(cl[c].layer)
        /\ \A c \in Clients : cl[c].pc \in Pushing => TodoLabelled(cl[c].todo)
    BY DEF LabelInv
  <1>1. ASSUME NEW c \in Clients, cl[c].pc \in {"check", "open", "write", "replace", "post"}
        PROVE  Labelled(Todo(c).b) /\ TodoLabelled(Tail(cl[c].todo))
    <2>1. cl[c].pc \in Pushing
      BY <1>1 DEF Pushing
    <2>2. PICK s : LayoutPlan(cl[c].pc, cl[c].job, cl[c].todo, s)
      BY <2>1 DEF TodoInv
    <2>3. TodoLabelled(cl[c].todo) /\ cl[c].pc # "load"
      BY <1>0, <1>1, <2>1
    <2> QED BY <2>2, <2>3, LabelPlan DEF Todo
  <1>2. \A b : Origin(b) => Labelled(b)
    <2>1. ASSUME NEW b, NEW c \in Clients, cl[c].pc \in {"write", "post"}, b = Todo(c).b
          PROVE  Labelled(b)
      BY <1>1, <2>1
    <2>2. ASSUME NEW b, NEW c \in Clients, cl[c].pc = "staged", b = cl[c].layer
          PROVE  Labelled(b)
      BY <1>0, <2>2 DEF Pulling
    <2> QED BY <1>0, <2>1, <2>2, NotIndex DEF Origin
  <1>3. \A p \in DOMAIN fs' : Labelled(fs'[p].c)
    BY <1>2, Origins
  <1>4. ASSUME NEW c \in Clients, cl'[c].pc \in Pulling PROVE Labelled(cl'[c].layer)
    BY <1>0, <1>4, Moves, NotIndex DEF PullMove
  <1>5. ASSUME NEW c \in Clients, cl'[c].pc \in Pushing PROVE TodoLabelled(cl'[c].todo)
    <2>1. PushMove(c)
      BY Moves
    <2>2. CASE cl'[c].todo = PushFiles(cl'[c].job)
      <3>1. cl'[c].todo = <<ConfigFile(cl'[c].job), LayerFile(cl'[c].job), ManifestFile(cl'[c].job)>>
        BY <2>2, LayoutFiles
      <3>2. \A new : /\ cl'[c].todo # <<MarkerFile, IndexFile(new)>>
                     /\ cl'[c].todo # <<IndexFile(new)>>
        BY <3>1
      <3> QED BY <3>2 DEF TodoLabelled
    <2>3. CASE cl[c].pc \in Pushing /\ cl'[c].todo = cl[c].todo
      BY <1>0, <2>3
    <2>4. CASE cl[c].pc \in {"check", "replace", "post"} /\ cl'[c].todo = Tail(cl[c].todo)
      BY <1>1, <2>4
    <2>5. ASSUME cl[c].pc = "load", Exists(Marker) => Loadable(fs),
                 NEW old, old = (IF Exists(Marker) THEN Entries ELSE {}),
                 cl'[c].todo = <<MarkerFile, IndexFile(NewEntries(old, Entry(cl[c].job)))>>
          PROVE  TodoLabelled(cl'[c].todo)
      <3> DEFINE new == NewEntries(old, Entry(cl[c].job))
      <3>1. cl[c].job \in Pushes
        BY <2>5, PushShape DEF Pushing
      <3>2. \A e \in old : Honest(e)
        BY <1>0, <2>5 DEF Loadable, Entries, Labelled
      <3>3. \A e \in new : Honest(e)
        BY <3>1, <3>2 DEF NewEntries, Honest
      <3>4. Labelled(IndexBytes(new))
        BY <3>3 DEF Labelled, IndexBytes
      <3> HIDE DEF new
      <3>5. ASSUME NEW n, cl'[c].todo \in {<<MarkerFile, IndexFile(n)>>, <<IndexFile(n)>>}
            PROVE  Labelled(IndexBytes(n))
        <4>1. cl'[c].todo = <<MarkerFile, IndexFile(new)>>
          BY <2>5 DEF new
        <4>2. IndexFile(n) = IndexFile(new)
          BY <3>5, <4>1
        <4> QED BY <3>4, <4>2, IndexFileB
      <3> QED BY <3>5 DEF TodoLabelled
    <2> QED BY <1>5, <2>1, <2>2, <2>3, <2>4, <2>5 DEF PushMove
  <1> QED BY <1>3, <1>4, <1>5 DEF LabelInv

LEMMA TagStep == ASSUME ShapeInv, TodoInv, HandleInv, TagInv, Next PROVE TagInv'
  <1> SUFFICES ASSUME kind = "registry" PROVE TagInv'
    BY BlobsStay DEF TagInv
  <1> DEFINE Kept1 == \A p \in DOMAIN fs' : p[1] = "tag" => p \in DOMAIN fs /\ fs'[p].c = fs[p].c
  <1>0. \A p \in DOMAIN fs : p[1] = "tag" => TagFits(p, fs[p].c)
    BY DEF TagInv
  <1>k. ASSUME Kept1 PROVE TagInv'
    BY <1>0, <1>k DEF TagInv
  <1>u. ASSUME UNCHANGED fs PROVE TagInv'
    BY <1>u, <1>k
  <1>w. ASSUME NEW p, NEW v, fs' = With(fs, p, v), p[1] # "tag" PROVE TagInv'
    BY <1>w, <1>k DEF With
  <1> HIDE DEF Kept1
  <1>1. ASSUME NEW c \in Clients, PushStep(c) PROVE TagInv'
    <2>1. CASE \E j \in Jobs : Push(c, j)
      BY <2>1, <1>u DEF Push
    <2>2. CASE PutCheck(c) \/ PutLoad(c) \/ HeadBlob(c)
      BY <2>2, <1>u DEF PutCheck, PutLoad, HeadBlob
    <2>3. CASE PutOpen(c) \/ PutWrite(c) \/ PutReplace(c)
      BY <2>3, TodoPath DEF PutOpen, PutWrite, PutReplace, At
    <2>4. CASE PostBlob(c)
      <3>1. Todo(c).path[1] \in {"blob", "oci-layout", "index.json"}
        BY <2>4, TodoPath DEF PostBlob, At
      <3> QED BY <2>4, <3>1, <1>w, <1>u DEF PostBlob, Put
    <2>5. CASE PutManifest(c)
      <3>0. cl[c].pc = "put" /\ fs' \in {fs, Tagged(cl[c].job)}
        BY <2>5 DEF PutManifest, At
      <3>1. cl[c].job \in Pushes
        BY <3>0, PushShape DEF Pushing
      <3>2. PICK job : job = cl[c].job
        OBVIOUS
      <3> DEFINE m == ManifestOf(job)
                 t == Tag(job.ref.name, TagOf(job.ref))
      <3>3. CASE fs' = Tagged(job)
        <4>1. Blob(job.ref.name, Sha256(m))[1] = "blob"
          BY DEF Blob
        <4>2. ASSUME NEW p \in DOMAIN fs', p[1] = "tag"
              PROVE  (p = t /\ fs'[p].c = m) \/ (p \in DOMAIN fs /\ fs'[p] = fs[p])
          BY <3>3, <4>1, <4>2 DEF Tagged, Put, With, File
        <4>3. TagFits(t, m)
          BY <3>1, <3>2 DEF TagFits
        <4>4. ASSUME NEW p \in DOMAIN fs', p[1] = "tag" PROVE TagFits(p, fs'[p].c)
          BY <1>0, <4>2, <4>3, <4>4
        <4> QED BY <4>4 DEF TagInv
      <3> QED BY <3>0, <3>2, <3>3, <1>u
    <2> QED BY <1>1, <2>1, <2>2, <2>3, <2>4, <2>5 DEF PushStep
  <1>2. ASSUME NEW c \in Clients, PullStep(c) PROVE TagInv'
    <2>1. CASE \E j \in Jobs : Fetch(c, j)
      BY <2>1, <1>u DEF Fetch
    <2>2. CASE ResolveManifest(c) \/ ResolveConfig(c) \/ PullLayer(c)
      BY <2>2, <1>u DEF ResolveManifest, ResolveConfig, PullLayer
    <2>3. CASE PullStage(c)
      BY <2>3, Names, <1>w DEF PullStage
    <2>4. CASE PullWrite(c)
      <3>1. cl[c].pc = "staged" /\ Write(c, cl[c].layer)
        BY <2>4 DEF PullWrite, At
      <3>2. /\ DOMAIN fs' = DOMAIN fs
            /\ \A p \in DOMAIN fs : fs'[p] = fs[p] \/ c \in fs[p].open
        BY <3>1, WriteFacts DEF ShapeInv
      <3>3. \A p \in DOMAIN fs : c \in fs[p].open => p[1] # "tag"
        BY <3>1, Names DEF HandleInv, Holds
      <3>4. Kept1
        BY <3>2, <3>3 DEF Kept1
      <3> QED BY <3>4, <1>k
    <2>5. CASE PullVerify(c)
      <3>1. UNCHANGED fs \/ fs' = Without(fs, {Part(cl[c].job.dest)})
        BY <2>5 DEF PullVerify
      <3>2. CASE fs' = Without(fs, {Part(cl[c].job.dest)})
        <4>1. Kept1
          BY <3>2 DEF Without, Kept1
        <4> QED BY <4>1, <1>k
      <3> QED BY <3>1, <3>2, <1>u
    <2>6. CASE PullRename(c)
      <3>1. UNCHANGED fs \/ Rename(Part(cl[c].job.dest), Dest(cl[c].job.dest))
        BY <2>6 DEF PullRename
      <3>2. CASE Rename(Part(cl[c].job.dest), Dest(cl[c].job.dest))
        <4>1. Kept1
          BY <3>2, Names DEF Rename, With, Without, Kept1
        <4> QED BY <4>1, <1>k
      <3> QED BY <3>1, <3>2, <1>u
    <2> QED BY <1>2, <2>1, <2>2, <2>3, <2>4, <2>5, <2>6 DEF PullStep
  <1>3. ASSUME NEW c \in Clients, Crash(c) PROVE TagInv'
    <2>1. Kept1
      BY <1>3 DEF Crash, File, Kept1
    <2> QED BY <2>1, <1>k
  <1>4. ASSUME NEW p \in DOMAIN fs, Rot(p) PROVE TagInv'
    <2>1. DOMAIN fs' = DOMAIN fs /\ \A q \in DOMAIN fs : q # p => fs'[q] = fs[q]
      BY <1>4 DEF Rot, ShapeInv, FileStore
    <2>2. fs[p] = File(fs[p].c, fs[p].open) /\ fs'[p] = [fs[p] EXCEPT !.c = Torn]
      BY <1>4 DEF Rot, ShapeInv, FileStore
    <2>3. fs'[p].c = Torn
      BY <2>2 DEF File
    <2>4. TagFits(p, Torn)
      BY DEF TagFits, Torn, ManifestOf, ManifestDocument
    <2> QED BY <1>0, <2>1, <2>3, <2>4 DEF TagInv
  <1> QED BY <1>1, <1>2, <1>3, <1>4 DEF Next

-----------------------------------------------------------------------------
(* What a pull resolves and what it delivers.                              *)

\* Digests are free of collisions.
LEMMA Digests == ASSUME NEW a, NEW b, Sha256(a) = Sha256(b) PROVE a = b
  BY DEF Sha256

\* A tag resolves to a manifest pushed under it, or to no push's.
LEMMA Resolved ==
  ASSUME ShapeInv, LabelInv, TagInv, NEW job \in Jobs, NEW m \in GetManifest(job.ref)
  PROVE  Prov(m, job)
  <1> SUFFICES ASSUME job.ref.digest = NoDigest PROVE Prov(m, job)
    BY DEF Prov
  <1> DEFINE ref == job.ref
  <1>1. CASE kind = "registry"
    <2>1. PICK p \in {Tag(ref.name, TagOf(ref))} \cap DOMAIN fs : m = fs[p].c
      BY <1>1 DEF GetManifest
    <2>2. p[1] = "tag" /\ p = Tag(ref.name, TagOf(ref)) /\ p \in DOMAIN fs
      BY DEF Tag
    <2>3. TagFits(p, m)
      BY <1>1, <2>1, <2>2 DEF TagInv
    <2>4. \A k \in Pushes : p = Tag(k.ref.name, TagOf(k.ref)) => Label(k) = Label(job)
      BY <2>2 DEF Tag, Label
    <2> QED BY <2>3, <2>4 DEF TagFits, Prov
  <1>2. CASE kind = "layout"
    <2>1. /\ Loadable(fs) /\ Matching(ref) # {}
          /\ m \in ReadBlob(ref.name, FirstMatch(ref).desc.digest)
      BY <1>2 DEF GetManifest
    <2>2. \E e \in Matching(ref) : e.owner = None \/ \A x \in Matching(ref) : x.owner # None
      BY <2>1
    <2>3. PICK e : e = FirstMatch(ref)
      OBVIOUS
    <2>4. e \in Matching(ref)
      BY <2>2, <2>3 DEF FirstMatch
    <2>5. e \in Entries /\ e.tag = TagOf(ref) /\ e.owner \in {None, ref.name}
      BY <2>4 DEF Matching
    <2>6. Honest(e)
      BY <1>2, <2>1, <2>5 DEF LabelInv, Loadable, Labelled, Entries
    <2>7. Sha256(m) = e.desc.digest
      BY <2>1, <2>3 DEF ReadBlob
    <2>8. ASSUME NEW k \in Pushes, e = Entry(k) PROVE Label(k) = Label(job) /\ m = ManifestOf(k)
      <3>1. e.tag = TagOf(k.ref) /\ e.owner = k.ref.name /\ e.desc.digest = Sha256(ManifestOf(k))
        BY <2>8 DEF Entry, Desc
      <3>2. k.ref.name # None
        BY DEF Pushes
      <3>3. Label(k) = Label(job)
        BY <2>5, <3>1, <3>2 DEF Label
      <3> QED BY <2>7, <3>1, <3>3, Digests
    <2>9. CASE \E k \in Pushes : e = Entry(k)
      BY <2>8, <2>9 DEF Prov
    <2>10. CASE \A k \in Pushes : e.desc.digest # Sha256(ManifestOf(k))
      BY <2>7, <2>10 DEF Prov
    <2> QED BY <2>6, <2>9, <2>10 DEF Honest
  <1> QED BY <1>1, <1>2 DEF ShapeInv

LEMMA FetchStep == ASSUME ShapeInv, LabelInv, TagInv, FetchInv, Next PROVE FetchInv'
  <1> SUFFICES ASSUME NEW c \in Clients
               PROVE  /\ cl'[c].pc \in Pulling \ {"manifest"} => Prov(cl'[c].man, cl'[c].job)
                      /\ cl'[c].pc \in {"stage"} \cup Staging =>
                           VerifyDigest(cl'[c].layer, cl'[c].man[2].layers[1])
    BY DEF FetchInv
  <1>1. PullMove(c)
    BY Moves
  <1>2. CASE cl'[c].pc \notin Pulling \/ cl'[c].pc = "manifest"
    BY <1>2 DEF Pulling, Staging
  <1>3. CASE cl'[c] = cl[c]
    BY <1>3 DEF FetchInv
  <1>4. CASE /\ cl[c].pc = "manifest" /\ cl'[c].pc = "config" /\ cl'[c].job = cl[c].job
             /\ cl'[c].man \in GetManifest(cl[c].job.ref)
    <2>1. cl[c].job \in Jobs
      BY <1>4, PullShape DEF Pulling
    <2>2. Prov(cl'[c].man, cl[c].job)
      BY <1>4, <2>1, Resolved
    <2> QED BY <1>4, <2>2 DEF Staging
  <1>5. CASE /\ cl[c].pc \in Pulling \ {"manifest"} /\ cl'[c].job = cl[c].job
             /\ cl'[c].man = cl[c].man
             /\ cl'[c].pc \in {"stage"} \cup Staging =>
                  \/ VerifyDigest(cl'[c].layer, cl[c].man[2].layers[1])
                  \/ cl[c].pc \in {"stage"} \cup Staging /\ cl'[c].layer = cl[c].layer
    <2>1. Prov(cl[c].man, cl[c].job)
      BY <1>5 DEF FetchInv
    <2>2. cl[c].pc \in {"stage"} \cup Staging => VerifyDigest(cl[c].layer, cl[c].man[2].layers[1])
      BY DEF FetchInv
    <2> HIDE DEF VerifyDigest
    <2> QED BY <1>5, <2>1, <2>2
  <1>6. CASE /\ cl[c].pc = "config" /\ cl'[c].pc = "layer" /\ cl'[c].job = cl[c].job
             /\ cl'[c].man = cl[c].man
    BY <1>5, <1>6 DEF Pulling, Staging
  <1>7. CASE /\ cl[c].pc = "layer" /\ cl'[c].pc = "stage" /\ cl'[c].job = cl[c].job
             /\ cl'[c].man = cl[c].man
             /\ VerifyDigest(cl'[c].layer, cl[c].man[2].layers[1])
    BY <1>5, <1>7 DEF Pulling
  <1>8. CASE /\ cl'[c].man = cl[c].man /\ cl'[c].layer = cl[c].layer /\ cl'[c].job = cl[c].job
             /\ <<cl[c].pc, cl'[c].pc>> \in
                  {<<"stage", "staged">>, <<"staged", "verify">>, <<"verify", "rename">>}
    <2>1. cl[c].pc \in {"stage", "staged", "verify"}
      BY <1>8
    <2>2. cl[c].pc \in Pulling \ {"manifest"} /\ cl[c].pc \in {"stage"} \cup Staging
      BY <2>1 DEF Pulling, Staging
    <2> QED BY <1>5, <1>8, <2>2
  <1> HIDE DEF VerifyDigest
  <1> QED BY <1>1, <1>2, <1>3, <1>4, <1>6, <1>7, <1>8 DEF PullMove

\* What the store held at the start carries a push's manifest only under that
\* push's repository and tag.
StartsLabelled ==
  \A s \in Scenarios :
    IF s.kind = "layout" THEN \A p \in DOMAIN s.fs : Labelled(s.fs[p].c)
    ELSE \A p \in DOMAIN s.fs : p[1] = "tag" => TagFits(p, s.fs[p].c)

HoldInv == TodoInv /\ HandleInv /\ OwnInv
PullInv == LabelInv /\ TagInv /\ FetchInv /\ DeliverInv

\* Who is putting or staging which file, whatever the store held at the start.
LEMMA HoldAlways == Spec => [](ShapeInv /\ HoldInv)
  <1>1. Init => HoldInv
    <2> SUFFICES ASSUME Init PROVE HoldInv
      OBVIOUS
    <2>1. \A c \in Clients : cl[c].pc = "idle"
      BY DEF Init, Idle
    <2>2. \A p \in DOMAIN fs : fs[p].open = {}
      BY StartClosed
    <2>3. TodoInv
      BY <2>1 DEF TodoInv, Pushing
    <2>4. HandleInv
      BY <2>2 DEF HandleInv, Single
    <2>5. OwnInv
      BY <2>1 DEF OwnInv, Staging
    <2> QED BY <2>3, <2>4, <2>5 DEF HoldInv
  <1>2. ShapeInv /\ HoldInv /\ [Next]_vars => HoldInv'
    <2>1. ASSUME ShapeInv, HoldInv, Next PROVE HoldInv'
      BY <2>1, TodoStep, HandleStep, OwnStep DEF HoldInv, OwnKept
    <2>2. ASSUME HoldInv, UNCHANGED vars PROVE HoldInv'
      <3>1. TodoInv'
        BY <2>2 DEF HoldInv, TodoInv, vars
      <3>2. HandleInv'
        BY <2>2 DEF HoldInv, HandleInv, Holds, Todo, vars
      <3>3. OwnInv'
        BY <2>2 DEF HoldInv, OwnInv, Owner, vars
      <3> QED BY <3>1, <3>2, <3>3 DEF HoldInv
    <2> QED BY <2>1, <2>2
  <1> QED BY <1>1, <1>2, ShapeAlways, PTL DEF Spec

\* A successful pull delivers what it says, for any number of clients that push,
\* pull and die in any order, whatever rots and whatever other tools left in the
\* store: the file passes ethimg.verify under the pull's policy, is the layer its
\* manifest names and the image its config describes, and a pull by tag gets a
\* manifest some push put under that repository and tag.  A pull that meets no
\* other on its destination has the .part file to itself between staging and
\* rename; an index is only ever computed from entries that are labelled truly.
THEOREM DeliveriesAreTrue == ASSUME StartsLabelled PROVE Spec => []DeliveredTruth
  <1>1. Init => PullInv
    <2> SUFFICES ASSUME Init PROVE PullInv
      OBVIOUS
    <2>1. PICK s \in Scenarios : kind = s.kind /\ fs = s.fs
      BY DEF Init
    <2>2. \A c \in Clients : cl[c].pc = "idle"
      BY DEF Init, Idle
    <2>3. LabelInv
      BY <2>1, <2>2 DEF LabelInv, StartsLabelled, Pushing, Pulling
    <2>4. TagInv
      BY <2>1 DEF TagInv, StartsLabelled
    <2>5. FetchInv
      BY <2>2 DEF FetchInv, Pulling, Staging
    <2>6. DOMAIN delivered = {}
      BY DEF Init
    <2>7. DeliverInv
      BY <2>6 DEF DeliverInv
    <2> QED BY <2>3, <2>4, <2>5, <2>7 DEF PullInv
  <1>2. ShapeInv /\ HoldInv /\ PullInv /\ [Next]_vars => PullInv'
    <2>1. ASSUME ShapeInv, HoldInv, PullInv, Next PROVE PullInv'
      BY <2>1, LabelStep, TagStep, FetchStep, OwnStep DEF HoldInv, PullInv, OwnKept
    <2>2. ASSUME PullInv, UNCHANGED vars PROVE PullInv'
      BY <2>2 DEF PullInv, LabelInv, TagInv, FetchInv, DeliverInv, vars
    <2> QED BY <2>1, <2>2
  <1>3. PullInv => DeliveredTruth
    <2> SUFFICES ASSUME PullInv, NEW d \in DOMAIN delivered \ shared
                 PROVE  LET b == fs[Dest(d)].c
                            job == delivered[d].job
                            man == delivered[d].man
                        IN  /\ b[1] = "eth" /\ Verify(Images[b[2]], job.keys, job.allow) = "ok"
                            /\ VerifyDigest(b, man[2].layers[1])
                            /\ CheckConfigMatches(Images[b[2]], delivered[d].cfg)
                            /\ \/ job.ref.digest # NoDigest
                               \/ \A k \in Pushes : man # ManifestOf(k)
                               \/ \E k \in Pushes : /\ Label(k) = Label(job) /\ man = ManifestOf(k)
                                                   /\ b = EthBytes(k.reread)
      BY DEF DeliveredTruth
    <2> DEFINE b == fs[Dest(d)].c
               job == delivered[d].job
               man == delivered[d].man
    <2>1. /\ PullAccepts(b, job, delivered[d].cfg) /\ VerifyDigest(b, man[2].layers[1])
          /\ Prov(man, job)
      BY DEF PullInv, DeliverInv, Delivery
    <2>2. ASSUME NEW k, man = ManifestOf(k) PROVE b = EthBytes(k.reread)
      <3>1. man[2].layers[1].digest = Sha256(EthBytes(k.reread))
        BY <2>2 DEF ManifestOf, ManifestDocument, LayerOf, Desc
      <3> QED BY <2>1, <3>1, Digests DEF VerifyDigest
    <2>3. /\ b[1] = "eth" /\ Verify(Images[b[2]], job.keys, job.allow) = "ok"
          /\ CheckConfigMatches(Images[b[2]], delivered[d].cfg)
      BY <2>1 DEF PullAccepts
    <2>4. \/ job.ref.digest # NoDigest
          \/ \A k \in Pushes : man # ManifestOf(k)
          \/ \E k \in Pushes : /\ Label(k) = Label(job) /\ man = ManifestOf(k)
                              /\ b = EthBytes(k.reread)
      BY <2>1, <2>2 DEF Prov
    <2> QED BY <2>1, <2>3, <2>4
  <1> QED BY <1>1, <1>2, <1>3, HoldAlways, PTL DEF Spec

-----------------------------------------------------------------------------
(* What the store holds.                                                   *)

\* An image is what ethimg.verify would not refuse as corrupt.
Sound(b) == b[1] = "eth" => Integrity(Images[b[2]]) /\ CheckCapabilities(Images[b[2]].members)

SoundInv ==
  /\ \A p \in DOMAIN fs : Sound(fs[p].c)
  /\ \A c \in Clients : cl[c].pc \in Pulling => Sound(cl[c].layer)
  /\ \A c \in Clients : cl[c].pc \in Pushing => Sound(EthBytes(cl[c].job.reread))

\* The index, and the file that will become it, is an index or torn.
IndexLike(b) == b = Torn \/ b[1] = "index"
IndexInv == \A p \in DOMAIN fs : p \in {Index, Temp(Index)} => IndexLike(fs[p].c)

\* A push that met no other on a temporary file has it to itself.
Writing == {"write", "replace"}
TempOwner(c) ==
  LET t == Temp(Todo(c).path)
  IN  /\ \A x \in Clients \ {c} : cl[x].pc \in Writing => Todo(x).path # Todo(c).path
      /\ t \in DOMAIN fs
      /\ cl[c].pc = "write" => fs[t] = File(Torn, {c})
      /\ cl[c].pc # "write" => fs[t] = File(Todo(c).b, {})
TempInv == ~raced => \A c \in Clients : cl[c].pc \in Writing => TempOwner(c)

\* The names under which a torn file may lie.
Exempt(p) == p[1] \in {"tmp", "part"} \/ p \in {Dest(d) : d \in shared}
WholeInv ==
  /\ rot \in {"no", "may", "has"}
  /\ rot # "has" /\ ~raced => \A p \in DOMAIN fs : fs[p].c = Torn => Exempt(p)

\* What the files of a push hold.
LEMMA TodoBytes ==
  ASSUME TodoInv, NEW c \in Clients,
         cl[c].pc \in {"check", "open", "write", "replace", "post"}
  PROVE  /\ Todo(c).b # Torn
         /\ Todo(c).b[1] = "eth" => Todo(c).b = EthBytes(cl[c].job.reread)
         /\ Todo(c).path = Index => Todo(c).b[1] = "index"
  <1>1. cl[c].pc \in Pushing /\ cl[c].pc \notin {"load", "put"}
    BY DEF Pushing
  <1> DEFINE Fits(job, f) == /\ f.b # Torn
                             /\ f.b[1] = "eth" => f.b = EthBytes(job.reread)
                             /\ f.path = Index => f.b[1] = "index"
  <1>2. ASSUME NEW job
        PROVE  /\ Fits(job, ConfigFile(job)) /\ Fits(job, LayerFile(job))
               /\ Fits(job, ManifestFile(job)) /\ Fits(job, MarkerFile)
               /\ Fits(job, RemoteConfig(job)) /\ Fits(job, RemoteLayer(job))
    BY DEF ConfigFile, LayerFile, ManifestFile, BlobFile, MarkerFile, RemoteConfig, RemoteLayer,
       RemoteFile, PutFile, Marker, Index, Torn, MarkerBytes, ConfigOf, ConfigDocument, EthBytes,
       ManifestOf, ManifestDocument
  <1>3. ASSUME NEW job, NEW new PROVE Fits(job, IndexFile(new))
    BY DEF IndexFile, PutFile, Index, Torn, IndexBytes
  <1> HIDE DEF Fits
  <1>4. CASE kind = "layout"
    <2>1. PICK s : LayoutPlan(cl[c].pc, cl[c].job, cl[c].todo, s)
      BY <1>1, <1>4 DEF TodoInv
    <2>2. ASSUME NEW s2, NEW job, NEW pc, NEW todo, LayoutPlan(pc, job, todo, s2), pc # "load"
          PROVE  Fits(job, Head(todo))
      <3>1. CASE todo = <<ConfigFile(job), LayerFile(job), ManifestFile(job)>>
        BY <1>2, <3>1, Todo3
      <3>2. CASE todo = <<LayerFile(job), ManifestFile(job)>>
        BY <1>2, <3>2, Todo2
      <3>3. CASE todo = <<ManifestFile(job)>>
        BY <1>2, <3>3, Todo1
      <3>4. CASE \E new : \/ todo = <<MarkerFile, IndexFile(new)>>
                          \/ todo = <<IndexFile(new)>>
        BY <1>2, <1>3, <3>4, Todo1, Todo2
      <3> QED BY <2>2, <3>1, <3>2, <3>3, <3>4 DEF LayoutPlan
    <2>3. Fits(cl[c].job, Todo(c))
      BY <1>1, <2>1, <2>2 DEF Todo
    <2> QED BY <2>3 DEF Fits
  <1>5. CASE kind # "layout"
    <2>1. PICK s : RegistryPlan(cl[c].pc, cl[c].job, cl[c].todo, s)
      BY <1>1, <1>5 DEF TodoInv
    <2>2. ASSUME NEW s2, NEW job, NEW pc, NEW todo, RegistryPlan(pc, job, todo, s2), pc # "put"
          PROVE  Fits(job, Head(todo))
      <3>1. CASE todo = <<RemoteConfig(job), RemoteLayer(job)>>
        BY <1>2, <3>1, Todo2
      <3>2. CASE todo = <<RemoteLayer(job)>>
        BY <1>2, <3>2, Todo1
      <3> QED BY <2>2, <3>1, <3>2 DEF RegistryPlan
    <2>3. Fits(cl[c].job, Todo(c))
      BY <1>1, <2>1, <2>2 DEF Todo
    <2> QED BY <2>3 DEF Fits
  <1> QED BY <1>4, <1>5

\* The file a push reads again, after it was verified, is an image that verify
\* would not refuse as corrupt either: nobody replaces it by a corrupt one between
\* the two reads.
RereadsSound == \A j \in Pushes : j.reread = j.img \/ Sound(EthBytes(j.reread))

\* What push lets through is sound.
LEMMA PushedSound ==
  ASSUME RereadsSound, NEW j \in Pushes, ~PushRefused(j) PROVE Sound(EthBytes(j.reread))
  <1>1. Verify(Images[j.img], j.keys, TRUE) = "ok"
    BY DEF PushRefused
  <1>2. Integrity(Images[j.img]) /\ CheckCapabilities(Images[j.img].members)
    BY <1>1 DEF Verify
  <1>3. EthBytes(j.img)[2] = j.img
    BY DEF EthBytes
  <1>4. Sound(EthBytes(j.img))
    BY <1>2, <1>3 DEF Sound
  <1> QED BY <1>4 DEF RereadsSound

LEMMA SoundStep ==
  ASSUME RereadsSound, ShapeInv, TodoInv, SoundInv, Next PROVE SoundInv'
  <1>1. Sound(Torn) /\ \A job : Sound(ManifestOf(job))
    BY DEF Sound, Torn, ManifestOf, ManifestDocument
  <1>2. ASSUME NEW b, Origin(b) PROVE Sound(b)
    <2>1. ASSUME NEW c \in Clients, cl[c].pc \in {"write", "post"}, b = Todo(c).b PROVE Sound(b)
      <3>1. b[1] = "eth" => b = EthBytes(cl[c].job.reread)
        BY <2>1, TodoBytes
      <3>2. Sound(EthBytes(cl[c].job.reread))
        BY <2>1 DEF SoundInv, Pushing
      <3>3. CASE b[1] = "eth"
        BY <3>1, <3>2, <3>3
      <3>4. CASE b[1] # "eth"
        BY <3>4 DEF Sound
      <3> QED BY <3>3, <3>4
    <2>2. ASSUME NEW c \in Clients, cl[c].pc = "staged", b = cl[c].layer PROVE Sound(b)
      BY <2>2 DEF SoundInv, Pulling
    <2>3. ASSUME NEW p \in DOMAIN fs, b = fs[p].c PROVE Sound(b)
      BY <2>3 DEF SoundInv
    <2> QED BY <1>1, <1>2, <2>1, <2>2, <2>3 DEF Origin
  <1>3. \A p \in DOMAIN fs' : Sound(fs'[p].c)
    BY <1>2, Origins
  <1>4. ASSUME NEW c \in Clients, cl'[c].pc \in Pulling PROVE Sound(cl'[c].layer)
    BY <1>1, <1>4, Moves DEF PullMove, SoundInv
  <1>5. ASSUME NEW c \in Clients, cl'[c].pc \in Pushing PROVE Sound(EthBytes(cl'[c].job.reread))
    <2>1. PushMove(c)
      BY Moves
    <2>2. CASE cl'[c].job \in Pushes /\ ~PushRefused(cl'[c].job)
      <3>1. PICK j \in Pushes : j = cl'[c].job
        BY <2>2
      <3>2. ~PushRefused(j)
        BY <2>2, <3>1 DEF PushRefused
      <3> QED BY <3>1, <3>2, PushedSound
    <2>3. CASE cl[c].pc \in Pushing /\ cl'[c].job = cl[c].job
      BY <2>3 DEF SoundInv
    <2> QED BY <1>5, <2>1, <2>2, <2>3 DEF PushMove
  <1> QED BY <1>3, <1>4, <1>5 DEF SoundInv

\* The path of a file that is being pushed is never a temporary one.
LEMMA IndexStep == ASSUME ShapeInv, TodoInv, HandleInv, IndexInv, Next PROVE IndexInv'
  <1> SUFFICES ASSUME NEW p \in DOMAIN fs', p \in {Index, Temp(Index)} PROVE IndexLike(fs'[p].c)
    BY DEF IndexInv, Index, Temp
  <1>0. p[1] \in {"index.json", "tmp"}
    BY DEF Index, Temp
  <1>1. Change(p)
    BY Changes
  <1>2. CASE p \in DOMAIN fs /\ fs'[p].c = fs[p].c
    BY <1>2 DEF IndexInv
  <1>3. CASE fs'[p].c = Torn
    BY <1>3 DEF IndexLike
  <1>4. ASSUME NEW c \in Clients, cl[c].pc = "write", p \in Handled(c), fs'[p].c = Todo(c).b
        PROVE  IndexLike(fs'[p].c)
    <2>1. p \in {Temp(Todo(c).path), Todo(c).path}
      BY <1>4 DEF Handled, HandleInv, Holds
    <2>2. Todo(c).path[1] \in {"blob", "oci-layout", "index.json"}
      BY <1>4, TodoPath
    <2>3. Temp(Todo(c).path) # Index /\ Temp(Index) # Todo(c).path
      BY <2>2 DEF Temp, Index
    <2>4. Todo(c).path = Index
      BY <2>1, <2>3, Names
    <2> QED BY <1>4, <2>4, TodoBytes DEF IndexLike
  <1>5. ASSUME NEW c \in Clients, cl[c].pc = "staged", p \in Handled(c)
        PROVE  FALSE
    <2>1. p \in {Part(cl[c].job.dest), Dest(cl[c].job.dest)}
      BY <1>5 DEF Handled, HandleInv, Holds
    <2> QED BY <1>0, <2>1, Names
  <1>6. ASSUME NEW c \in Clients, cl[c].pc = "replace", p = Todo(c).path, Exists(Temp(p)),
               fs'[p].c = fs[Temp(p)].c
        PROVE  IndexLike(fs'[p].c)
    <2>1. Todo(c).path[1] \in {"blob", "oci-layout", "index.json"}
      BY <1>6, TodoPath
    <2>2. p = Index
      BY <1>6, <2>1, Names
    <2> QED BY <1>6, <2>2 DEF IndexInv, Exists
  <1>7. ASSUME NEW c \in Clients, cl[c].pc = "post", p = Todo(c).path, fs'[p].c = Todo(c).b
        PROVE  IndexLike(fs'[p].c)
    <2>1. Todo(c).path[1] \in {"blob", "oci-layout", "index.json"}
      BY <1>7, TodoPath
    <2>2. p = Index
      BY <1>7, <2>1, Names
    <2> QED BY <1>7, <2>2, TodoBytes DEF IndexLike
  <1>8. \A d : p # Dest(d)
    BY <1>0, Names
  <1> QED BY <1>0, <1>1, <1>2, <1>3, <1>4, <1>5, <1>6, <1>7, <1>8 DEF Change

-----------------------------------------------------------------------------
(* Temporary files.                                                        *)

TempSame == \A p : p[1] = "tmp" => Same(p)

\* Who does not put a file does not touch the temporary ones.
LEMMA QuietTemps ==
  ASSUME ShapeInv, TodoInv, HandleInv, NEW c \in Clients, PushStep(c) \/ PullStep(c),
         cl[c].pc \notin {"open"} \cup Writing
  PROVE  TempSame
  <1>u. ASSUME UNCHANGED fs PROVE TempSame
    BY <1>u DEF TempSame, Same
  <1>w. ASSUME NEW p, NEW v, fs' = With(fs, p, v), p[1] # "tmp" PROVE TempSame
    BY <1>w DEF With, TempSame, Same
  <1>1. CASE PushStep(c)
    <2>1. CASE \E j \in Jobs : Push(c, j)
      BY <2>1, <1>u DEF Push
    <2>2. CASE PutCheck(c) \/ PutLoad(c) \/ HeadBlob(c)
      BY <2>2, <1>u DEF PutCheck, PutLoad, HeadBlob
    <2>3. ~(PutOpen(c) \/ PutWrite(c) \/ PutReplace(c))
      BY DEF PutOpen, PutWrite, PutReplace, At, Writing
    <2>4. CASE PostBlob(c)
      <3>1. Todo(c).path[1] \in {"blob", "oci-layout", "index.json"}
        BY <2>4, TodoPath DEF PostBlob, At
      <3>2. Todo(c).path[1] # "tmp"
        BY <3>1
      <3> QED BY <2>4, <3>2, <1>w, <1>u DEF PostBlob, Put
    <2>5. CASE PutManifest(c)
      <3>1. fs' \in {fs, Tagged(cl[c].job)}
        BY <2>5 DEF PutManifest
      <3>2. \A n, t : Tag(n, t)[1] = "tag" /\ Blob(n, t)[1] = "blob"
        BY DEF Tag, Blob
      <3>3. CASE fs' = Tagged(cl[c].job)
        BY <3>2, <3>3 DEF Tagged, Put, With, TempSame, Same
      <3> QED BY <3>1, <3>3, <1>u
    <2> QED BY <1>1, <2>1, <2>2, <2>3, <2>4, <2>5 DEF PushStep
  <1>2. CASE PullStep(c)
    <2>1. CASE \E j \in Jobs : Fetch(c, j)
      BY <2>1, <1>u DEF Fetch
    <2>2. CASE ResolveManifest(c) \/ ResolveConfig(c) \/ PullLayer(c)
      BY <2>2, <1>u DEF ResolveManifest, ResolveConfig, PullLayer
    <2>3. CASE PullStage(c)
      BY <2>3, Names, <1>w DEF PullStage
    <2>4. CASE PullWrite(c)
      <3>1. cl[c].pc = "staged" /\ Write(c, cl[c].layer)
        BY <2>4 DEF PullWrite, At
      <3>2. /\ DOMAIN fs' = DOMAIN fs
            /\ \A p \in DOMAIN fs : fs'[p] = fs[p] \/ c \in fs[p].open
        BY <3>1, WriteFacts DEF ShapeInv
      <3>3. \A p \in DOMAIN fs : c \in fs[p].open => p[1] # "tmp"
        BY <3>1, Names DEF HandleInv, Holds
      <3> QED BY <3>2, <3>3 DEF TempSame, Same
    <2>5. CASE PullVerify(c)
      <3>1. UNCHANGED fs \/ fs' = Without(fs, {Part(cl[c].job.dest)})
        BY <2>5 DEF PullVerify
      <3>2. CASE fs' = Without(fs, {Part(cl[c].job.dest)})
        BY <3>2, Names DEF Without, TempSame, Same
      <3> QED BY <3>1, <3>2, <1>u
    <2>6. CASE PullRename(c)
      <3>1. UNCHANGED fs \/ Rename(Part(cl[c].job.dest), Dest(cl[c].job.dest))
        BY <2>6 DEF PullRename
      <3>2. CASE Rename(Part(cl[c].job.dest), Dest(cl[c].job.dest))
        BY <3>2, Names DEF Rename, With, Without, TempSame, Same
      <3> QED BY <3>1, <3>2, <1>u
    <2> QED BY <1>2, <2>1, <2>2, <2>3, <2>4, <2>5, <2>6 DEF PullStep
  <1> QED BY <1>1, <1>2

LEMMA TempKept ==
  ASSUME NEW c \in Clients, \A y \in Clients : y # c => cl'[y] = cl[y],
         NEW x \in Clients, x # c, TempOwner(x), Same(Temp(Todo(x).path)),
         cl'[c].pc \in Writing => Head(cl'[c].todo).path # Todo(x).path
  PROVE  TempOwner(x)'
  BY DEF TempOwner, Same, Todo, Temp

LEMMA RacedStays == ASSUME Next, ~raced' PROVE ~raced
  <1>1. ASSUME NEW c \in Clients, PushStep(c) PROVE ~raced
    BY <1>1 DEF PushStep, Push, PutCheck, PutOpen, PutWrite, PutReplace, PutLoad, HeadBlob,
       PostBlob, PutManifest, ghosts
  <1>2. ASSUME NEW c \in Clients, PullStep(c) PROVE ~raced
    BY <1>2 DEF PullStep, Fetch, ResolveManifest, ResolveConfig, PullLayer, PullStage, PullWrite,
       PullVerify, PullRename, ghosts
  <1>3. ASSUME NEW c \in Clients, Crash(c) PROVE ~raced
    BY <1>3 DEF Crash, ghosts
  <1>4. ASSUME NEW p \in DOMAIN fs, Rot(p) PROVE ~raced
    BY <1>4 DEF Rot, ghosts
  <1> QED BY <1>1, <1>2, <1>3, <1>4 DEF Next

LEMMA PutOpenTemp ==
  ASSUME ShapeInv, TodoInv, HandleInv, TempInv, ~raced, ~raced', NEW c \in Clients, PutOpen(c)
  PROVE  TempInv'
  <1>0. PICK P : P = Todo(c).path
    OBVIOUS
  <1> DEFINE t == Temp(P)
             others == IF Exists(t) THEN fs[t].open ELSE {}
  <1>1. /\ cl[c].pc = "open" /\ Goto(c, "write")
        /\ fs' = With(fs, t, File(Torn, others \cup {c}))
        /\ ~OthersOn(c, P)
    BY <1>0 DEF PutOpen, At
  <1>2. cl[c].pc \in Pushing /\ cl[c].pc # "idle"
    BY <1>1 DEF Pushing
  <1>3. /\ \A y \in Clients : y # c => cl'[y] = cl[y]
        /\ cl'[c] = [pc |-> "write", job |-> cl[c].job, todo |-> cl[c].todo]
    BY <1>1, <1>2, GotoFacts
  <1>4. cl'[c].pc = "write" /\ cl'[c].todo = cl[c].todo /\ Head(cl'[c].todo).path = P
    BY <1>0, <1>3 DEF Todo
  <1>5. \A p : p # t => Same(p)
    BY <1>1 DEF With, Same
  <1>6. fs'[t] = File(Torn, others \cup {c}) /\ t \in DOMAIN fs'
    BY <1>1 DEF With
  <1>7. \A x \in Clients \ {c} : cl[x].pc \in Writing => Todo(x).path # P
    BY <1>1 DEF OthersOn, Writing
  <1>8. ASSUME NEW x \in Clients, x # c, cl'[x].pc \in Writing PROVE TempOwner(x)'
    <2>1. cl'[x] = cl[x]
      BY <1>3, <1>8
    <2>2. Todo(x).path # P /\ TempOwner(x)
      BY <1>7, <1>8, <2>1 DEF TempInv
    <2>3. Same(Temp(Todo(x).path))
      BY <1>5, <2>2, Names
    <2> QED BY <1>3, <1>4, <1>8, <2>2, <2>3, TempKept
  <1>9. TempOwner(c)'
    <2>1. ASSUME NEW x \in others PROVE FALSE
      <3>1. t \in DOMAIN fs /\ x \in fs[t].open
        BY <2>1 DEF Exists
      <3>2. Holds(x, t)
        BY <3>1 DEF HandleInv
      <3>3. x \in Clients /\ x # c
        BY <1>1, <3>2 DEF Holds
      <3>4. cl[x].pc # "staged"
        BY <3>2, Names DEF Holds
      <3>5. cl[x].pc = "write" /\ t \in {Temp(Todo(x).path), Todo(x).path}
        BY <3>2, <3>4 DEF Holds
      <3>6. Todo(x).path[1] \in {"blob", "oci-layout", "index.json"}
        BY <3>3, <3>5, TodoPath
      <3>7. Todo(x).path = P
        BY <3>5, <3>6, Names
      <3> QED BY <1>7, <3>3, <3>5, <3>7 DEF Writing
    <2>2. others \cup {c} = {c}
      BY <2>1
    <2>3. fs'[t] = File(Torn, {c})
      BY <1>6, <2>2
    <2>4. \A x \in Clients \ {c} : cl'[x].pc \in Writing => Head(cl'[x].todo).path # P
      BY <1>3, <1>7 DEF Todo
    <2> QED BY <1>4, <1>6, <2>3, <2>4 DEF TempOwner, Todo, Temp
  <1> QED BY <1>8, <1>9 DEF TempInv

\* What a client that puts a file does to the other clients' temporary files.
LEMMA OtherTemps ==
  ASSUME TempInv, ~raced, NEW c \in Clients, \A y \in Clients : y # c => cl'[y] = cl[y],
         cl[c].pc \in Writing, cl'[c].pc \in Writing => cl'[c].todo = cl[c].todo,
         \A q : q # Todo(c).path => Same(Temp(q)),
         cl'[c].pc \in Writing => TempOwner(c)'
  PROVE  TempInv'
  <1>1. ASSUME NEW x \in Clients, x # c, cl'[x].pc \in Writing PROVE TempOwner(x)'
    <2>1. cl'[x] = cl[x]
      BY <1>1
    <2>2. TempOwner(x)
      BY <1>1, <2>1 DEF TempInv
    <2>3. Todo(c).path # Todo(x).path
      BY <1>1, <2>2 DEF TempOwner
    <2>4. Same(Temp(Todo(x).path))
      BY <2>3
    <2>5. cl'[c].pc \in Writing => Head(cl'[c].todo).path # Todo(x).path
      BY <2>3 DEF Todo
    <2> QED BY <1>1, <2>2, <2>4, <2>5, TempKept
  <1> QED BY <1>1 DEF TempInv

LEMMA PutWriteTemp ==
  ASSUME ShapeInv, TodoInv, HandleInv, TempInv, ~raced, NEW c \in Clients, PutWrite(c)
  PROVE  TempInv'
  <1>0. PICK P, b : P = Todo(c).path /\ b = Todo(c).b
    OBVIOUS
  <1>1. cl[c].pc = "write" /\ Goto(c, "replace") /\ Write(c, b)
    BY <1>0 DEF PutWrite, At
  <1>2. cl[c].pc \in Pushing /\ cl[c].pc # "idle"
    BY <1>1 DEF Pushing
  <1>3. /\ \A y \in Clients : y # c => cl'[y] = cl[y]
        /\ cl'[c] = [pc |-> "replace", job |-> cl[c].job, todo |-> cl[c].todo]
    BY <1>1, <1>2, GotoFacts
  <1>4. cl'[c].pc = "replace" /\ cl'[c].todo = cl[c].todo
    BY <1>3
  <1>5. /\ DOMAIN fs' = DOMAIN fs
        /\ \A p \in DOMAIN fs : fs'[p] = fs[p] \/ c \in fs[p].open
    BY <1>1, WriteFacts DEF ShapeInv
  <1>6. TempOwner(c)
    BY <1>1 DEF TempInv, Writing
  <1>7. Temp(P) \in DOMAIN fs /\ fs[Temp(P)] = File(Torn, {c})
    BY <1>0, <1>1, <1>6 DEF TempOwner
  <1>8. fs[Temp(P)].open = {c} /\ fs[Temp(P)].c = Torn
    BY <1>7, FileParts
  <1>9. Handled(c) = {Temp(P)}
    BY <1>7, <1>8 DEF Handled, HandleInv, Single
  <1>10. \A q : q # P => Same(Temp(q))
    BY <1>5, <1>9, Names DEF Handled, Same
  <1>11. PICK new \in Written(fs[Temp(P)].c, b) :
           fs' = [fs EXCEPT ![Temp(P)] = File(new, fs[Temp(P)].open \ {c})]
    BY <1>1, <1>9 DEF Write
  <1>12. new = b /\ fs[Temp(P)].open \ {c} = {}
    BY <1>8, <1>11 DEF Written
  <1>13. fs'[Temp(P)] = File(b, {})
    BY <1>7, <1>11, <1>12 DEF ShapeInv, FileStore
  <1>14. \A x \in Clients \ {c} : cl'[x].pc \in Writing => Head(cl'[x].todo).path # P
    BY <1>0, <1>3, <1>6 DEF TempOwner, Todo
  <1>15. Head(cl'[c].todo).path = P /\ Head(cl'[c].todo).b = b
    BY <1>0, <1>4 DEF Todo
  <1>16. TempOwner(c)'
    BY <1>4, <1>5, <1>7, <1>13, <1>14, <1>15 DEF TempOwner, Todo, Temp
  <1>17. cl[c].pc \in Writing
    BY <1>1 DEF Writing
  <1> QED BY <1>0, <1>3, <1>4, <1>10, <1>16, <1>17, OtherTemps

LEMMA PutReplaceTemp ==
  ASSUME ShapeInv, TodoInv, TempInv, ~raced, NEW c \in Clients, PutReplace(c)
  PROVE  TempInv'
  <1>0. PICK P : P = Todo(c).path
    OBVIOUS
  <1>1. cl[c].pc = "replace" /\ cl[c].pc \in Writing
    BY DEF PutReplace, At, Writing
  <1>2. P[1] \in {"blob", "oci-layout", "index.json"}
    BY <1>0, <1>1, TodoPath
  <1>3. \A y \in Clients : y # c => cl'[y] = cl[y]
    BY OneMoves DEF PushStep
  <1>4. Fail(c) \/ Published(c) \/ Advance(c)
    BY DEF PutReplace
  <1>5. cl'[c].pc \notin Writing
    <2>1. CASE Fail(c) \/ Published(c)
      <3>1. cl'[c] = Idle
        BY <2>1 DEF Fail, Published, ShapeInv
      <3> QED BY <3>1 DEF Idle, Writing
    <2>2. CASE Advance(c)
      <3>1. PICK rest : rest = Tail(cl[c].todo)
        OBVIOUS
      <3>2. cl[c].pc \in Pushing
        BY <1>1 DEF Pushing
      <3>3. cl'[c] = [pc |-> IF rest = <<>> /\ kind = "registry" THEN "put" ELSE NextFile(rest),
                      job |-> cl[c].job, todo |-> rest]
        BY <2>2, <3>1, <3>2, AdvanceFacts
      <3>4. cl'[c].pc = IF rest = <<>> /\ kind = "registry" THEN "put" ELSE NextFile(rest)
        BY <3>3
      <3> QED BY <3>4 DEF NextFile, Writing
    <2> QED BY <1>4, <2>1, <2>2
  <1>6. UNCHANGED fs \/ Rename(Temp(P), P)
    BY <1>0 DEF PutReplace
  <1>7. \A q : q # P => Same(Temp(q))
    <2>1. CASE UNCHANGED fs
      BY <2>1 DEF Same
    <2>2. CASE Rename(Temp(P), P)
      <3>1. \A p : p # P /\ p # Temp(P) => Same(p)
        BY <2>2 DEF Rename, With, Without, Same
      <3> QED BY <1>2, <3>1, Names
    <2> QED BY <1>6, <2>1, <2>2
  <1> QED BY <1>0, <1>1, <1>3, <1>5, <1>7, OtherTemps

LEMMA TempStep == ASSUME ShapeInv, TodoInv, HandleInv, TempInv, Next PROVE TempInv'
  <1> SUFFICES ASSUME ~raced' PROVE TempInv'
    BY DEF TempInv
  <1>0. ~raced
    BY RacedStays
  <1>1. ASSUME NEW c \in Clients, PushStep(c) \/ PullStep(c), cl[c].pc \notin {"open"} \cup Writing
        PROVE  TempInv'
    <2>1. TempSame
      BY <1>1, QuietTemps
    <2>2. \A y \in Clients : y # c => cl'[y] = cl[y]
      BY <1>1, OneMoves
    <2>3. cl'[c].pc \notin Writing
      <3>1. PushMove(c)
        BY Moves
      <3> QED BY <1>1, <3>1 DEF PushMove, Writing, Pushing, NextFile
    <2>4. \A q : Same(Temp(q))
      BY <2>1, Names DEF TempSame
    <2>5. ASSUME NEW x \in Clients, cl'[x].pc \in Writing PROVE TempOwner(x)'
      <3>1. x # c /\ cl'[x] = cl[x]
        BY <2>2, <2>3, <2>5
      <3>2. TempOwner(x)
        BY <1>0, <2>5, <3>1 DEF TempInv
      <3> QED BY <2>2, <2>3, <2>4, <3>1, <3>2, TempKept
    <2> QED BY <2>5 DEF TempInv
  <1>2. ASSUME NEW c \in Clients, PushStep(c) \/ PullStep(c), cl[c].pc \in {"open"} \cup Writing
        PROVE  TempInv'
    <2>1. PutOpen(c) \/ PutWrite(c) \/ PutReplace(c)
      BY <1>2 DEF PushStep, PullStep, Push, PutCheck, PutLoad, HeadBlob, PostBlob, PutManifest,
         Fetch, ResolveManifest, ResolveConfig, PullLayer, PullStage, PullWrite, PullVerify,
         PullRename, At, Working, Writing
    <2> QED BY <1>0, <2>1, PutOpenTemp, PutWriteTemp, PutReplaceTemp
  <1>3. ASSUME NEW c \in Clients, Crash(c) PROVE TempInv'
    <2>1. /\ Fail(c) /\ DOMAIN fs' = DOMAIN fs
          /\ \A p \in DOMAIN fs : fs'[p] = File(fs[p].c, fs[p].open \ {c})
      BY <1>3 DEF Crash
    <2>2. cl'[c] = Idle /\ \A y \in Clients : y # c => cl'[y] = cl[y]
      BY <2>1, FailFacts
    <2>3. cl'[c].pc \notin Writing
      BY <2>2 DEF Idle, Writing
    <2>4. ASSUME NEW p \in DOMAIN fs, c \notin fs[p].open PROVE Same(p)
      <3>1. fs[p] = File(fs[p].c, fs[p].open) /\ fs[p].open \ {c} = fs[p].open
        BY <2>4 DEF ShapeInv, FileStore
      <3> QED BY <2>1, <3>1 DEF Same
    <2>5. ASSUME NEW x \in Clients, cl'[x].pc \in Writing PROVE TempOwner(x)'
      <3>1. x # c /\ cl'[x] = cl[x]
        BY <2>2, <2>3, <2>5
      <3>2. TempOwner(x)
        BY <1>0, <2>5, <3>1 DEF TempInv
      <3>3. PICK p : p = Temp(Todo(x).path)
        OBVIOUS
      <3>4. p \in DOMAIN fs /\ c \notin fs[p].open
        BY <3>1, <3>2, <3>3, FileParts DEF TempOwner
      <3>5. Same(p)
        BY <2>4, <3>4
      <3> QED BY <2>2, <2>3, <3>1, <3>2, <3>3, <3>5, TempKept
    <2> QED BY <2>5 DEF TempInv
  <1>4. ASSUME NEW p \in DOMAIN fs, Rot(p) PROVE TempInv'
    <2>1. /\ p[1] \in {"blob", "tag"} /\ cl' = cl
          /\ DOMAIN fs' = DOMAIN fs /\ \A q \in DOMAIN fs : q # p => fs'[q] = fs[q]
      BY <1>4 DEF Rot, ShapeInv, FileStore
    <2>2. \A q : Same(Temp(q))
      BY <2>1, Names DEF Same
    <2>3. ASSUME NEW x \in Clients, TempOwner(x) PROVE TempOwner(x)'
      BY <2>1, <2>2, <2>3 DEF TempOwner, Same, Todo, Temp
    <2> QED BY <1>0, <2>1, <2>3 DEF TempInv
  <1> QED BY <1>1, <1>2, <1>3, <1>4 DEF Next

LEMMA WholeStep ==
  ASSUME ShapeInv, TodoInv, HandleInv, OwnInv, TempInv, WholeInv, Next PROVE WholeInv'
  <1>1. /\ rot' = rot \/ rot' = "has"
        /\ shared \subseteq shared'
    <2>1. ASSUME NEW c \in Clients, PushStep(c) PROVE rot' = rot /\ shared \subseteq shared'
      BY <2>1 DEF PushStep, Push, PutCheck, PutOpen, PutWrite, PutReplace, PutLoad, HeadBlob,
         PostBlob, PutManifest, ghosts
    <2>2. ASSUME NEW c \in Clients, PullStep(c) PROVE rot' = rot /\ shared \subseteq shared'
      BY <2>2 DEF PullStep, Fetch, ResolveManifest, ResolveConfig, PullLayer, PullStage,
         PullWrite, PullVerify, PullRename, ghosts
    <2>3. ASSUME NEW c \in Clients, Crash(c) PROVE rot' = rot /\ shared \subseteq shared'
      BY <2>3 DEF Crash, ghosts
    <2>4. ASSUME NEW p \in DOMAIN fs, Rot(p) PROVE rot' = "has" /\ shared \subseteq shared'
      BY <2>4 DEF Rot, ghosts
    <2> QED BY <2>1, <2>2, <2>3, <2>4 DEF Next
  <1>2. ASSUME rot' # "has", ~raced', NEW p \in DOMAIN fs', fs'[p].c = Torn PROVE Exempt(p)'
    <2>0. rot # "has" /\ ~raced
      BY <1>1, <1>2, RacedStays
    <2>1. Exempt(p) => Exempt(p)'
      BY <1>1 DEF Exempt, Dest
    <2>2. Change(p)
      BY Changes
    <2>3. CASE p \in DOMAIN fs /\ fs'[p].c = fs[p].c
      BY <1>2, <2>0, <2>1, <2>3 DEF WholeInv
    <2>4. CASE p[1] \in {"tmp", "part"}
      BY <2>1, <2>4 DEF Exempt
    <2>5. ASSUME NEW c \in Clients, cl[c].pc = "write", p \in Handled(c) PROVE Exempt(p)
      <3>1. TempOwner(c)
        BY <2>0, <2>5 DEF TempInv, Writing
      <3>2. PICK t : t = Temp(Todo(c).path)
        OBVIOUS
      <3>3. t \in DOMAIN fs /\ fs[t] = File(Torn, {c})
        BY <2>5, <3>1, <3>2 DEF TempOwner
      <3>4. c \in fs[t].open
        BY <3>3, FileParts
      <3>5. p = t
        BY <2>5, <3>3, <3>4 DEF Handled, HandleInv, Single
      <3> QED BY <3>2, <3>5, Names DEF Exempt
    <2>6. ASSUME NEW c \in Clients, cl[c].pc = "staged", p \in Handled(c) PROVE Exempt(p)
      <3>1. PICK d : d = cl[c].job.dest
        OBVIOUS
      <3>2. p \in {Part(d), Dest(d)}
        BY <2>6, <3>1 DEF Handled, HandleInv, Holds
      <3>3. CASE d \in shared
        BY <3>2, <3>3, Names DEF Exempt
      <3>4. CASE d \notin shared
        <4>1. Owner(c)
          BY <2>6, <3>1, <3>4 DEF OwnInv, Staging
        <4>2. Part(d) \in DOMAIN fs /\ fs[Part(d)] = File(Torn, {c})
          BY <2>6, <3>1, <4>1 DEF Owner
        <4>3. c \in fs[Part(d)].open
          BY <4>2, FileParts
        <4>4. p = Part(d)
          BY <2>6, <4>2, <4>3 DEF Handled, HandleInv, Single
        <4> QED BY <4>4, Names DEF Exempt
      <3> QED BY <3>3, <3>4
    <2>7. ASSUME NEW c \in Clients, cl[c].pc = "replace", p = Todo(c).path,
                 fs'[p].c = fs[Temp(p)].c
          PROVE  FALSE
      <3>1. TempOwner(c)
        BY <2>0, <2>7 DEF TempInv, Writing
      <3>2. fs[Temp(p)] = File(Todo(c).b, {})
        BY <2>7, <3>1 DEF TempOwner
      <3> QED BY <1>2, <2>7, <3>2, TodoBytes, FileParts
    <2>8. ASSUME NEW c \in Clients, cl[c].pc = "rename", p = Dest(cl[c].job.dest),
                 fs'[p].c = fs[Part(cl[c].job.dest)].c
          PROVE  Exempt(p)
      <3>1. CASE cl[c].job.dest \in shared
        BY <2>8, <3>1 DEF Exempt
      <3>2. CASE cl[c].job.dest \notin shared
        <4>1. Owner(c)
          BY <2>8, <3>2 DEF OwnInv, Staging
        <4>2. /\ fs[Part(cl[c].job.dest)] = File(cl[c].layer, {})
              /\ PullAccepts(cl[c].layer, cl[c].job, cl[c].cfg)
          BY <2>8, <4>1 DEF Owner
        <4>3. cl[c].layer = Torn
          BY <1>2, <2>8, <4>2, FileParts
        <4> QED BY <4>2, <4>3 DEF PullAccepts, Torn
      <3> QED BY <3>1, <3>2
    <2>9. ASSUME NEW c \in Clients, cl[c].pc = "post", fs'[p].c = Todo(c).b PROVE FALSE
      BY <1>2, <2>9, TodoBytes
    <2>10. \A job : ManifestOf(job) # Torn
      BY DEF ManifestOf, ManifestDocument, Torn
    <2> QED BY <1>2, <2>1, <2>2, <2>3, <2>4, <2>5, <2>6, <2>7, <2>8, <2>9, <2>10 DEF Change
  <1>3. rot' \in {"no", "may", "has"}
    BY <1>1 DEF WholeInv
  <1> QED BY <1>2, <1>3 DEF WholeInv

\* The store found at the start holds no corrupt image and no torn file, and its
\* index is one, except what an interrupted push or pull may have left.
StartsIntact ==
  \A s \in Scenarios : \A p \in DOMAIN s.fs :
    /\ Sound(s.fs[p].c)
    /\ p \in {Index, Temp(Index)} => IndexLike(s.fs[p].c)
    /\ s.fs[p].c = Torn => p[1] \in {"tmp", "part"}

StoreInv == SoundInv /\ IndexInv /\ TempInv /\ WholeInv

\* "An interrupted push never leaves a half-written blob or index behind", for any
\* number of clients that die anywhere, as long as no two pushes meet on one
\* temporary file; and no corrupt image reaches the store.  The push that put a
\* temporary file in place is the only one that wrote to it, and a pull renames
\* only what it verified.
THEOREM StoreStaysIntact ==
  ASSUME StartsIntact, RereadsSound PROVE Spec => []StoreIntact
  <1>1. Init => StoreInv
    <2> SUFFICES ASSUME Init PROVE StoreInv
      OBVIOUS
    <2>1. PICK s \in Scenarios : kind = s.kind /\ fs = s.fs /\ rot = s.rot
      BY DEF Init
    <2>2. \A c \in Clients : cl[c].pc = "idle"
      BY DEF Init, Idle
    <2>3. SoundInv
      BY <2>1, <2>2 DEF SoundInv, StartsIntact, Pushing, Pulling
    <2>4. IndexInv
      BY <2>1 DEF IndexInv, StartsIntact
    <2>5. TempInv
      BY <2>2 DEF TempInv, Writing
    <2>6. WholeInv
      BY <2>1 DEF WholeInv, StartsIntact, Exempt
    <2> QED BY <2>3, <2>4, <2>5, <2>6 DEF StoreInv
  <1>2. ShapeInv /\ HoldInv /\ StoreInv /\ [Next]_vars => StoreInv'
    <2>1. ASSUME ShapeInv, HoldInv, StoreInv, Next PROVE StoreInv'
      BY <2>1, SoundStep, IndexStep, TempStep, WholeStep DEF HoldInv, StoreInv
    <2>2. ASSUME StoreInv, UNCHANGED vars PROVE StoreInv'
      <3>1. SoundInv' /\ IndexInv' /\ WholeInv'
        BY <2>2 DEF StoreInv, SoundInv, IndexInv, WholeInv, Exempt, Index, Temp, vars
      <3>2. TempInv'
        BY <2>2 DEF StoreInv, TempInv, TempOwner, Todo, vars
      <3> QED BY <3>1, <3>2 DEF StoreInv
    <2> QED BY <2>1, <2>2
  <1>3. ShapeInv /\ HoldInv /\ StoreInv => StoreIntact
    <2> SUFFICES ASSUME ShapeInv, HoldInv, StoreInv PROVE StoreIntact
      OBVIOUS
    <2>1. \A c \in Clients : cl[c].pc \in Pcs
      BY DEF ShapeInv, Pushing, Pulling, Pcs, Staging, Idle
    <2>2. \A p \in DOMAIN fs : \A c \in fs[p].open : cl[c].pc \in {"write", "staged"}
      BY DEF HoldInv, HandleInv, Holds
    <2>3. Exists(Index) => fs[Index].c = Torn \/ fs[Index].c[1] = "index"
      BY DEF StoreInv, IndexInv, IndexLike, Exists
    <2>4. TypeOK
      BY <2>1, <2>2, <2>3 DEF TypeOK, ShapeInv, StoreInv, WholeInv
    <2>5. rot # "has" /\ ~raced =>
            \A p \in DOMAIN fs :
              fs[p].c = Torn => p[1] \in {"tmp", "part"} \/ p \in {Dest(d) : d \in shared}
      BY DEF StoreInv, WholeInv, Exempt
    <2>6. \A p \in DOMAIN fs : fs[p].c[1] = "eth" =>
            Integrity(Images[fs[p].c[2]]) /\ CheckCapabilities(Images[fs[p].c[2]].members)
      BY DEF StoreInv, SoundInv, Sound
    <2> QED BY <2>4, <2>5, <2>6 DEF StoreIntact
  <1> QED BY <1>1, <1>2, <1>3, HoldAlways, PTL DEF Spec

-----------------------------------------------------------------------------
(* A push that succeeded can be pulled.                                    *)

IndexPlan(todo, new) == todo \in {<<MarkerFile, IndexFile(new)>>, <<IndexFile(new)>>}
IndexTodo(c) == cl[c].pc \in Pushing /\ \E new : IndexPlan(cl[c].todo, new)

\* The names of a push's files: a blob is named by its digest.
Addressed(f) == /\ f.path[1] = "blob" => Sha256(f.b) = f.path[2]
                /\ f.path = Marker => f.b = MarkerBytes

LEMMA FileNames ==
  ASSUME NEW job, NEW new
  PROVE  /\ Addressed(ConfigFile(job)) /\ Addressed(LayerFile(job))
         /\ Addressed(ManifestFile(job)) /\ Addressed(MarkerFile) /\ Addressed(IndexFile(new))
         /\ Addressed(RemoteConfig(job)) /\ Addressed(RemoteLayer(job))
         /\ ConfigFile(job).path # Index /\ LayerFile(job).path # Index
         /\ ManifestFile(job).path # Index /\ MarkerFile.path # Index
  <1>1. /\ MarkerFile.path # Index
        /\ MarkerFile.path[1] # "blob" /\ IndexFile(new).path[1] # "blob"
        /\ MarkerFile.b = MarkerBytes /\ IndexFile(new).path # Marker
    BY DEF MarkerFile, IndexFile, PutFile, Marker, Index
  <1>2. ASSUME NEW b, NEW p, p \in {<<"blob", Sha256(b)>>, <<"blob", Sha256(b), job.ref.name>>}
        PROVE  p[1] = "blob" /\ p[2] = Sha256(b) /\ p # Index /\ p # Marker
    BY <1>2 DEF Marker, Index
  <1>3. ASSUME NEW b
        PROVE  /\ Addressed(BlobFile(b)) /\ BlobFile(b).path # Index
               /\ Addressed(RemoteFile(job, b))
    <2>1. /\ BlobFile(b).path = <<"blob", Sha256(b)>> /\ BlobFile(b).b = b
          /\ RemoteFile(job, b).path = <<"blob", Sha256(b), job.ref.name>>
          /\ RemoteFile(job, b).b = b
      BY DEF BlobFile, RemoteFile, PutFile
    <2> QED BY <1>2, <2>1 DEF Addressed
  <1>4. Addressed(MarkerFile) /\ Addressed(IndexFile(new))
    BY <1>1 DEF Addressed
  <1> QED BY <1>1, <1>3, <1>4 DEF ConfigFile, LayerFile, ManifestFile, RemoteConfig, RemoteLayer

\* What the head of a layout plan is, and what is left when it is in place.
LEMMA PlanHead ==
  ASSUME NEW s, NEW job, NEW pc, NEW todo, LayoutPlan(pc, job, todo, s), pc # "load"
  PROVE  /\ Addressed(Head(todo))
         /\ Head(todo).path = Index => \E new : todo = <<IndexFile(new)>>
         /\ \A new : IndexPlan(Tail(todo), new) =>
              /\ todo = <<MarkerFile, IndexFile(new)>> /\ Head(todo).path = Marker
              /\ Tail(todo) = <<IndexFile(new)>>
  <1> DEFINE Goal == /\ Addressed(Head(todo))
                     /\ Head(todo).path = Index => \E new : todo = <<IndexFile(new)>>
                     /\ \A new : IndexPlan(Tail(todo), new) =>
                          /\ todo = <<MarkerFile, IndexFile(new)>> /\ Head(todo).path = Marker
                          /\ Tail(todo) = <<IndexFile(new)>>
  <1>1. CASE todo = <<ConfigFile(job), LayerFile(job), ManifestFile(job)>>
    <2>1. Head(todo) = ConfigFile(job) /\ Tail(todo) = <<LayerFile(job), ManifestFile(job)>>
      BY <1>1, Todo3
    <2>2. \A new : ~IndexPlan(Tail(todo), new)
      <3>1. \A new : Tail(todo) # <<MarkerFile, IndexFile(new)>> /\ Tail(todo) # <<IndexFile(new)>>
        BY <2>1, NoIndexFile
      <3> QED BY <3>1 DEF IndexPlan
    <2> QED BY <2>1, <2>2, FileNames
  <1>2. CASE todo = <<LayerFile(job), ManifestFile(job)>>
    <2>1. Head(todo) = LayerFile(job) /\ Tail(todo) = <<ManifestFile(job)>>
      BY <1>2, Todo2
    <2>2. \A new : ~IndexPlan(Tail(todo), new)
      <3>1. \A new : Tail(todo) # <<MarkerFile, IndexFile(new)>> /\ Tail(todo) # <<IndexFile(new)>>
        BY <2>1, NoIndexFile
      <3> QED BY <3>1 DEF IndexPlan
    <2> QED BY <2>1, <2>2, FileNames
  <1>3. CASE todo = <<ManifestFile(job)>>
    <2>1. Head(todo) = ManifestFile(job) /\ Tail(todo) = <<>>
      BY <1>3, Todo1
    <2>2. \A new : ~IndexPlan(Tail(todo), new)
      BY <2>1 DEF IndexPlan
    <2> QED BY <2>1, <2>2, FileNames
  <1>4. ASSUME NEW new, todo = <<MarkerFile, IndexFile(new)>> PROVE Goal
    <2>1. Head(todo) = MarkerFile /\ Tail(todo) = <<IndexFile(new)>>
      BY <1>4, Todo2
    <2>2. ASSUME NEW n, IndexPlan(Tail(todo), n) PROVE IndexFile(n) = IndexFile(new)
      BY <2>1, <2>2 DEF IndexPlan
    <2>3. MarkerFile.path = Marker
      BY DEF MarkerFile, PutFile
    <2> QED BY <1>4, <2>1, <2>2, <2>3, FileNames
  <1>5. ASSUME NEW new, todo = <<IndexFile(new)>> PROVE Goal
    <2>1. Head(todo) = IndexFile(new) /\ Tail(todo) = <<>>
      BY <1>5, Todo1
    <2>2. \A n : ~IndexPlan(Tail(todo), n)
      BY <2>1 DEF IndexPlan
    <2> QED BY <1>5, <2>1, <2>2, FileNames
  <1> QED BY <1>1, <1>2, <1>3, <1>4, <1>5 DEF LayoutPlan

LEMMA TodoNames ==
  ASSUME TodoInv, NEW c \in Clients,
         cl[c].pc \in {"check", "open", "write", "replace", "post"}
  PROVE  /\ Addressed(Todo(c))
         /\ kind = "layout" /\ Todo(c).path = Index =>
              \E new : cl[c].todo = <<IndexFile(new)>> /\ Todo(c).b = IndexBytes(new)
  <1>1. cl[c].pc \in Pushing /\ cl[c].pc \notin {"load", "put"}
    BY DEF Pushing
  <1>2. CASE kind = "layout"
    <2>1. PICK s : LayoutPlan(cl[c].pc, cl[c].job, cl[c].todo, s)
      BY <1>1, <1>2 DEF TodoInv
    <2>2. /\ Addressed(Todo(c))
          /\ Todo(c).path = Index => \E new : cl[c].todo = <<IndexFile(new)>>
      BY <1>1, <2>1, PlanHead DEF Todo
    <2>3. ASSUME NEW new, cl[c].todo = <<IndexFile(new)>> PROVE Todo(c).b = IndexBytes(new)
      <3>1. Todo(c) = IndexFile(new)
        BY <2>3, Todo1 DEF Todo
      <3> QED BY <3>1, IndexPath
    <2> QED BY <2>2, <2>3
  <1>3. CASE kind # "layout"
    <2>1. PICK s : RegistryPlan(cl[c].pc, cl[c].job, cl[c].todo, s)
      BY <1>1, <1>3 DEF TodoInv
    <2>2. CASE cl[c].todo = <<RemoteConfig(cl[c].job), RemoteLayer(cl[c].job)>>
      BY <1>3, <2>2, Todo2, FileNames DEF Todo
    <2>3. CASE cl[c].todo = <<RemoteLayer(cl[c].job)>>
      BY <1>3, <2>3, Todo1, FileNames DEF Todo
    <2> QED BY <1>1, <2>1, <2>2, <2>3 DEF RegistryPlan
  <1> QED BY <1>2, <1>3

\* How the content of a file of the store came about in one step, as long as no two
\* pushes met on a temporary file.
StoreNames == {"blob", "oci-layout", "index.json", "tag"}
StoreChange(p) ==
  LET new == fs'[p].c
  IN  \/ p \in DOMAIN fs /\ new = fs[p].c
      \/ p[1] \in {"blob", "tag"} /\ rot' = "has"
      \/ \E c \in Clients : cl[c].pc \in {"replace", "post"} /\ p = Todo(c).path /\ new = Todo(c).b
      \/ \E c \in Clients :
           /\ cl[c].pc = "put" /\ new = ManifestOf(cl[c].job)
           /\ p \in {Tag(cl[c].job.ref.name, TagOf(cl[c].job.ref)),
                     Blob(cl[c].job.ref.name, Sha256(new))}

LEMMA StoreChanges ==
  ASSUME ShapeInv, TodoInv, HandleInv, TempInv, ~raced, Next,
         NEW p \in DOMAIN fs', p[1] \in StoreNames
  PROVE  StoreChange(p)
  <1>1. Change(p)
    BY Changes
  <1>2. p[1] \notin {"tmp", "part", "dest"}
    BY DEF StoreNames
  <1>3. ASSUME NEW c \in Clients, cl[c].pc = "write", p \in Handled(c) PROVE FALSE
    <2>1. TempOwner(c)
      BY <1>3 DEF TempInv, Writing
    <2>2. PICK t : t = Temp(Todo(c).path)
      OBVIOUS
    <2>3. t \in DOMAIN fs /\ fs[t] = File(Torn, {c})
      BY <1>3, <2>1, <2>2 DEF TempOwner
    <2>4. c \in fs[t].open
      BY <2>3, FileParts
    <2>5. p = t
      BY <1>3, <2>3, <2>4 DEF Handled, HandleInv, Single
    <2> QED BY <1>2, <2>2, <2>5, Names
  <1>4. ASSUME NEW c \in Clients, cl[c].pc = "staged", p \in Handled(c) PROVE FALSE
    <2>1. p \in {Part(cl[c].job.dest), Dest(cl[c].job.dest)}
      BY <1>4 DEF Handled, HandleInv, Holds
    <2> QED BY <1>2, <2>1, Names
  <1>5. ASSUME NEW c \in Clients, cl[c].pc = "replace", p = Todo(c).path PROVE fs[Temp(p)].c = Todo(c).b
    <2>1. TempOwner(c)
      BY <1>5 DEF TempInv, Writing
    <2>2. fs[Temp(p)] = File(Todo(c).b, {})
      BY <1>5, <2>1 DEF TempOwner
    <2> QED BY <2>2, FileParts
  <1>6. \A d : p # Dest(d)
    BY <1>2, Names
  <1> QED BY <1>1, <1>2, <1>3, <1>4, <1>5, <1>6 DEF Change, StoreChange

\* A blob has the digest it is named by.
AddrInv ==
  ~raced /\ rot # "has" => \A p \in DOMAIN fs : p[1] = "blob" => Sha256(fs[p].c) = p[2]

LEMMA RotStays == ASSUME Next, rot' # "has" PROVE rot # "has"
  <1>1. ASSUME NEW c \in Clients, PushStep(c) PROVE rot' = rot
    BY <1>1 DEF PushStep, Push, PutCheck, PutOpen, PutWrite, PutReplace, PutLoad, HeadBlob,
       PostBlob, PutManifest
  <1>2. ASSUME NEW c \in Clients, PullStep(c) PROVE rot' = rot
    BY <1>2 DEF PullStep, Fetch, ResolveManifest, ResolveConfig, PullLayer, PullStage, PullWrite,
       PullVerify, PullRename
  <1>3. ASSUME NEW c \in Clients, Crash(c) PROVE rot' = rot
    BY <1>3 DEF Crash
  <1>4. ASSUME NEW p \in DOMAIN fs, Rot(p) PROVE rot' = "has"
    BY <1>4 DEF Rot
  <1> QED BY <1>1, <1>2, <1>3, <1>4 DEF Next

LEMMA AddrStep ==
  ASSUME ShapeInv, TodoInv, HandleInv, TempInv, AddrInv, Next PROVE AddrInv'
  <1> SUFFICES ASSUME ~raced', rot' # "has", NEW p \in DOMAIN fs', p[1] = "blob"
               PROVE  Sha256(fs'[p].c) = p[2]
    BY DEF AddrInv
  <1>0. ~raced /\ rot # "has"
    BY RacedStays, RotStays
  <1>1. StoreChange(p)
    BY <1>0, StoreChanges DEF StoreNames
  <1>2. CASE p \in DOMAIN fs /\ fs'[p].c = fs[p].c
    BY <1>0, <1>2 DEF AddrInv
  <1>3. ASSUME NEW c \in Clients, cl[c].pc \in {"replace", "post"}, p = Todo(c).path,
               fs'[p].c = Todo(c).b
        PROVE  Sha256(fs'[p].c) = p[2]
    BY <1>3, TodoNames DEF Addressed
  <1>4. ASSUME NEW n, NEW t, NEW b, p \in {Tag(n, t), Blob(n, Sha256(b))}, fs'[p].c = b
        PROVE  Sha256(fs'[p].c) = p[2]
    <2>1. Tag(n, t)[1] = "tag" /\ Blob(n, Sha256(b))[2] = Sha256(b)
      BY DEF Tag, Blob
    <2> QED BY <1>4, <2>1
  <1> QED BY <1>1, <1>2, <1>3, <1>4 DEF StoreChange

-----------------------------------------------------------------------------
(* The index of a layout.                                                  *)

\* Under the label of j the entries es have what some push put there, and nothing else.
Only(j, es) ==
  /\ \E k \in Pushes : Label(k) = Label(j) /\ Entry(k) \in es
  /\ \A e \in es : e.tag = TagOf(j.ref) /\ e.owner = j.ref.name => \E k \in Pushes : e = Entry(k)

\* The index that c is about to write loses no push that was reported.
Ready(c, new) ==
  /\ Only(cl[c].job, new) /\ \A j \in published : Only(j, new)
  /\ Marker \in DOMAIN fs => fs[Marker].c = MarkerBytes
  /\ cl[c].todo = <<IndexFile(new)>> => Marker \in DOMAIN fs

PubLayout ==
  kind = "layout" /\ ~raced =>
    /\ published # {} => Loadable(fs)
    /\ \A j \in published : Only(j, Entries)
    /\ \A c \in Clients : \A new :
         cl[c].pc \in Pushing /\ IndexPlan(cl[c].todo, new) => Ready(c, new)
    /\ \A c, d \in Clients : IndexTodo(c) /\ IndexTodo(d) => c = d

\* What a push reports was not refused.
PubJobs ==
  /\ \A j \in published : j \in Pushes /\ ~PushRefused(j)
  /\ \A c \in Clients : cl[c].pc \in Pushing => ~PushRefused(cl[c].job)

LEMMA OnlyNew ==
  ASSUME NEW old, NEW job \in Pushes
  PROVE  /\ Only(job, NewEntries(old, Entry(job)))
         /\ \A j : Only(j, old) => Only(j, NewEntries(old, Entry(job)))
  <1> DEFINE new == NewEntries(old, Entry(job))
  <1>0. \A k : Entry(k).tag = TagOf(k.ref) /\ Entry(k).owner = k.ref.name
    BY DEF Entry
  <1>1. /\ Entry(job) \in new
        /\ \A e \in new : e = Entry(job) \/ (e \in old /\ ~SameLabel(e, Entry(job)))
        /\ \A e \in old : e \in new \/ SameLabel(e, Entry(job))
    BY DEF NewEntries
  <1> HIDE DEF new
  <1>2. Only(job, new)
    BY <1>0, <1>1 DEF Only, SameLabel
  <1>3. ASSUME NEW j, Only(j, old) PROVE Only(j, new)
    <2>1. PICK k \in Pushes : Label(k) = Label(j) /\ Entry(k) \in old
      BY <1>3 DEF Only
    <2>2. CASE Entry(k) \in new
      BY <1>1, <1>3, <2>1, <2>2 DEF Only
    <2>3. CASE SameLabel(Entry(k), Entry(job))
      <3>1. Label(job) = Label(k)
        BY <1>0, <2>3 DEF SameLabel, Label
      <3> QED BY <1>1, <1>3, <2>1, <3>1 DEF Only
    <2> QED BY <1>1, <2>1, <2>2, <2>3
  <1> QED BY <1>2, <1>3 DEF new

\* Only its own steps change a client.
LEMMA Mover ==
  ASSUME ShapeInv, Next, NEW c \in Clients, cl'[c] # cl[c]
  PROVE  PushStep(c) \/ PullStep(c) \/ Crash(c)
  <1>1. ASSUME NEW d \in Clients, PushStep(d) \/ PullStep(d) \/ Crash(d) PROVE c = d
    BY <1>1, OneMoves
  <1>2. ASSUME NEW p \in DOMAIN fs, Rot(p) PROVE FALSE
    BY <1>2 DEF Rot
  <1> QED BY <1>1, <1>2 DEF Next

\* How a push goes on in a layout.
LEMMA PushMover ==
  ASSUME ShapeInv, Next, kind = "layout", NEW c \in Clients, cl'[c] # cl[c],
         cl'[c].pc \in Pushing, cl[c].pc \in {"check", "replace", "load"}
  PROVE  \/ cl[c].pc = "check" /\ PutCheck(c)
         \/ cl[c].pc = "replace" /\ PutReplace(c)
         \/ cl[c].pc = "load" /\ PutLoad(c)
  <1>1. PushStep(c) \/ PullStep(c) \/ Crash(c)
    BY Mover
  <1>2. ~Crash(c)
    <2>1. ASSUME Crash(c) PROVE FALSE
      <3>1. cl'[c] = Idle
        BY <2>1, FailFacts DEF Crash
      <3> QED BY <3>1 DEF Idle, Pushing
    <2> QED BY <2>1
  <1>3. ~PullStep(c)
    BY DEF PullStep, Fetch, ResolveManifest, ResolveConfig, PullLayer, PullStage, PullWrite,
       PullVerify, PullRename, At, Working
  <1>4. ~(\E j \in Jobs : Push(c, j)) /\ ~PutOpen(c) /\ ~PutWrite(c) /\ ~HeadBlob(c)
        /\ ~PostBlob(c) /\ ~PutManifest(c)
    BY DEF Push, PutOpen, PutWrite, HeadBlob, PostBlob, PutManifest, At, Working
  <1> QED BY <1>1, <1>2, <1>3, <1>4 DEF PushStep, PutCheck, PutReplace, PutLoad, At

\* How a client comes to hold an index to be written.
LEMMA IndexMoves ==
  ASSUME ShapeInv, TodoInv, Next, kind = "layout", NEW c \in Clients, NEW new,
         cl'[c].pc \in Pushing, IndexPlan(cl'[c].todo, new)
  PROVE  /\ cl'[c].job = cl[c].job /\ cl[c].pc \in Pushing
         /\ \/ cl'[c].todo = cl[c].todo
            \/ /\ cl[c].todo = <<MarkerFile, IndexFile(new)>> /\ cl'[c].todo = <<IndexFile(new)>>
               /\ Marker \in DOMAIN fs'
            \/ /\ PutLoad(c)
               /\ Exists(Marker) => Loadable(fs)
               /\ new = NewEntries(IF Exists(Marker) THEN Entries ELSE {}, Entry(cl[c].job))
               /\ cl'[c].todo = <<MarkerFile, IndexFile(new)>>
  <1>0. PushMove(c)
    BY Moves
  <1>1. ASSUME cl'[c].todo = PushFiles(cl'[c].job) PROVE FALSE
    <2>1. PICK job : job = cl'[c].job
      OBVIOUS
    <2>2. cl'[c].todo = <<ConfigFile(job), LayerFile(job), ManifestFile(job)>>
      BY <1>1, <2>1, LayoutFiles
    <2> QED BY <2>2 DEF IndexPlan
  <1>2. ASSUME cl[c].pc \in {"check", "replace", "post"}, cl[c].pc \in Pushing,
               cl'[c].todo = Tail(cl[c].todo)
        PROVE  /\ cl[c].todo = <<MarkerFile, IndexFile(new)>> /\ cl'[c].todo = <<IndexFile(new)>>
               /\ Marker \in DOMAIN fs'
    <2>1. PICK s : LayoutPlan(cl[c].pc, cl[c].job, cl[c].todo, s)
      BY <1>2 DEF TodoInv
    <2>2. /\ cl[c].todo = <<MarkerFile, IndexFile(new)>> /\ Head(cl[c].todo).path = Marker
          /\ Tail(cl[c].todo) = <<IndexFile(new)>>
      BY <1>2, <2>1, PlanHead
    <2>3. cl[c].pc \in {"check", "replace"}
      BY <1>2, <2>1 DEF LayoutPlan
    <2>4. <<MarkerFile, IndexFile(new)>> # <<IndexFile(new)>>
      OBVIOUS
    <2>5. cl'[c] # cl[c]
      BY <1>2, <2>2, <2>4
    <2>6. Todo(c).path = Marker
      BY <2>2 DEF Todo
    <2>7. ASSUME PutCheck(c) PROVE Marker \in DOMAIN fs'
      <3>1. CASE Exists(Marker)
        <4>1. fs' = fs
          BY <2>7 DEF PutCheck
        <4> QED BY <3>1, <4>1 DEF Exists
      <3>2. CASE ~Exists(Marker)
        <4>1. Goto(c, "open") /\ cl[c].pc # "idle"
          BY <2>3, <2>6, <2>7, <3>2 DEF PutCheck
        <4>2. cl'[c] = [pc |-> "open", job |-> cl[c].job, todo |-> cl[c].todo]
          BY <1>2, <4>1, GotoFacts
        <4>3. cl'[c].todo = cl[c].todo
          BY <4>2
        <4> QED BY <1>2, <2>2, <2>4, <4>3
      <3> QED BY <3>1, <3>2
    <2>8. ASSUME PutReplace(c) PROVE Marker \in DOMAIN fs'
      <3>1. CASE Exists(Temp(Marker))
        <4>1. Rename(Temp(Marker), Marker)
          BY <2>6, <2>8, <3>1 DEF PutReplace
        <4>2. DOMAIN fs' = DOMAIN Without(fs, {Temp(Marker)}) \cup {Marker}
          BY <4>1 DEF Rename, With
        <4> QED BY <4>2
      <3>2. CASE ~Exists(Temp(Marker))
        <4>1. Fail(c)
          BY <2>6, <2>8, <3>2 DEF PutReplace
        <4>2. cl'[c] = Idle
          BY <4>1, FailFacts
        <4> QED BY <4>2 DEF Idle, Pushing
      <3> QED BY <3>1, <3>2
    <2>9. Marker \in DOMAIN fs'
      BY <2>3, <2>5, <2>7, <2>8, PushMover
    <2> QED BY <1>2, <2>2, <2>9
  <1>3. ASSUME NEW old, cl[c].pc = "load", cl'[c].pc = "check", Exists(Marker) => Loadable(fs),
               old = (IF Exists(Marker) THEN Entries ELSE {}),
               cl'[c].todo = <<MarkerFile, IndexFile(NewEntries(old, Entry(cl[c].job)))>>
        PROVE  /\ PutLoad(c)
               /\ Exists(Marker) => Loadable(fs)
               /\ new = NewEntries(old, Entry(cl[c].job))
               /\ cl'[c].todo = <<MarkerFile, IndexFile(new)>>
    <2>1. cl'[c] # cl[c]
      BY <1>3
    <2>2. PutLoad(c)
      BY <1>3, <2>1, PushMover
    <2>3. PICK n : n = NewEntries(old, Entry(cl[c].job))
      OBVIOUS
    <2>4. cl'[c].todo = <<MarkerFile, IndexFile(n)>>
      BY <1>3, <2>3
    <2>5. IndexFile(new) = IndexFile(n)
      BY <2>4 DEF IndexPlan
    <2>6. IndexBytes(new) = IndexBytes(n)
      BY <2>5, IndexFileB
    <2>7. IndexBytes(new)[2] = new /\ IndexBytes(n)[2] = n
      BY DEF IndexBytes
    <2>8. new = n
      BY <2>6, <2>7
    <2> QED BY <1>3, <2>2, <2>3, <2>4, <2>8
  <1>4. CASE cl[c].pc \in Pushing /\ cl'[c].job = cl[c].job /\ cl'[c].todo = cl[c].todo
    BY <1>4
  <1>5. CASE /\ cl[c].pc \in Pushing /\ cl'[c].job = cl[c].job
             /\ cl[c].pc \in {"check", "replace", "post"} /\ cl'[c].todo = Tail(cl[c].todo)
    BY <1>2, <1>5
  <1>6. CASE /\ cl[c].pc = "load" /\ cl'[c].pc = "check" /\ cl'[c].job = cl[c].job
             /\ Exists(Marker) => Loadable(fs)
             /\ \E old : /\ old = IF Exists(Marker) THEN Entries ELSE {}
                         /\ cl'[c].todo = <<MarkerFile, IndexFile(NewEntries(old, Entry(cl[c].job)))>>
    <2>1. cl[c].pc \in Pushing
      BY <1>6 DEF Pushing
    <2> QED BY <1>3, <1>6, <2>1
  <1> QED BY <1>0, <1>1, <1>4, <1>5, <1>6 DEF PushMove

\* How a push comes to be reported.
LEMMA PubMoves ==
  ASSUME ShapeInv, TodoInv, TempInv, ~raced, Next, published' # published
  PROVE  \E c \in Clients :
           /\ cl[c].pc \in Pushing /\ published' = published \cup {cl[c].job}
           /\ \/ /\ kind = "layout" /\ cl[c].pc = "replace" /\ Todo(c).path = Index
                 /\ Index \in DOMAIN fs' /\ fs'[Index].c = Todo(c).b /\ cl'[c] = Idle
              \/ cl[c].pc = "put" /\ fs' = Tagged(cl[c].job)
  <1>1. ASSUME NEW c \in Clients, Published(c) PROVE cl'[c] = Idle /\ published' = published \cup {cl[c].job}
    <2>1. Fail(c)
      BY <1>1 DEF Published, Fail
    <2> QED BY <1>1, <2>1, FailFacts DEF Published
  <1>2. PICK c \in Clients : PutReplace(c) \/ PutManifest(c)
    BY DEF Next, PushStep, PullStep, Push, PutCheck, PutOpen, PutWrite, PutLoad, HeadBlob, PostBlob,
       Fetch, ResolveManifest, ResolveConfig, PullLayer, PullStage, PullWrite, PullVerify,
       PullRename, Crash, Rot, ghosts
  <1>3. CASE PutReplace(c)
    <2>1. cl[c].pc = "replace" /\ Todo(c).path = Index /\ Published(c)
          /\ Exists(Temp(Index)) /\ Rename(Temp(Index), Index)
      BY <1>3 DEF PutReplace, At
    <2>2. kind = "layout"
      BY <2>1, TodoPath
    <2>3. TempOwner(c)
      BY <2>1 DEF TempInv, Writing
    <2>4. fs[Temp(Index)] = File(Todo(c).b, {})
      BY <2>1, <2>3 DEF TempOwner
    <2>5. Index \in DOMAIN fs' /\ fs'[Index] = fs[Temp(Index)]
      BY <2>1 DEF Rename, With
    <2>6. fs'[Index].c = Todo(c).b
      BY <2>4, <2>5, FileParts
    <2>7. cl[c].pc \in Pushing
      BY <2>1 DEF Pushing
    <2> QED BY <1>1, <2>1, <2>2, <2>5, <2>6, <2>7
  <1>4. CASE PutManifest(c)
    <2>1. cl[c].pc = "put" /\ fs' = Tagged(cl[c].job) /\ Published(c)
      BY <1>4 DEF PutManifest, At
    <2>2. cl[c].pc \in Pushing
      BY <2>1 DEF Pushing
    <2> QED BY <1>1, <2>1, <2>2
  <1> QED BY <1>2, <1>3, <1>4

LEMMA PubJobsStep ==
  ASSUME ShapeInv, TodoInv, TempInv, ~raced, PubJobs, Next PROVE PubJobs'
  <1>1. ASSUME NEW c \in Clients, cl'[c].pc \in Pushing PROVE ~PushRefused(cl'[c].job)
    <2>1. PushMove(c)
      BY Moves
    <2>2. CASE cl[c].pc \in Pushing /\ cl'[c].job = cl[c].job
      BY <2>2 DEF PubJobs
    <2> QED BY <1>1, <2>1, <2>2 DEF PushMove
  <1>2. ASSUME NEW j \in published' PROVE j \in Pushes /\ ~PushRefused(j)
    <2>1. CASE j \in published
      BY <2>1 DEF PubJobs
    <2>2. CASE j \notin published
      <3>1. PICK c \in Clients : cl[c].pc \in Pushing /\ published' = published \cup {cl[c].job}
        BY <2>2, PubMoves
      <3>2. j = cl[c].job
        BY <2>2, <3>1
      <3>3. cl[c].job \in Pushes
        BY <3>1, PushShape
      <3> QED BY <3>1, <3>2, <3>3 DEF PubJobs
    <2> QED BY <2>1, <2>2
  <1>3. ASSUME NEW j PROVE (j \in Pushes /\ ~PushRefused(j))' <=> (j \in Pushes /\ ~PushRefused(j))
    BY DEF Pushes, PushRefused
  <1> QED BY <1>1, <1>2, <1>3 DEF PubJobs, PushRefused, Pushes

\* While no two pushes meet on the index, it keeps what was reported: who computes a
\* new index is alone with it until it is in place.
LEMMA PubLayoutStep ==
  ASSUME ShapeInv, TodoInv, HandleInv, TempInv, PubLayout, Next PROVE PubLayout'
  <1> SUFFICES ASSUME kind = "layout", ~raced, ~raced' PROVE PubLayout'
    BY FilesStay, RacedStays DEF PubLayout
  <1>0. /\ published # {} => Loadable(fs)
        /\ \A j \in published : Only(j, Entries)
        /\ \A c \in Clients : \A new :
             cl[c].pc \in Pushing /\ IndexPlan(cl[c].todo, new) => Ready(c, new)
        /\ \A c, d \in Clients : IndexTodo(c) /\ IndexTodo(d) => c = d
    BY DEF PubLayout
  <1>1. /\ Marker \in DOMAIN fs => Marker \in DOMAIN fs'
        /\ Index \in DOMAIN fs => Index \in DOMAIN fs'
    BY FilesStay DEF StoreKept, Marker, Index
  <1>n. /\ Marker[1] = "oci-layout" /\ Index[1] = "index.json" /\ Marker # Index
        /\ \A n, t : Tag(n, t)[1] = "tag" /\ Blob(n, t)[1] = "blob"
    BY DEF Marker, Index, Tag, Blob
  <1>2. ASSUME Marker \in DOMAIN fs'
        PROVE  fs'[Marker].c = MarkerBytes \/ (Marker \in DOMAIN fs /\ fs'[Marker].c = fs[Marker].c)
    <2>1. StoreChange(Marker)
      BY <1>2, <1>n, StoreChanges DEF StoreNames
    <2>2. ASSUME NEW c \in Clients, cl[c].pc \in {"replace", "post"}, Marker = Todo(c).path
          PROVE  Todo(c).b = MarkerBytes
      BY <2>2, TodoNames DEF Addressed
    <2> QED BY <1>n, <2>1, <2>2 DEF StoreChange
  <1>p. ASSUME NEW c \in Clients, cl[c].pc \in {"replace", "post"}, Todo(c).path = Index
        PROVE  \E new : /\ cl[c].pc \in Pushing /\ IndexPlan(cl[c].todo, new) /\ Ready(c, new)
                        /\ Todo(c).b = IndexBytes(new) /\ IndexTodo(c) /\ Marker \in DOMAIN fs
    <2>1. PICK new : cl[c].todo = <<IndexFile(new)>> /\ Todo(c).b = IndexBytes(new)
      BY <1>p, TodoNames
    <2>2. cl[c].pc \in Pushing /\ IndexPlan(cl[c].todo, new) /\ IndexTodo(c)
      BY <1>p, <2>1 DEF Pushing, IndexPlan, IndexTodo
    <2>3. Ready(c, new)
      BY <1>0, <2>2
    <2>4. Marker \in DOMAIN fs
      BY <2>1, <2>3 DEF Ready
    <2> QED BY <2>1, <2>2, <2>3, <2>4
  <1>3. ASSUME Index \in DOMAIN fs'
        PROVE  \/ Index \in DOMAIN fs /\ fs'[Index].c = fs[Index].c
               \/ \E new : fs'[Index].c = IndexBytes(new) /\ \A j \in published : Only(j, new)
    <2>1. StoreChange(Index)
      BY <1>3, <1>n, StoreChanges DEF StoreNames
    <2>2. ASSUME NEW c \in Clients, cl[c].pc \in {"replace", "post"}, Index = Todo(c).path,
                 fs'[Index].c = Todo(c).b
          PROVE  \E new : fs'[Index].c = IndexBytes(new) /\ \A j \in published : Only(j, new)
      BY <1>p, <2>2 DEF Ready
    <2> QED BY <1>n, <2>1, <2>2 DEF StoreChange
  <1>b. \A new : IndexBytes(new)[1] = "index" /\ IndexBytes(new)[2] = new
    BY DEF IndexBytes
  <1>4. ASSUME published' # published
        PROVE  \E c \in Clients : \E new :
                 /\ published' = published \cup {cl[c].job} /\ cl'[c] = Idle /\ IndexTodo(c)
                 /\ Ready(c, new) /\ Marker \in DOMAIN fs
                 /\ Index \in DOMAIN fs' /\ fs'[Index].c = IndexBytes(new)
    <2>1. PICK c \in Clients :
            /\ cl[c].pc \in Pushing /\ published' = published \cup {cl[c].job}
            /\ \/ /\ kind = "layout" /\ cl[c].pc = "replace" /\ Todo(c).path = Index
                  /\ Index \in DOMAIN fs' /\ fs'[Index].c = Todo(c).b /\ cl'[c] = Idle
               \/ cl[c].pc = "put" /\ fs' = Tagged(cl[c].job)
      BY <1>4, PubMoves
    <2>2. cl[c].pc # "put"
      <3>1. PICK s : LayoutPlan(cl[c].pc, cl[c].job, cl[c].todo, s)
        BY <2>1 DEF TodoInv
      <3> QED BY <3>1 DEF LayoutPlan
    <2>3. PICK new : Ready(c, new) /\ Todo(c).b = IndexBytes(new) /\ IndexTodo(c) /\ Marker \in DOMAIN fs
      BY <1>p, <2>1, <2>2
    <2> QED BY <2>1, <2>2, <2>3
  <1>5. (published # {} => Loadable(fs))'
    <2>1. ASSUME published' # published PROVE Loadable(fs')
      <3>1. PICK c, new :
              /\ c \in Clients /\ Ready(c, new) /\ Marker \in DOMAIN fs
              /\ Index \in DOMAIN fs' /\ fs'[Index].c = IndexBytes(new)
        BY <1>4, <2>1
      <3>2. fs[Marker].c = MarkerBytes
        BY <3>1 DEF Ready
      <3> QED BY <1>1, <1>2, <1>b, <3>1, <3>2 DEF Loadable
    <2>2. ASSUME published # {} PROVE Loadable(fs')
      <3>1. /\ Marker \in DOMAIN fs /\ fs[Marker].c = MarkerBytes
            /\ Index \in DOMAIN fs /\ fs[Index].c[1] = "index"
        BY <1>0, <2>2 DEF Loadable
      <3>2. Marker \in DOMAIN fs' /\ fs'[Marker].c = MarkerBytes /\ Index \in DOMAIN fs'
        BY <1>1, <1>2, <3>1
      <3>3. fs'[Index].c[1] = "index"
        BY <1>3, <1>b, <3>1, <3>2
      <3> QED BY <3>2, <3>3 DEF Loadable
    <2> QED BY <2>1, <2>2 DEF Loadable
  <1>6. ASSUME NEW j \in published' PROVE Only(j, fs'[Index].c[2])
    <2>1. CASE published' # published
      <3>1. PICK c, new :
              /\ c \in Clients /\ published' = published \cup {cl[c].job} /\ Ready(c, new)
              /\ Index \in DOMAIN fs' /\ fs'[Index].c = IndexBytes(new)
        BY <1>4, <2>1
      <3>2. Only(j, new)
        BY <3>1 DEF Ready
      <3>3. fs'[Index].c[2] = new
        BY <1>b, <3>1
      <3> QED BY <3>2, <3>3
    <2>2. CASE published' = published
      <3>1. Index \in DOMAIN fs /\ Only(j, fs[Index].c[2])
        BY <1>0, <2>2 DEF Loadable, Entries
      <3>2. Index \in DOMAIN fs'
        BY <1>1, <3>1
      <3>3. CASE fs'[Index].c = fs[Index].c
        BY <3>1, <3>3
      <3>4. ASSUME NEW new, fs'[Index].c = IndexBytes(new), \A i \in published : Only(i, new)
            PROVE  Only(j, fs'[Index].c[2])
        <4>1. fs'[Index].c[2] = new
          BY <1>b, <3>4
        <4> QED BY <2>2, <3>4, <4>1
      <3> QED BY <1>3, <3>2, <3>3, <3>4
    <2> QED BY <2>1, <2>2
  <1>7. ASSUME NEW c \in Clients, NEW new, cl'[c].pc \in Pushing, IndexPlan(cl'[c].todo, new)
        PROVE  /\ cl'[c].job = cl[c].job /\ cl[c].pc \in Pushing
               /\ \/ /\ IndexPlan(cl[c].todo, new) /\ IndexTodo(c) /\ Ready(c, new)
                     /\ cl'[c].todo = cl[c].todo \/ Marker \in DOMAIN fs'
                  \/ /\ PutLoad(c)
                     /\ Exists(Marker) => Loadable(fs)
                     /\ new = NewEntries(IF Exists(Marker) THEN Entries ELSE {}, Entry(cl[c].job))
                     /\ cl'[c].todo = <<MarkerFile, IndexFile(new)>>
    <2>1. /\ cl'[c].job = cl[c].job /\ cl[c].pc \in Pushing
          /\ \/ cl'[c].todo = cl[c].todo
             \/ /\ cl[c].todo = <<MarkerFile, IndexFile(new)>> /\ cl'[c].todo = <<IndexFile(new)>>
                /\ Marker \in DOMAIN fs'
             \/ /\ PutLoad(c)
                /\ Exists(Marker) => Loadable(fs)
                /\ new = NewEntries(IF Exists(Marker) THEN Entries ELSE {}, Entry(cl[c].job))
                /\ cl'[c].todo = <<MarkerFile, IndexFile(new)>>
      BY <1>7, IndexMoves
    <2>2. ASSUME IndexPlan(cl[c].todo, new) PROVE IndexTodo(c) /\ Ready(c, new)
      BY <1>0, <2>1, <2>2 DEF IndexTodo
    <2>3. CASE cl[c].todo = <<MarkerFile, IndexFile(new)>> /\ Marker \in DOMAIN fs'
      BY <2>1, <2>2, <2>3 DEF IndexPlan
    <2>4. CASE cl'[c].todo = cl[c].todo
      BY <1>7, <2>1, <2>2, <2>4
    <2> QED BY <2>1, <2>3, <2>4
  <1>8. ASSUME NEW c \in Clients, PutLoad(c), cl'[c].pc \in Pushing
        PROVE  published' = published /\ \A x \in Clients \ {c} : ~IndexTodo(x)
    <2>1. ~Fail(c)
      <3>1. ASSUME Fail(c) PROVE FALSE
        BY <1>8, <3>1, FailFacts DEF Idle, Pushing
      <3> QED BY <3>1
    <2>2. /\ raced' = (raced \/ \E x \in Clients \ {c} :
                         /\ cl[x].pc \in {"check", "open", "write", "replace"}
                         /\ cl[x].todo[Len(cl[x].todo)].path = Index)
          /\ published' = published
      BY <1>8, <2>1 DEF PutLoad
    <2>3. ASSUME NEW x \in Clients, IndexTodo(x)
          PROVE  /\ cl[x].pc \in {"check", "open", "write", "replace"}
                 /\ cl[x].todo[Len(cl[x].todo)].path = Index
      <3>1. PICK new : IndexPlan(cl[x].todo, new)
        BY <2>3 DEF IndexTodo
      <3>2. PICK s : LayoutPlan(cl[x].pc, cl[x].job, cl[x].todo, s)
        BY <2>3 DEF IndexTodo, TodoInv
      <3>3. cl[x].todo # <<>> /\ cl[x].todo[Len(cl[x].todo)] = IndexFile(new)
        BY <3>1 DEF IndexPlan
      <3>4. cl[x].pc \in {"check", "open", "write", "replace"}
        BY <3>2, <3>3 DEF LayoutPlan
      <3> QED BY <3>3, <3>4, IndexPath
    <2> QED BY <2>2, <2>3
  <1>9. ASSUME NEW c \in Clients, NEW new, cl'[c].pc \in Pushing, IndexPlan(cl'[c].todo, new)
        PROVE  Ready(c, new)'
    <2>1. /\ cl'[c].job = cl[c].job /\ cl[c].pc \in Pushing
          /\ \/ /\ IndexPlan(cl[c].todo, new) /\ IndexTodo(c) /\ Ready(c, new)
                /\ cl'[c].todo = cl[c].todo \/ Marker \in DOMAIN fs'
             \/ /\ PutLoad(c)
                /\ Exists(Marker) => Loadable(fs)
                /\ new = NewEntries(IF Exists(Marker) THEN Entries ELSE {}, Entry(cl[c].job))
                /\ cl'[c].todo = <<MarkerFile, IndexFile(new)>>
      BY <1>7, <1>9
    <2> DEFINE Goal == /\ Only(cl[c].job, new) /\ \A j \in published' : Only(j, new)
                       /\ Marker \in DOMAIN fs => fs[Marker].c = MarkerBytes
                       /\ cl'[c].todo = <<IndexFile(new)>> => Marker \in DOMAIN fs'
    <2>2. ASSUME IndexPlan(cl[c].todo, new), IndexTodo(c), Ready(c, new),
                 cl'[c].todo = cl[c].todo \/ Marker \in DOMAIN fs'
          PROVE  Goal
      <3>1. published' = published
        <4>1. ASSUME published' # published PROVE FALSE
          <5>1. PICK d \in Clients : cl'[d] = Idle /\ IndexTodo(d)
            BY <1>4, <4>1
          <5>2. d = c
            BY <1>0, <2>2, <5>1
          <5> QED BY <1>9, <5>1, <5>2 DEF Idle, Pushing
        <4> QED BY <4>1
      <3> QED BY <1>1, <2>2, <3>1 DEF Ready
    <2>3. ASSUME PutLoad(c), Exists(Marker) => Loadable(fs),
                 new = NewEntries(IF Exists(Marker) THEN Entries ELSE {}, Entry(cl[c].job)),
                 cl'[c].todo = <<MarkerFile, IndexFile(new)>>
          PROVE  Goal
      <3>1. cl[c].job \in Pushes
        BY <2>1, PushShape
      <3>2. published' = published
        BY <1>8, <1>9, <2>3
      <3>3. ASSUME NEW j \in published PROVE Only(j, new)
        <4>1. Exists(Marker) /\ Only(j, Entries)
          BY <1>0 DEF Loadable, Exists
        <4> QED BY <2>3, <3>1, <4>1, OnlyNew
      <3>4. Only(cl[c].job, new)
        BY <2>3, <3>1, OnlyNew
      <3>5. Marker \in DOMAIN fs => fs[Marker].c = MarkerBytes
        BY <2>3 DEF Loadable, Exists
      <3>6. cl'[c].todo # <<IndexFile(new)>>
        BY <2>3
      <3> QED BY <3>2, <3>3, <3>4, <3>5, <3>6
    <2>4. Goal
      BY <2>1, <2>2, <2>3
    <2>5. Marker \in DOMAIN fs' => fs'[Marker].c = MarkerBytes
      BY <1>2, <2>4
    <2>6. \A j : Only(j, new)' <=> Only(j, new)
      BY DEF Only, Pushes, Label, Entry
    <2> QED BY <2>1, <2>4, <2>5, <2>6 DEF Ready
  <1>10. ASSUME NEW c \in Clients, NEW d \in Clients, IndexTodo(c)', IndexTodo(d)' PROVE c = d
    <2>1. ASSUME NEW x \in Clients, IndexTodo(x)'
          PROVE  IndexTodo(x) \/ (PutLoad(x) /\ cl'[x].pc \in Pushing)
      <3>1. PICK new : cl'[x].pc \in Pushing /\ IndexPlan(cl'[x].todo, new)
        BY <2>1 DEF IndexTodo, IndexPlan
      <3> QED BY <1>7, <3>1
    <2>2. ASSUME NEW x \in Clients, NEW y \in Clients, x # y, PutLoad(x), cl'[x].pc \in Pushing,
                 IndexTodo(y)'
          PROVE  FALSE
      <3>1. cl'[y] = cl[y]
        BY <2>2, OneMoves DEF PushStep
      <3>2. IndexTodo(y)
        BY <2>2, <3>1 DEF IndexTodo, IndexPlan
      <3> QED BY <1>8, <2>2, <3>2
    <2> QED BY <1>0, <1>10, <2>1, <2>2
  <1>11. \A j, es : Only(j, es)' <=> Only(j, es)
    BY DEF Only, Pushes, Label, Entry
  <1>12. (\A j \in published : Only(j, Entries))'
    BY <1>6, <1>11 DEF Entries, Only
  <1> QED BY <1>5, <1>9, <1>10, <1>12 DEF PubLayout, IndexPlan

-----------------------------------------------------------------------------
(* The tags of a registry, and the theorem.                                *)

TagHolds(j) ==
  LET p == Tag(j.ref.name, TagOf(j.ref))
  IN  p \in DOMAIN fs /\ \E k \in Pushes : Label(k) = Label(j) /\ fs[p].c = ManifestOf(k)

PubRegistry ==
  kind = "registry" /\ ~raced /\ rot # "has" => \A j \in published : TagHolds(j)

LEMMA PubRegistryStep ==
  ASSUME ShapeInv, TodoInv, HandleInv, TempInv, PubRegistry, Next PROVE PubRegistry'
  <1> SUFFICES ASSUME kind = "registry", ~raced', rot' # "has", NEW j \in published'
               PROVE  TagHolds(j)'
    BY FilesStay DEF PubRegistry
  <1>0. /\ ~raced /\ rot # "has"
        /\ \A i \in published : TagHolds(i)
    BY RacedStays, RotStays DEF PubRegistry
  <1> DEFINE p == Tag(j.ref.name, TagOf(j.ref))
             Goal == p \in DOMAIN fs' /\ \E k \in Pushes : Label(k) = Label(j) /\ fs'[p].c = ManifestOf(k)
  <1>1. p[1] = "tag" /\ \A n, t : Blob(n, t)[1] = "blob"
    BY DEF Tag, Blob
  <1>2. ASSUME NEW i, p = Tag(i.ref.name, TagOf(i.ref)) PROVE Label(i) = Label(j)
    BY <1>2 DEF Tag, Label
  <1> HIDE DEF p
  <1>3. CASE j \in published
    <2>1. p \in DOMAIN fs /\ \E k \in Pushes : Label(k) = Label(j) /\ fs[p].c = ManifestOf(k)
      BY <1>0, <1>3 DEF TagHolds, p
    <2>2. p \in DOMAIN fs'
      BY <1>1, <2>1, FilesStay DEF StoreKept
    <2>3. StoreChange(p)
      BY <1>0, <1>1, <2>2, StoreChanges DEF StoreNames
    <2>4. ASSUME NEW c \in Clients, cl[c].pc \in {"replace", "post"} PROVE p # Todo(c).path
      BY <1>1, <2>4, TodoPath
    <2>5. ASSUME NEW c \in Clients, cl[c].pc = "put", fs'[p].c = ManifestOf(cl[c].job),
                 p \in {Tag(cl[c].job.ref.name, TagOf(cl[c].job.ref)),
                        Blob(cl[c].job.ref.name, Sha256(fs'[p].c))}
          PROVE  Goal
      <3>1. cl[c].job \in Pushes
        BY <2>5, PushShape DEF Pushing
      <3>2. p = Tag(cl[c].job.ref.name, TagOf(cl[c].job.ref))
        BY <1>1, <2>5
      <3> QED BY <1>2, <2>2, <2>5, <3>1, <3>2
    <2>6. CASE fs'[p].c = fs[p].c
      <3>1. Goal
        BY <2>1, <2>2, <2>6
      <3> QED BY <3>1 DEF TagHolds, Tag, Label, ManifestOf, Pushes, p
    <2>7. Goal
      BY <1>0, <1>1, <2>1, <2>2, <2>3, <2>4, <2>5, <2>6 DEF StoreChange
    <2> QED BY <2>7 DEF TagHolds, Tag, Label, ManifestOf, Pushes, p
  <1>4. CASE j \notin published
    <2>1. PICK c \in Clients :
            /\ cl[c].pc \in Pushing /\ published' = published \cup {cl[c].job}
            /\ fs' = Tagged(cl[c].job)
      <3>1. kind # "layout"
        OBVIOUS
      <3> QED BY <1>0, <1>4, <3>1, PubMoves
    <2>2. j = cl[c].job /\ j \in Pushes
      BY <1>4, <2>1, PushShape
    <2>3. p # Blob(j.ref.name, Sha256(ManifestOf(j)))
      BY <1>1
    <2>4. p \in DOMAIN fs' /\ fs'[p] = File(ManifestOf(j), {})
      BY <2>1, <2>2, <2>3 DEF Tagged, Put, With, p
    <2>5. fs'[p].c = ManifestOf(j)
      BY <2>4, FileParts
    <2>6. Goal
      BY <2>2, <2>4, <2>5
    <2> QED BY <2>6 DEF TagHolds, Tag, Label, ManifestOf, Pushes, p
  <1> QED BY <1>3, <1>4

\* A manifest some push put there, whose blobs are there, can be pulled.
LEMMA ClosedPullable ==
  ASSUME NEW k \in Pushes, k.img = k.reread, NEW ref, ref.name = k.ref.name,
         AddrInv, ~raced, rot # "has", Reaches(ref.name, ManifestOf(k)) \subseteq DOMAIN fs
  PROVE  Pullable(ref, ManifestOf(k))
  <1> DEFINE m == ManifestOf(k)
             cfg == ConfigOf(k)
             eth == EthBytes(k.reread)
  <1>1. ManifestOk(m) /\ m[2].config = Desc("config", cfg) /\ m[2].layers[1] = LayerOf(k)
    BY DEF ManifestOk, ManifestOf, ManifestDocument, Desc, LayerOf
  <1>2. /\ Desc("config", cfg).digest = Sha256(cfg) /\ Desc("config", cfg).size = SizeOf(cfg)
        /\ LayerOf(k).digest = Sha256(eth) /\ LayerOf(k).size = SizeOf(eth)
    BY DEF Desc, LayerOf
  <1>3. ASSUME NEW b, Blob(ref.name, Sha256(b)) \in DOMAIN fs PROVE b \in ReadBlob(ref.name, Sha256(b))
    <2>1. /\ Blob(ref.name, Sha256(b))[1] = "blob" /\ Blob(ref.name, Sha256(b))[2] = Sha256(b)
      BY DEF Blob
    <2>2. Sha256(fs[Blob(ref.name, Sha256(b))].c) = Sha256(b)
      BY <1>3, <2>1 DEF AddrInv
    <2>3. fs[Blob(ref.name, Sha256(b))].c = b
      BY <2>2, Digests
    <2> QED BY <1>3, <2>2, <2>3 DEF ReadBlob, Exists
  <1>4. Blob(ref.name, Sha256(cfg)) \in DOMAIN fs /\ Blob(ref.name, Sha256(eth)) \in DOMAIN fs
    BY <1>1, <1>2 DEF Reaches
  <1>5. /\ cfg \in ReadBlob(ref.name, m[2].config.digest)
        /\ eth \in ReadBlob(ref.name, m[2].layers[1].digest)
    BY <1>1, <1>2, <1>3, <1>4
  <1>6. cfg[1] = "config" /\ cfg[2].artifact = LayerOf(k)
    BY DEF ConfigOf, ConfigDocument
  <1>7. ConfigOk(cfg, m) /\ VerifyDigest(eth, m[2].layers[1])
    BY <1>1, <1>2, <1>6 DEF ConfigOk, VerifyDigest
  <1>8. CheckConfigMatches(Images[eth[2]], cfg)
    <2>1. eth[2] = k.img
      BY DEF EthBytes
    <2> QED BY <2>1 DEF CheckConfigMatches, ConfigOf, ConfigDocument
  <1> QED BY <1>1, <1>5, <1>7, <1>8 DEF Pullable

\* The blobs of the store found at the start have the digests they are named by.
StartsAddressed ==
  \A s \in Scenarios : \A p \in DOMAIN s.fs : p[1] = "blob" => Sha256(s.fs[p].c) = p[2]

PubInv == AddrInv /\ PubJobs /\ PubLayout /\ PubRegistry

\* A push that reported success can be pulled, for any number of clients and images,
\* whoever dies where: its tag leads to it or to a later push under the same tag, and
\* that manifest's config and layer are there, intact, and describe the image.  It is
\* lost in the ways PushThenPull names and in no other: the index that a push computes
\* keeps every label it found, and nobody else computes one until it is in place
\* unless raced says so.
THEOREM PushesArePullable ==
  ASSUME StartsClosed, StartsAddressed PROVE Spec => []PushThenPull
  <1> DEFINE J == PubInv \/ raced
  <1>1. Init => TempInv /\ PubInv
    <2> SUFFICES ASSUME Init PROVE TempInv /\ PubInv
      OBVIOUS
    <2>1. PICK s \in Scenarios : kind = s.kind /\ fs = s.fs
      BY DEF Init
    <2>2. published = {} /\ \A c \in Clients : cl[c].pc = "idle"
      BY DEF Init, Idle
    <2>3. TempInv
      BY <2>2 DEF TempInv, Writing
    <2>4. AddrInv
      BY <2>1 DEF AddrInv, StartsAddressed
    <2>5. PubJobs /\ PubLayout /\ PubRegistry
      BY <2>2 DEF PubJobs, PubLayout, PubRegistry, Pushing, IndexTodo
    <2> QED BY <2>3, <2>4, <2>5 DEF PubInv
  <1>2. ShapeInv /\ HoldInv /\ TempInv /\ J /\ [Next]_vars => TempInv' /\ J'
    <2>1. ASSUME ShapeInv, HoldInv, TempInv, J, Next PROVE TempInv' /\ J'
      <3>1. TodoInv /\ HandleInv
        BY <2>1 DEF HoldInv
      <3>2. TempInv'
        BY <2>1, <3>1, TempStep
      <3>3. ASSUME ~raced' PROVE PubInv'
        <4>1. ~raced
          BY <2>1, <3>3, RacedStays
        <4>2. PubInv
          BY <2>1, <4>1
        <4>3. AddrInv'
          BY <2>1, <3>1, <4>2, AddrStep DEF PubInv
        <4>4. PubJobs'
          BY <2>1, <3>1, <4>1, <4>2, PubJobsStep DEF PubInv
        <4>5. PubLayout'
          BY <2>1, <3>1, <4>2, PubLayoutStep DEF PubInv
        <4>6. PubRegistry'
          BY <2>1, <3>1, <4>2, PubRegistryStep DEF PubInv
        <4> QED BY <4>3, <4>4, <4>5, <4>6 DEF PubInv
      <3> QED BY <3>2, <3>3
    <2>2. ASSUME TempInv, J, UNCHANGED vars PROVE TempInv' /\ J'
      <3>1. TempInv'
        BY <2>2 DEF TempInv, TempOwner, Todo, vars
      <3>2. AddrInv => AddrInv'
        BY <2>2 DEF AddrInv, vars
      <3>3. PubJobs => PubJobs'
        BY <2>2 DEF PubJobs, PushRefused, Pushes, vars
      <3>4. PubLayout => PubLayout'
        <4>1. UNCHANGED <<kind, fs, cl, raced, published>>
          BY <2>2 DEF vars
        <4>2. \A c, new : Ready(c, new) => Ready(c, new)'
          BY <4>1 DEF Ready, Only
        <4>3. \A c : IndexTodo(c)' => IndexTodo(c)
          BY <4>1 DEF IndexTodo, IndexPlan
        <4>4. Loadable(fs) => Loadable(fs)'
          BY <4>1
        <4>5. \A j : Only(j, Entries) => Only(j, Entries)'
          BY <4>1 DEF Only, Entries
        <4>6. \A c, new : (cl[c].pc \in Pushing /\ IndexPlan(cl[c].todo, new))'
                            => cl[c].pc \in Pushing /\ IndexPlan(cl[c].todo, new)
          BY <4>1 DEF IndexPlan
        <4> QED BY <4>1, <4>2, <4>3, <4>4, <4>5, <4>6 DEF PubLayout
      <3>5. PubRegistry => PubRegistry'
        BY <2>2 DEF PubRegistry, TagHolds, Tag, Label, ManifestOf, Pushes, vars
      <3>6. raced' = raced
        BY <2>2 DEF vars
      <3> QED BY <2>2, <3>1, <3>2, <3>3, <3>4, <3>5, <3>6 DEF PubInv
    <2> QED BY <2>1, <2>2
  <1>3. ShapeInv /\ J /\ TagClosed => PushThenPull
    <2> SUFFICES ASSUME ShapeInv, PubInv, TagClosed, NEW j \in published,
                        ~raced, rot # "has", deferred = {}, ~Unowned(TagOf(j.ref))
                 PROVE  \E m \in GetManifest(j.ref) : \E k \in Pushes :
                          /\ Label(k) = Label(j) /\ m = ManifestOf(k)
                          /\ k.img = k.reread => Pullable(j.ref, m)
      BY DEF PushThenPull
    <2>1. j \in Pushes /\ j.ref.digest = NoDigest
      BY DEF PubInv, PubJobs, PushRefused
    <2>2. \A k : Label(k) = Label(j) => k.ref.name = j.ref.name /\ TagOf(k.ref) = TagOf(j.ref)
      BY DEF Label
    <2>3. \A k : ManifestOk(ManifestOf(k))
      BY DEF ManifestOk, ManifestOf, ManifestDocument, Desc, LayerOf
    <2>4. CASE kind = "registry"
      <3> DEFINE p == Tag(j.ref.name, TagOf(j.ref))
      <3>1. PICK k \in Pushes : p \in DOMAIN fs /\ Label(k) = Label(j) /\ fs[p].c = ManifestOf(k)
        BY <2>4 DEF PubInv, PubRegistry, TagHolds
      <3>2. p[1] = "tag" /\ p[3] = j.ref.name
        BY DEF Tag
      <3>3. Reaches(j.ref.name, ManifestOf(k)) \subseteq DOMAIN fs
        BY <2>3, <2>4, <3>1, <3>2 DEF TagClosed
      <3>4. ManifestOf(k) \in GetManifest(j.ref)
        BY <2>1, <2>4, <3>1 DEF GetManifest
      <3>5. k.img = k.reread => Pullable(j.ref, ManifestOf(k))
        BY <2>2, <3>1, <3>3, ClosedPullable DEF PubInv
      <3> QED BY <3>1, <3>4, <3>5
    <2>5. CASE kind = "layout"
      <3>1. Loadable(fs) /\ Only(j, Entries)
        BY <2>5 DEF PubInv, PubLayout
      <3>2. \A e \in Matching(j.ref) : e \in Entries /\ e.tag = TagOf(j.ref) /\ e.owner = j.ref.name
        BY <2>5, <3>1 DEF Matching, Unowned
      <3>3. PICK k0 \in Pushes : Label(k0) = Label(j) /\ Entry(k0) \in Entries
        BY <3>1 DEF Only
      <3>4. Entry(k0) \in Matching(j.ref)
        BY <2>2, <3>3 DEF Matching, Entry
      <3>5. j.ref.name # None
        BY <2>1 DEF Pushes
      <3>6. PICK e : e = FirstMatch(j.ref)
        OBVIOUS
      <3>7. e \in Matching(j.ref)
        BY <3>2, <3>4, <3>5, <3>6 DEF FirstMatch
      <3>8. PICK k \in Pushes : e = Entry(k)
        BY <3>1, <3>2, <3>7 DEF Only
      <3>9. /\ e.tag = TagOf(k.ref) /\ e.owner = k.ref.name /\ e.desc.digest = Sha256(ManifestOf(k))
        BY <3>8 DEF Entry, Desc
      <3>10. k.ref.name = j.ref.name /\ Label(k) = Label(j)
        BY <3>2, <3>7, <3>9 DEF Label
      <3> DEFINE p == Blob(j.ref.name, Sha256(ManifestOf(k)))
      <3>11. /\ p \in DOMAIN fs
             /\ ManifestOk(fs[p].c) => Reaches(j.ref.name, fs[p].c) \subseteq DOMAIN fs
        BY <2>5, <3>1, <3>2, <3>7, <3>9, <3>10 DEF TagClosed, Exists
      <3>12. Sha256(fs[p].c) = Sha256(ManifestOf(k))
        <4>1. p[1] = "blob" /\ p[2] = Sha256(ManifestOf(k))
          BY DEF Blob
        <4> QED BY <3>11, <4>1 DEF PubInv, AddrInv
      <3>13. fs[p].c = ManifestOf(k)
        BY <3>12, Digests
      <3>14. Reaches(j.ref.name, ManifestOf(k)) \subseteq DOMAIN fs
        BY <2>3, <3>11, <3>13
      <3>15. ManifestOf(k) \in ReadBlob(j.ref.name, Sha256(ManifestOf(k)))
        BY <3>11, <3>12, <3>13 DEF ReadBlob, Exists
      <3>16. ManifestOf(k) \in GetManifest(j.ref)
        BY <2>1, <2>5, <3>1, <3>4, <3>6, <3>9, <3>15 DEF GetManifest
      <3>17. k.img = k.reread => Pullable(j.ref, ManifestOf(k))
        BY <3>10, <3>14, ClosedPullable DEF PubInv
      <3> QED BY <3>10, <3>16, <3>17
    <2> QED BY <2>4, <2>5 DEF ShapeInv
  <1>4. Init => TempInv /\ J
    BY <1>1
  <1> QED BY <1>2, <1>3, <1>4, HoldAlways, TagsAreClosed, PTL DEF Spec

=============================================================================
