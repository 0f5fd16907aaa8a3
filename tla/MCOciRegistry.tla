--------------------------- MODULE MCOciRegistry ----------------------------
(* Two client processes, two repositories sharing a tag, a signed, an       *)
(* unsigned and a corrupt image, and stores that are empty or that another  *)
(* tool has written to.                                                     *)
EXTENDS OciRegistry, TLC

NoYaml == [n \in {} |-> EmptyCaps]
Img(name, w, key) ==
  CHOOSE e \in Pack(name, [t |-> <<w>>], NoYaml, "t", key) : TRUE
MCImages == [A |-> Img("app", 1, "k1"), B |-> Img("app", 2, "none"),
             L |-> Img("lib", 3, "none"),
             Bad |-> [Img("lib", 3, "none") EXCEPT !.members.t = <<9>>]]

Ref(name, tag, dig) == [wf |-> TRUE, name |-> name, tag |-> tag, digest |-> dig]
App == Ref("app", None, NoDigest)
Lib == Ref("lib", "latest", NoDigest)

PushJob(img, reread, ref, keys) ==
  [cmd |-> "push", img |-> img, reread |-> reread, ref |-> ref, keys |-> keys]
PullJob(ref, keys, allow) ==
  [cmd |-> "pull", ref |-> ref, keys |-> keys, allow |-> allow, dest |-> "d"]

PushA == PushJob("A", "A", App, {"k1"})
PushL == PushJob("L", "L", Lib, {})
MCJobs ==
  {PushA, PushL, PushJob("Bad", "Bad", Lib, {}), PushJob("B", "A", App, {}),
   PullJob(App, {"k1"}, FALSE), PullJob(Lib, {"k1"}, TRUE),
   PullJob(Ref("app", None, Sha256(ManifestOf(PushA))), {"k1"}, FALSE),
   [cmd |-> "inspect", ref |-> App, dest |-> "d"]}

\* a layout another tool wrote: its one entry has no owner
ForeignLayout(m, contents) ==
  [p \in {Marker, Index} \cup {<<"blob", Sha256(b)>> : b \in contents \cup {m}} |->
     IF p = Marker THEN File(MarkerBytes, {})
     ELSE IF p = Index
          THEN File(IndexBytes({[tag |-> "latest", owner |-> None,
                                 desc |-> Desc("manifest", m)]}), {})
     ELSE CHOOSE f \in {File(b, {}) : b \in contents \cup {m}} :
            Sha256(f.c) = p[2]]

LayerA == Desc("eth", EthBytes("A"))
LayerB == Desc("eth", EthBytes("B"))
CfgB == ConfigDocument("B", LayerB)
Swapped == ManifestDocument(Desc("config", CfgB), <<LayerA>>)
TwoLayers == ManifestDocument(Desc("config", CfgB), <<LayerB, LayerA>>)
Plain == ManifestDocument(Desc("config", CfgB), <<LayerB>>)

Empty == [p \in {} |-> File(Torn, {})]
MCScenarios ==
  [kind : {"layout", "registry"}, fs : {Empty}, jobs : {3}, rot : {"no"}] \cup
  [kind : {"registry"}, fs : {Empty}, jobs : {3}, rot : {"may"}] \cup
  [kind : {"layout"}, jobs : {2}, rot : {"may"},
   fs : {Empty} \cup {ForeignLayout(m, {CfgB, EthBytes("A"), EthBytes("B")})
                       : m \in {Swapped, TwoLayers, Plain}}]

ClientSymmetry == Permutations(Clients)
=============================================================================
