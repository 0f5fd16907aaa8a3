------------------------------ MODULE MCEthCtl ------------------------------
(* Instances of EthCtl for TLC: a device of two regions and eight .eth files. *)
EXTENDS EthCtl

Caps(gs) == [EmptyCaps EXCEPT !.io = [i \in DOMAIN gs |-> [group |-> gs[i], dir |-> "out"]]]
File(name, words, caps, k) ==
  CHOOSE e \in Pack(name, [efab |-> words], [c \in {CapsYaml} |-> caps], "efab", k) : TRUE

Two == File("two", <<1, 2>>, Caps(<<0>>), "k1")
MCEths == [two    |-> Two,
           one    |-> File("one", <<3>>, EmptyCaps, "k1"),
           alien  |-> File("alien", <<4, 5>>, EmptyCaps, "k2"),
           plain  |-> File("plain", <<6>>, EmptyCaps, "none"),
           greedy |-> File("greedy", <<7>>, Caps(<<9>>), "k1"),
           bare   |-> CHOOSE e \in Pack("bare", [ice |-> <<8>>], [c \in {} |-> <<>>], "efab", "k1") : TRUE,
           void   |-> File("void", <<>>, EmptyCaps, "k1"),
           torn   |-> [Two EXCEPT !.members.efab = <<1>>]]

Req(cm, f, r) == [NoRequest EXCEPT !.cmd = cm, !.file = f, !.region = r]
Bmc == {Req("run", "two", EFP_REGION_AUTO), Req("run", "one", 0), Req("run", "alien", 0),
        [Req("run", "plain", 0) EXCEPT !.allow = TRUE], Req("run", "plain", 0),
        [Req("run", "alien", 1) EXCEPT !.allow = TRUE],
        Req("run", "greedy", 0), Req("run", "torn", 0),
        Req("run", "bare", 0), Req("run", "void", 0),
        Req("run_packed", "two", 0), Req("run_packed", "two", 1),
        [Req("run_packed", "two", EFP_REGION_AUTO) EXCEPT !.colWords = 2],
        Req("stop", None, 0), Req("stop", None, 1), Req("stop", None, 7),
        Req("stop", None, EFP_REGION_AUTO),
        Req("restart", "two", 0), Req("restart", "one", 0), Req("abort", None, 0),
        NoRequest, [NoRequest EXCEPT !.transport = "mfsm"]}
Mfsm == {[Req("run", "two", 0) EXCEPT !.blankFirst = FALSE],
         [Req("run", "one", 1) EXCEPT !.win = 1], Req("run", "two", 0),
         [Req("run", "two", 1) EXCEPT !.win = 1],
         [Req("run", "one", 0) EXCEPT !.blankFirst = FALSE],
         [Req("run", "one", 0) EXCEPT !.transport = "efp"]}
MCRequests == Bmc \cup Mfsm
=============================================================================
