----------------------------- MODULE MCProcess -----------------------------
(* The files of the model check: the startup file, and one for each way a  *)
(* reload can differ from it.                                              *)
EXTENDS Process

CONSTANTS nameA, nameB,     \* names
          urlU, urlV,       \* URLs
          unsetVar, setVar  \* variables of the environment: unsetVar is unset

MCEnv == [x \in Vars |-> IF x = unsetVar THEN Unset ELSE urlV]

At(name, url) == [name |-> name, url |-> url]

MCStartFile ==
  [listen |-> 1, tls |-> <<>>, h2c |-> FALSE, algorithm |-> "",
   settings |-> [k \in {"force_http2", "drain_window"} |-> 1],
   backends |-> <<At(nameA, urlU), At(nameB, urlV)>>]

Setting(k, x) == [MCStartFile EXCEPT !.settings = (k :> x) @@ @]

MCTaken ==
  { \* reordered, with the defaults written out, and one moved to the URL of a variable
    [MCStartFile EXCEPT !.backends = <<At(nameB, urlV), At(nameA, setVar)>>, !.algorithm = "round_robin",
                        !.settings = [k \in Settings |-> Default(k)]],
    \* one removed, and another algorithm
    [MCStartFile EXCEPT !.backends = <<At(nameB, urlV)>>, !.algorithm = "p2c_ewma"] }

MCRefused ==
  { [MCStartFile EXCEPT !.listen = 2], [MCStartFile EXCEPT !.listen = 0],
    [MCStartFile EXCEPT !.tls = <<1, 1>>], [MCStartFile EXCEPT !.tls = <<1, 0>>],
    [MCStartFile EXCEPT !.h2c = TRUE], [MCStartFile EXCEPT !.h2c = TRUE, !.tls = <<1, 1>>],
    Setting("cooldown", 2), Setting("cooldown", 0),
    Setting("force_http2", 0), Setting("tls_skip_verify", 1), Setting("health_listen", 2),
    [MCStartFile EXCEPT !.algorithm = "ip_hash"],
    [MCStartFile EXCEPT !.backends = <<>>],
    [MCStartFile EXCEPT !.backends = <<At(nameA, urlU), At(nameA, urlU)>>],
    [MCStartFile EXCEPT !.backends = <<At(Malformed, urlU)>>],
    [MCStartFile EXCEPT !.backends = <<At(nameA, Malformed)>>],
    [MCStartFile EXCEPT !.backends = <<At(nameA, unsetVar)>>] }

MCFiles == {MCStartFile} \union MCTaken \union MCRefused
=============================================================================
