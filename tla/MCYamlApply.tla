----------------------------- MODULE MCYamlApply -----------------------------
(* The YAML editor of one ConfigMap for TLC.                                 *)
EXTENDS YamlApply, TLC

Config(name) == [version |-> "v1", kind |-> "ConfigMap", name |-> name, namespaced |-> TRUE,
                 namespace |-> "x"]
OneObject == {Config("a")}
TwoDrafts == {[Manifest(Config("a")) EXCEPT !.body = "new"],
              [Manifest(Config("a")) EXCEPT !.body = "other"]}
=============================================================================
