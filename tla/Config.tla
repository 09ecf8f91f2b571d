------------------------------- MODULE Config -------------------------------
(***************************************************************************)
(* The configuration (internal/config): from the file, or the body of a    *)
(* reload request, to the validated record the process is built and        *)
(* reloaded from, and the comparison of two such records that decides a    *)
(* reload (diff.go).                                                       *)
(*                                                                         *)
(* A value stands for what the code tells apart in it. The values of a     *)
(* setting are numbers: 1 is its default, and 0 is every value that        *)
(* Validate rejects (a duration that is not positive, an address that is   *)
(* empty or malformed), or the zero of a boolean. A name or a URL that     *)
(* Validate rejects is Malformed. A backend URL may refer to a variable of *)
(* the environment, which decoding replaces by its value.                  *)
(***************************************************************************)
EXTENDS Naturals, FiniteSets, Sequences, SequencesExt

CONSTANTS Names,       \* the well-formed backend names
          URLs,        \* the well-formed backend URLs
          Vars,        \* references to variables in a backend URL
          Env,         \* the environment: each variable's URL, or Unset
          Unset, Malformed

ASSUME EnvAssumption == Env \in [Vars -> URLs \union {Unset, Malformed}]
ASSUME MalformedAssumption ==
  /\ Unset \notin URLs /\ Malformed \notin Names \union URLs
  /\ Vars \intersect (URLs \union {Unset, Malformed}) = {}

Algorithms == {"round_robin", "least_conn", "consistent_hash", "p2c_ewma"}

\* The sections of a config and their fields. A file that omits a field, or the
\* whole section, does not have the field in its settings.
SectionFields ==
  [health          |-> {"probe_interval", "probe_timeout"},
   circuit         |-> {"cooldown"},
   metrics         |-> {"metrics_listen"},
   health_endpoint |-> {"health_listen"},
   reload          |-> {"drain_window"},
   server          |-> {"read_timeout", "idle_timeout"},
   transport       |-> {"force_http2", "tls_skip_verify", "dial_timeout",
                        "response_header_timeout", "max_idle_conns_per_host",
                        "idle_conn_timeout"}]

Settings == UNION {SectionFields[s] : s \in DOMAIN SectionFields}

Booleans == {"force_http2", "tls_skip_verify"}

Default(k) == IF k = "tls_skip_verify" THEN 0 ELSE 1

\* A file that parses. tls is empty when there is no tls: block and otherwise
\* the two paths, 0 for one that is empty; algorithm is "" when it is omitted.
IsFile(f) ==
  /\ DOMAIN f = {"listen", "tls", "h2c", "algorithm", "settings", "backends"}
  /\ f.listen \in Nat /\ f.tls \in {<<>>} \union (Nat \X Nat) /\ f.h2c \in BOOLEAN
  /\ f.algorithm \in STRING
  /\ DOMAIN f.settings \subseteq Settings
  /\ f.backends \in Seq([name : Names \union {Malformed},
                         url  : URLs \union Vars \union {Malformed}])

----------------------------------------------------------------------------
(* Load and Parse: the strict decode both share.                           *)

Expand(url) == IF url \in Vars THEN Env[url] ELSE url

\* An unset or empty variable fails the load.
Decodes(f) == \A b \in Range(f.backends) : Expand(b.url) # Unset

Decode(f) ==
  [f EXCEPT !.backends =
     [i \in DOMAIN @ |-> [name |-> @[i].name, url |-> Expand(@[i].url)]]]

----------------------------------------------------------------------------
(* Validate: it normalizes, then checks.                                   *)

Normalize(c) ==
  [c EXCEPT !.algorithm = IF @ = "" THEN "round_robin" ELSE @,
            !.settings = [k \in Settings |-> IF k \in DOMAIN @ THEN @[k] ELSE Default(k)]]

ValidListener(c) ==
  /\ c.listen # 0
  /\ c.tls # <<>> => ~c.h2c /\ c.tls[1] # 0 /\ c.tls[2] # 0

\* validateBackendName and validateBackendURL.
WellFormed(b) == b.name # Malformed /\ b.url # Malformed

ValidBackends(c) ==
  /\ c.backends # <<>>
  /\ \A b \in Range(c.backends) : WellFormed(b)
  /\ \A i, j \in DOMAIN c.backends :
       c.backends[i].name = c.backends[j].name => i = j

ValidSettings(c) == \A k \in Settings \ Booleans : c.settings[k] # 0

Valid(c) ==
  /\ ValidListener(c) /\ ValidBackends(c)
  /\ c.algorithm \in Algorithms
  /\ ValidSettings(c)

\* What a file that decodes and validates says.
Resolved(f) == Normalize(Decode(f))

Accepted(f) == Decodes(f) /\ Valid(Resolved(f))

----------------------------------------------------------------------------
(* The comparison of two validated configs.                                *)

\* Mutation: a config without a tls: block is taken to agree with any other.
TLSEqualLax(a, b) == a = <<>> \/ b = <<>> \/ a = b

\* tlsConfigEqual
TLSEqual(a, b) == a = b

NonBackendChanges(old, new) ==
  {s \in {"listen", "h2c"} : old[s] # new[s]}
    \union {s \in {"tls"} : ~TLSEqual(old.tls, new.tls)}
    \union {s \in DOMAIN SectionFields :
              \E k \in SectionFields[s] : old.settings[k] # new.settings[k]}

\* Mutation: backends are compared by name.
DiffByName(old, new) ==
  LET Has(c, b) == \E d \in Range(c.backends) : d.name = b.name
  IN [added   |-> {b \in Range(new.backends) : ~Has(old, b)},
      removed |-> {b \in Range(old.backends) : ~Has(new, b)}]

\* By identity, the name with its URL: a name whose URL changes is one removal
\* and one addition.
DiffBackends(old, new) ==
  [added   |-> Range(new.backends) \ Range(old.backends),
   removed |-> Range(old.backends) \ Range(new.backends)]
=============================================================================
