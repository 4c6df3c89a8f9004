---------------------------- MODULE ProviderConfig ----------------------------
(***************************************************************************)
(* The settings of both runtimes: what their loaders and validators accept *)
(* (runtime-a/config.go, runtime-b/{config,server}.go, NewHandler of       *)
(* internal/challengeproof/handler.go).                                    *)
(*                                                                         *)
(* Loading reads the environment and changes nothing, so it is one step,   *)
(* and its early returns are a conjunction.  Texts are records of what the *)
(* code tells apart; url.Parse, net.SplitHostPort, strconv and the loader  *)
(* of routerauth are modelled by what they return.  Helpers that the two   *)
(* packages hold in identical copies are defined once.                     *)
(***************************************************************************)
EXTENDS Integers

CONSTANTS
  Environments,       \* environments to load: the text of each setting, or Absent
  MinLimit, MaxLimit, \* contracts.RuntimeByteLimitMinimum and Maximum
  MaxPort,            \* 65535
  MaxInt,             \* the largest int64
  Absent              \* a variable that is not set

Runtimes == {"runtime-a", "runtime-b"}

\* The variables of a runtime without its prefix; "auth" stands for the four variables
\* of routerauth, which takes or refuses them as a whole.
Identifiers == {"agent", "instance", "target", "capability"}
Limits == {"response", "event"}
Settings == Identifiers \cup Limits \cup {"listen", "router", "token", "auth", "directory"}

\* A number in a text: how it is written, and its absolute value.
Number == [form: {"digits", "plus", "minus", "other"}, number: Nat]

\* Every text tells whether it is empty or padded with whitespace.  An identifier also
\* tells whether it is safe, that is, matches identifierPattern.
Word == {w \in [empty: BOOLEAN, padded: BOOLEAN, safe: BOOLEAN] :
           w.safe => ~w.empty /\ ~w.padded}

Limit == [empty: BOOLEAN, padded: BOOLEAN, form: {"digits", "plus", "minus", "other"}, number: Nat]

\* What net.SplitHostPort and url.Parse find in a text.  The port of a URL is not there,
\* or a bare colon, or digits, for url.Parse takes no other; an empty query or fragment
\* is a bare "?" or "#".
Address == [empty: BOOLEAN, padded: BOOLEAN, splits: BOOLEAN, host: BOOLEAN, port: Number]
URL == {u \in [empty: BOOLEAN, padded: BOOLEAN, parsed: BOOLEAN, host: BOOLEAN,
               scheme: {"http", "https", "other"}, portForm: {"none", "colon", "digits"},
               port: Number, user: BOOLEAN, path: BOOLEAN,
               query: {"none", "empty", "some"}, fragment: {"none", "empty", "some"}] :
          u.portForm = "digits" => u.port.form = "digits"}

\* A directory is usable when it is there, or can be made, and is one.
Directory == [empty: BOOLEAN, padded: BOOLEAN, cleanAbsolute: BOOLEAN, usable: BOOLEAN]

ASSUME LimitsAssumption == 1 <= MinLimit /\ MinLimit <= MaxLimit /\ MaxLimit <= MaxInt
ASSUME EnvironmentsAssumption ==
  \A e \in Environments :
    /\ \A s \in Identifiers \cup {"token", "auth"} : e[s] \in Word \cup {Absent}
    /\ \A s \in Limits : e[s] \in Limit \cup {Absent}
    /\ e["listen"] \in Address \cup {Absent}
    /\ e["router"] \in URL \cup {Absent}
    /\ e["directory"] \in Directory \cup {Absent}
ASSUME PortsAssumption == MaxPort \in 1 .. MaxInt

VARIABLES
  env,     \* the environment, the same for both runtimes
  outcome  \* what loading it came to in each runtime

vars == <<env, outcome>>

Init ==
  /\ env \in Environments
  /\ outcome = [r \in Runtimes |-> "unread"]

-----------------------------------------------------------------------------
(* Helpers of both packages.                                               *)

validateRequiredValue(v) == ~v.empty /\ ~v.padded

requiredValue(v) == v # Absent /\ validateRequiredValue(v)

\* strconv.ParseInt and Atoi: no number, or one out of range, is an error.
parses(n) == n.form # "other" /\ n.number <= MaxInt
valueOf(n) == IF n.form = "minus" THEN -n.number ELSE n.number

inLimits(number) == MinLimit <= number /\ number <= MaxLimit
isPort(number) == 1 <= number /\ number <= MaxPort

requiredLimit(v) ==
  /\ requiredValue(v)
  /\ v.form = "digits" /\ parses(v)
  /\ inLimits(valueOf(v))

\* routerauth.LoadConfig and Config.Validate (external).
routerAuth(v) == v # Absent /\ v.safe

-----------------------------------------------------------------------------
(* Runtime A.                                                              *)

\* The pattern admits neither an empty nor a padded text.
identifierPattern(v) == v.safe

requiredIdentifier(v) == requiredValue(v) /\ identifierPattern(v)

\* parsePort and the range that both its callers check.
parsePort(n) == n.form = "digits" /\ parses(n) /\ isPort(valueOf(n))

validateListenAddress(v) == v.splits /\ v.host /\ parsePort(v.port)

parsedHost(u) == u.host \/ u.portForm # "none"

validateRouterURLofA(u) ==
  /\ u.parsed /\ parsedHost(u) /\ u.scheme # "other" /\ ~u.user
  /\ u.query = "none" /\ u.fragment = "none" /\ ~u.path
  /\ u.host
  /\ u.portForm = "digits" => parsePort(u.port)
  /\ u.portForm # "colon"

\* Mutant: Validate leaves the second limit to the loader.
ValidateOneLimit(c) ==
  /\ validateRequiredValue(c["listen"]) /\ validateListenAddress(c["listen"])
  /\ \A s \in Identifiers : identifierPattern(c[s])
  /\ validateRequiredValue(c["router"]) /\ validateRouterURLofA(c["router"])
  /\ validateRequiredValue(c["token"])
  /\ inLimits(c["response"])
  /\ routerAuth(c["auth"])

\* Config.Validate; the limits of a Config are numbers.
ValidateA(c) ==
  /\ validateRequiredValue(c["listen"]) /\ validateListenAddress(c["listen"])
  /\ \A s \in Identifiers : identifierPattern(c[s])
  /\ validateRequiredValue(c["router"]) /\ validateRouterURLofA(c["router"])
  /\ validateRequiredValue(c["token"])
  /\ \A s \in Limits : inLimits(c[s])
  /\ routerAuth(c["auth"])

\* The Config made of an environment; the zero value stands for what is not set.
configOf(e) ==
  [s \in Settings |-> IF e[s] = Absent THEN [empty |-> TRUE, padded |-> FALSE, safe |-> FALSE]
                      ELSE IF s \in Limits THEN valueOf(e[s]) ELSE e[s]]

LoadConfigA(e) ==
  /\ requiredValue(e["listen"]) /\ validateListenAddress(e["listen"])
  /\ \A s \in Identifiers : requiredIdentifier(e[s])
  /\ requiredValue(e["router"]) /\ validateRouterURLofA(e["router"])
  /\ requiredValue(e["token"])
  /\ \A s \in Limits : requiredLimit(e[s])
  /\ routerAuth(e["auth"])
  /\ ValidateA(configOf(e))

-----------------------------------------------------------------------------
(* Runtime B, whose listen address is not part of its Config.              *)

\* Atoi takes a sign where parsePort does not.
atoiPort(n) == parses(n) /\ isPort(valueOf(n))

ListenAddressFromEnvironment(v) ==
  requiredValue(v) /\ v.splits /\ v.host /\ atoiPort(v.port)

\* Mutant: a trailing question mark is overlooked.
validateWithoutForceQuery(u) ==
  /\ u.parsed /\ parsedHost(u) /\ u.scheme # "other" /\ ~u.user
  /\ u.query # "some" /\ u.fragment = "none" /\ ~u.path
  /\ u.portForm # "colon" /\ (u.portForm = "digits" => atoiPort(u.port))
  /\ u.host

validateRouterURLofB(u) ==
  /\ u.parsed /\ u.scheme # "other" /\ parsedHost(u) /\ u.portForm # "colon"
  /\ ~u.user /\ ~u.path /\ u.query = "none" /\ u.fragment = "none"
  /\ u.portForm = "digits" => atoiPort(u.port)
  /\ u.host

validateIdentifierValue(v) == validateRequiredValue(v) /\ identifierPattern(v)

ValidateB(c) ==
  /\ \A s \in Identifiers : validateIdentifierValue(c[s])
  /\ validateRequiredValue(c["router"]) /\ validateRouterURLofB(c["router"])
  /\ validateRequiredValue(c["token"])
  /\ \A s \in Limits : inLimits(c[s])
  /\ routerAuth(c["auth"])

LoadConfigB(e) ==
  /\ \A s \in Identifiers : requiredValue(e[s]) /\ validateIdentifierValue(e[s])
  /\ requiredValue(e["router"]) /\ validateRouterURLofB(e["router"])
  /\ requiredValue(e["token"])
  /\ \A s \in Limits : requiredLimit(e[s])
  /\ routerAuth(e["auth"])
  /\ ValidateB(configOf(e))

-----------------------------------------------------------------------------

Load(r, accepted) ==
  /\ outcome[r] = "unread"
  /\ outcome' = [outcome EXCEPT ![r] = IF accepted THEN "loaded" ELSE "refused"]
  /\ UNCHANGED env

\* NewHandler of challengeproof, a stage of its own in both runtimes.
challengeDirectory(v) == requiredValue(v) /\ v.cleanAbsolute /\ v.usable

StartA == Load("runtime-a", LoadConfigA(env) /\ challengeDirectory(env["directory"]))

StartB ==
  Load("runtime-b", /\ ListenAddressFromEnvironment(env["listen"])
                    /\ LoadConfigB(env)
                    /\ challengeDirectory(env["directory"]))

Next == StartA \/ StartB

Spec == Init /\ [][Next]_vars

-----------------------------------------------------------------------------
(* Properties.                                                             *)

signedPort == env["listen"] # Absent /\ env["listen"].port.form = "plus"

\* The two packages read the same settings with code of their own, in another order
\* and with other library calls: whatever one of them starts with, the other does.
\* The one difference is a listen port written with a plus sign, which Runtime B takes.
RuntimesAgree ==
  "unread" \notin {outcome[r] : r \in Runtimes} /\ ~signedPort =>
    outcome["runtime-a"] = outcome["runtime-b"]

\* The limits are set and written as numbers: the environment has a Config.
hasConfig == \A s \in Limits : requiredValue(env[s]) /\ env[s].form = "digits" /\ parses(env[s])

\* What a runtime reads beside its Config.
restIsValid(r) ==
  /\ challengeDirectory(env["directory"])
  /\ r = "runtime-b" => ListenAddressFromEnvironment(env["listen"])

\* Validate applies the same rules to a Config that did not pass the loader as the
\* loader to the environment: a caller who builds his own gets no weaker check, and
\* the loader refuses nothing that is valid.
ValidateAgreesWithLoad ==
  \A r \in Runtimes :
    hasConfig /\ restIsValid(r) /\ outcome[r] # "unread" =>
      (outcome[r] = "loaded") = IF r = "runtime-a" THEN ValidateA(configOf(env))
                                ELSE ValidateB(configOf(env))

\* The README of Runtime A lists the settings it requires, and an instance identifier is
\* not among them: an environment that lacks nothing but that is loaded.
DocumentedSettingsSuffice ==
  /\ env["instance"] = Absent
  /\ LoadConfigA([env EXCEPT !["instance"] = env["agent"]])
  /\ challengeDirectory(env["directory"])
  => outcome["runtime-a"] # "refused"
=============================================================================
