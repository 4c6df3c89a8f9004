------------------------- MODULE ProviderConfigProofs -------------------------
(***************************************************************************)
(* Theorems about ProviderConfig, for every set of environments and every  *)
(* bound on limits and ports.                                              *)
(***************************************************************************)
EXTENDS ProviderConfig, TLAPS

AcceptedByA == LoadConfigA(env) /\ challengeDirectory(env["directory"])

AcceptedByB ==
  /\ ListenAddressFromEnvironment(env["listen"])
  /\ LoadConfigB(env)
  /\ challengeDirectory(env["directory"])

\* A runtime that was started came to what its loader says of the environment.
OutcomeInv ==
  /\ env \in Environments
  /\ outcome \in [Runtimes -> {"unread", "loaded", "refused"}]
  /\ outcome["runtime-a"] # "unread" => (outcome["runtime-a"] = "loaded" <=> AcceptedByA)
  /\ outcome["runtime-b"] # "unread" => (outcome["runtime-b"] = "loaded" <=> AcceptedByB)

LEMMA OutcomeInit == Init => OutcomeInv
BY DEF Init, OutcomeInv, Runtimes

LEMMA OutcomeStep == OutcomeInv /\ [Next]_vars => OutcomeInv'
<1> SUFFICES ASSUME OutcomeInv, [Next]_vars PROVE OutcomeInv'
  OBVIOUS
<1>1. UNCHANGED env
  BY DEF Next, StartA, StartB, Load, vars
<1>2. AcceptedByA' = AcceptedByA /\ AcceptedByB' = AcceptedByB
  BY <1>1 DEF AcceptedByA, AcceptedByB
<1>3. CASE StartA
  <2>1. outcome' = [outcome EXCEPT !["runtime-a"] = IF AcceptedByA THEN "loaded" ELSE "refused"]
    BY <1>3 DEF StartA, Load, AcceptedByA
  <2> QED
    BY <1>1, <1>2, <2>1 DEF OutcomeInv, Runtimes
<1>4. CASE StartB
  <2>1. outcome' = [outcome EXCEPT !["runtime-b"] = IF AcceptedByB THEN "loaded" ELSE "refused"]
    BY <1>4 DEF StartB, Load, AcceptedByB
  <2> QED
    BY <1>1, <1>2, <2>1 DEF OutcomeInv, Runtimes
<1>5. CASE UNCHANGED vars
  BY <1>2, <1>5 DEF vars, OutcomeInv
<1> QED
  BY <1>3, <1>4, <1>5 DEF Next

\* Every outcome is what the loader says of the environment, in whichever order they run.
THEOREM OutcomesFollow == Spec => []OutcomeInv
<1> QED
  BY OutcomeInit, OutcomeStep, PTL DEF Spec

-----------------------------------------------------------------------------
(* Ports.                                                                  *)

\* The two ways to read a port differ in the plus sign alone: a minus sign leads out of
\* the range.
LEMMA PortsAgree ==
  ASSUME NEW n \in Number
  PROVE  /\ n.form = "digits" => (parsePort(n) <=> atoiPort(n))
         /\ n.form # "plus" => (parsePort(n) <=> atoiPort(n))
BY DEF Number, parsePort, atoiPort, parses, valueOf, isPort

LEMMA RouterURLsAgree ==
  ASSUME NEW u \in URL
  PROVE  validateRouterURLofA(u) <=> validateRouterURLofB(u)
<1>1. u.portForm = "digits" => (parsePort(u.port) <=> atoiPort(u.port))
  BY PortsAgree DEF URL
<1> QED
  BY <1>1 DEF validateRouterURLofA, validateRouterURLofB

LEMMA ListenAddressesAgree ==
  ASSUME NEW v \in Address \cup {Absent}, v = Absent \/ v.port.form # "plus"
  PROVE  requiredValue(v) /\ validateListenAddress(v) <=> ListenAddressFromEnvironment(v)
<1>1. CASE v = Absent
  BY <1>1 DEF requiredValue, ListenAddressFromEnvironment
<1>2. CASE v # Absent
  <2>1. v.port \in Number /\ v.port.form # "plus"
    BY <1>2 DEF Address
  <2>2. parsePort(v.port) <=> atoiPort(v.port)
    BY <2>1, PortsAgree
  <2> QED
    BY <2>2 DEF validateListenAddress, ListenAddressFromEnvironment
<1> QED
  BY <1>1, <1>2

-----------------------------------------------------------------------------
(* Environments.                                                           *)

\* What a setting is, and what it is in the Config made of the environment.
LEMMA ConfigOf ==
  ASSUME NEW e, NEW s \in Settings, e[s] # Absent
  PROVE  configOf(e)[s] = IF s \in Limits THEN valueOf(e[s]) ELSE e[s]
BY DEF configOf

LEMMA ConfigOfAbsent ==
  ASSUME NEW e, NEW s \in Settings, e[s] = Absent
  PROVE  configOf(e)[s] = [empty |-> TRUE, padded |-> FALSE, safe |-> FALSE]
BY DEF configOf

\* An accepted Config has every setting, as it is in the environment.
PresentFor(e, S) == \A s \in S : e[s] # Absent

\* The rules for what has to be there, without the order in which the code applies them.
Required ==
  /\ \A s \in Identifiers : requiredIdentifier(env[s])
  /\ requiredValue(env["router"])
  /\ requiredValue(env["token"])
  /\ \A s \in Limits : requiredLimit(env[s])
  /\ routerAuth(env["auth"])

LEMMA SettingsOfConfig ==
  /\ Identifiers \subseteq Settings \ Limits /\ Limits \subseteq Settings
  /\ {"listen", "router", "token", "auth"} \subseteq Settings \ Limits
BY DEF Settings, Identifiers, Limits

\* What was loaded is valid: Validate refuses nothing after the rules of the loader.
LEMMA LoadedByA ==
  LoadConfigA(env) <=>
    /\ Required
    /\ requiredValue(env["listen"]) /\ validateListenAddress(env["listen"])
    /\ validateRouterURLofA(env["router"])
<1> SUFFICES ASSUME /\ Required
                    /\ requiredValue(env["listen"]) /\ validateListenAddress(env["listen"])
                    /\ validateRouterURLofA(env["router"])
             PROVE  LoadConfigA(env)
  BY DEF LoadConfigA, Required
<1> DEFINE c == configOf(env)
<1>1. /\ \A s \in Identifiers : c[s] = env[s]
      /\ c["listen"] = env["listen"] /\ c["router"] = env["router"]
      /\ c["token"] = env["token"] /\ c["auth"] = env["auth"]
      /\ \A s \in Limits : c[s] = valueOf(env[s])
  BY SettingsOfConfig, ConfigOf DEF Required, requiredIdentifier, requiredValue, requiredLimit,
     routerAuth
<1> HIDE DEF c
<1>2. ValidateA(c)
  BY <1>1 DEF Required, ValidateA, requiredIdentifier, requiredValue, requiredLimit
<1> QED
  BY <1>2 DEF LoadConfigA, Required, c

LEMMA LoadedByB ==
  LoadConfigB(env) <=> Required /\ validateRouterURLofB(env["router"])
<1>1. ASSUME LoadConfigB(env) PROVE Required /\ validateRouterURLofB(env["router"])
  BY <1>1 DEF LoadConfigB, Required, requiredIdentifier, validateIdentifierValue
<1>2. ASSUME Required, validateRouterURLofB(env["router"]) PROVE LoadConfigB(env)
  <2> DEFINE c == configOf(env)
  <2>1. /\ \A s \in Identifiers : c[s] = env[s]
        /\ c["router"] = env["router"] /\ c["token"] = env["token"] /\ c["auth"] = env["auth"]
        /\ \A s \in Limits : c[s] = valueOf(env[s])
    BY <1>2, SettingsOfConfig, ConfigOf
       DEF Required, requiredIdentifier, requiredValue, requiredLimit, routerAuth
  <2> HIDE DEF c
  <2>2. ValidateB(c)
    BY <1>2, <2>1 DEF Required, ValidateB, requiredIdentifier, requiredValue, requiredLimit,
                      validateIdentifierValue
  <2> QED
    BY <1>2, <2>2 DEF LoadConfigB, Required, requiredIdentifier, requiredValue,
                      validateIdentifierValue, c
<1> QED
  BY <1>1, <1>2

\* The two loaders take the same environments, but for a plus sign in the listen port.
LEMMA LoadersAgree ==
  ASSUME env \in Environments, ~signedPort
  PROVE  AcceptedByA <=> AcceptedByB
<1>1. env["listen"] \in Address \cup {Absent} /\ env["router"] \in URL \cup {Absent}
  BY EnvironmentsAssumption
<1>2. requiredValue(env["listen"]) /\ validateListenAddress(env["listen"])
        <=> ListenAddressFromEnvironment(env["listen"])
  BY <1>1, ListenAddressesAgree DEF signedPort
<1>3. Required => (validateRouterURLofA(env["router"]) <=> validateRouterURLofB(env["router"]))
  <2>1. Required => env["router"] \in URL
    BY <1>1 DEF Required, requiredValue
  <2> QED
    BY <2>1, RouterURLsAgree
<1> QED
  BY <1>2, <1>3, LoadedByA, LoadedByB DEF AcceptedByA, AcceptedByB

\* Whatever one runtime starts with, the other does, with code of its own: the
\* settings may be anything the loaders tell apart, not only one mistake away from valid.
THEOREM RuntimesStartAlike == Spec => []RuntimesAgree
<1>1. OutcomeInv => RuntimesAgree
  <2> SUFFICES ASSUME OutcomeInv, "unread" \notin {outcome[r] : r \in Runtimes}, ~signedPort
               PROVE  outcome["runtime-a"] = outcome["runtime-b"]
    BY DEF RuntimesAgree
  <2>1. outcome["runtime-a"] # "unread" /\ outcome["runtime-b"] # "unread"
    BY DEF Runtimes
  <2>2. AcceptedByA <=> AcceptedByB
    BY LoadersAgree DEF OutcomeInv
  <2>3. /\ outcome["runtime-a"] \in {"unread", "loaded", "refused"}
        /\ outcome["runtime-b"] \in {"unread", "loaded", "refused"}
    BY DEF OutcomeInv, Runtimes
  <2> QED
    BY <2>1, <2>2, <2>3 DEF OutcomeInv
<1> QED
  BY <1>1, OutcomesFollow, PTL

-----------------------------------------------------------------------------
(* Validate.                                                               *)

\* A Config that has its limits is valid only if every setting was there.
LEMMA ValidConfig ==
  ASSUME env \in Environments, hasConfig,
         \A s \in Identifiers : identifierPattern(configOf(env)[s]),
         validateRequiredValue(configOf(env)["router"]),
         validateRequiredValue(configOf(env)["token"]),
         \A s \in Limits : inLimits(configOf(env)[s]),
         routerAuth(configOf(env)["auth"])
  PROVE  Required /\ configOf(env)["router"] = env["router"]
<1> DEFINE c == configOf(env)
           zero == [empty |-> TRUE, padded |-> FALSE, safe |-> FALSE]
<1>1. ASSUME NEW s \in Identifiers PROVE requiredIdentifier(env[s])
  <2>1. env[s] # Absent
    BY SettingsOfConfig, ConfigOfAbsent DEF identifierPattern
  <2>2. c[s] = env[s] /\ env[s] \in Word
    BY <2>1, SettingsOfConfig, ConfigOf, EnvironmentsAssumption
  <2> QED
    BY <2>1, <2>2 DEF Word, identifierPattern, requiredIdentifier, requiredValue,
                      validateRequiredValue
<1>2. requiredValue(env["router"]) /\ c["router"] = env["router"]
  <2>1. env["router"] # Absent
    BY SettingsOfConfig, ConfigOfAbsent DEF validateRequiredValue
  <2> QED
    BY <2>1, SettingsOfConfig, ConfigOf DEF requiredValue
<1>3. requiredValue(env["token"])
  <2>1. env["token"] # Absent
    BY SettingsOfConfig, ConfigOfAbsent DEF validateRequiredValue
  <2> QED
    BY <2>1, SettingsOfConfig, ConfigOf DEF requiredValue
<1>4. ASSUME NEW s \in Limits PROVE requiredLimit(env[s])
  <2>1. env[s] # Absent /\ requiredValue(env[s]) /\ env[s].form = "digits" /\ parses(env[s])
    BY DEF hasConfig, requiredValue
  <2>2. c[s] = valueOf(env[s])
    BY <2>1, SettingsOfConfig, ConfigOf
  <2> QED
    BY <2>1, <2>2 DEF requiredLimit
<1>5. routerAuth(env["auth"])
  <2>1. env["auth"] # Absent
    BY SettingsOfConfig, ConfigOfAbsent DEF routerAuth
  <2> QED
    BY <2>1, SettingsOfConfig, ConfigOf
<1> QED
  BY <1>1, <1>2, <1>3, <1>4, <1>5 DEF Required

LEMMA ValidateA_Load ==
  ASSUME env \in Environments, hasConfig, restIsValid("runtime-a")
  PROVE  AcceptedByA <=> ValidateA(configOf(env))
<1>1. ASSUME ValidateA(configOf(env)) PROVE AcceptedByA
  <2>1. Required /\ validateRouterURLofA(env["router"])
    BY <1>1, ValidConfig DEF ValidateA
  <2>2. env["listen"] # Absent
    BY <1>1, SettingsOfConfig, ConfigOfAbsent DEF ValidateA, validateRequiredValue
  <2>3. requiredValue(env["listen"]) /\ validateListenAddress(env["listen"])
    BY <1>1, <2>2, SettingsOfConfig, ConfigOf DEF ValidateA, requiredValue
  <2> QED
    BY <2>1, <2>3, LoadedByA DEF AcceptedByA, restIsValid
<1> QED
  BY <1>1 DEF AcceptedByA, LoadConfigA

LEMMA ValidateB_Load ==
  ASSUME env \in Environments, hasConfig, restIsValid("runtime-b")
  PROVE  AcceptedByB <=> ValidateB(configOf(env))
<1>1. ASSUME ValidateB(configOf(env)) PROVE AcceptedByB
  <2>1. Required /\ validateRouterURLofB(env["router"])
    BY <1>1, ValidConfig DEF ValidateB, validateIdentifierValue
  <2> QED
    BY <2>1, LoadedByB DEF AcceptedByB, restIsValid
<1> QED
  BY <1>1 DEF AcceptedByB, LoadConfigB

\* Validate is no weaker than the loader, and the loader refuses nothing that is valid.
THEOREM ValidateIsTheLoader == Spec => []ValidateAgreesWithLoad
<1>1. OutcomeInv => ValidateAgreesWithLoad
  <2> SUFFICES ASSUME OutcomeInv, NEW r \in Runtimes, hasConfig, restIsValid(r),
                      outcome[r] # "unread"
               PROVE  (outcome[r] = "loaded") = IF r = "runtime-a" THEN ValidateA(configOf(env))
                                                ELSE ValidateB(configOf(env))
    BY DEF ValidateAgreesWithLoad
  <2>1. CASE r = "runtime-a"
    <3>1. AcceptedByA <=> ValidateA(configOf(env))
      BY <2>1, ValidateA_Load DEF OutcomeInv
    <3>2. outcome[r] = "loaded" <=> AcceptedByA
      BY <2>1 DEF OutcomeInv
    <3>3. (outcome[r] = "loaded") = ValidateA(configOf(env))
      BY <3>1, <3>2 DEF ValidateA
    <3> QED
      BY <2>1, <3>3
  <2>2. CASE r = "runtime-b"
    <3>1. AcceptedByB <=> ValidateB(configOf(env))
      BY <2>2, ValidateB_Load DEF OutcomeInv
    <3>2. outcome[r] = "loaded" <=> AcceptedByB
      BY <2>2 DEF OutcomeInv
    <3>3. (outcome[r] = "loaded") = ValidateB(configOf(env))
      BY <3>1, <3>2 DEF ValidateB
    <3> QED
      BY <2>2, <3>3
  <2> QED
    BY <2>1, <2>2 DEF Runtimes
<1> QED
  BY <1>1, OutcomesFollow, PTL
=============================================================================
