--------------------------- MODULE MCProviderConfig ---------------------------
(* Environments for TLC.                                                   *)
EXTENDS ProviderConfig

safe == [empty |-> FALSE, padded |-> FALSE, safe |-> TRUE]
digits(n) == [form |-> "digits", number |-> n]

limit(n) == [empty |-> FALSE, padded |-> FALSE, form |-> n.form, number |-> n.number]
address(n) == [empty |-> FALSE, padded |-> FALSE, splits |-> TRUE, host |-> TRUE, port |-> n]
origin == [empty |-> FALSE, padded |-> FALSE, parsed |-> TRUE, scheme |-> "http", host |-> TRUE,
           portForm |-> "digits", port |-> digits(1), user |-> FALSE, path |-> FALSE,
           query |-> "none", fragment |-> "none"]

usable == [empty |-> FALSE, padded |-> FALSE, cleanAbsolute |-> TRUE, usable |-> TRUE]

\* Numbers at and around each bound, in every form.
EdgeNumbers ==
  [form: {"digits", "plus", "minus", "other"},
   number: {0, 1, MinLimit - 1, MinLimit, MaxLimit, MaxLimit + 1, MaxPort, MaxPort + 1,
            MaxInt, MaxInt + 1}]

EdgeDigits == {digits(0), digits(1), digits(MaxPort), digits(MaxPort + 1), digits(MaxInt + 1)}

\* A port is told apart only where it is written.
URLs ==
  {u \in [empty: {FALSE}, padded: {FALSE}, parsed: BOOLEAN, scheme: {"http", "https", "other"},
          host: BOOLEAN, portForm: {"none", "colon", "digits"}, port: EdgeDigits, user: BOOLEAN,
          path: BOOLEAN, query: {"none", "empty", "some"},
          fragment: {"none", "empty", "some"}] :
     u.portForm = "digits" \/ u.port = digits(1)}

\* The texts that each setting takes, valid ones and others.
Texts(s) ==
  CASE s \in Identifiers \cup {"token", "auth"} -> Word
    [] s \in Limits -> {limit(n) : n \in EdgeNumbers}
                       \cup {[limit(digits(1)) EXCEPT !.padded = TRUE],
                             [limit([form |-> "other", number |-> 0]) EXCEPT !.empty = TRUE]}
    [] s = "listen" -> {address(n) : n \in EdgeNumbers}
                       \cup {[address(digits(1)) EXCEPT !.padded = TRUE],
                             [address(digits(1)) EXCEPT !.splits = FALSE],
                             [address(digits(1)) EXCEPT !.host = FALSE]}
    [] s = "directory" -> Directory
    [] s = "router" -> {origin, [origin EXCEPT !.padded = TRUE],
                        [origin EXCEPT !.port = digits(MaxPort + 1)]}

valid ==
  [agent |-> safe, instance |-> safe, target |-> safe, capability |-> safe, token |-> safe,
   auth |-> safe, response |-> limit(digits(MinLimit)), event |-> limit(digits(MinLimit)),
   listen |-> address(digits(1)), router |-> origin, directory |-> usable]

\* Replacements of one setting, or leaving it out.
Changes == UNION {{<<s, v>> : v \in Texts(s) \cup {Absent}} : s \in Settings}

With(e, change) == [e EXCEPT ![change[1]] = change[2]]

\* Valid environments with at most two settings replaced, and with every URL.
Mistakes ==
  {With(With(valid, p[1]), p[2]) :
     p \in (Changes \X Changes) \cup ({<<"router", u>> : u \in URLs} \X {<<"token", safe>>})}
=============================================================================
