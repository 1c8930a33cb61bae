---------------------------- MODULE KafkaScrapers ----------------------------
(***************************************************************************)
(* newMetricsReceiver of receiver/kafkametricsreceiver/receiver.go.        *)
(*                                                                         *)
(* The factory parses config.ProtocolVersion, configures authentication,   *)
(* then walks config.Scrapers: a name found in allScrapers creates a       *)
(* scraper (its creation error is returned), any other name returns "no    *)
(* scraper found".  Only if the loop completes is the scraper controller   *)
(* built with one AddScraper option per listed name, in order.  Nothing    *)
(* runs concurrently with it, so the whole call is one action; the loop is *)
(* a RECURSIVE operator checked against a non-recursive reference.  What   *)
(* sarama, kafkaexporter and scraperhelper do is not under src/: their     *)
(* failures are nondeterministic inputs.                                   *)
(***************************************************************************)
EXTENDS Naturals, Sequences, FiniteSets

CONSTANTS
  ScraperNames,   \* names that may appear in config.Scrapers
  Versions,       \* values config.ProtocolVersion may take ("" = unset)
  ValidVersions,  \* the ones sarama.ParseKafkaVersion accepts
  MaxScrapers     \* bound on Len(config.Scrapers)

\* allScrapers (lines 39-45): the keys of the map.
AllScrapers == {"brokers", "topics", "consumers"}

ASSUME ValidVersions \subseteq Versions /\ "" \in Versions /\ MaxScrapers \in Nat

Configs == UNION {[1..n -> ScraperNames] : n \in 0..MaxScrapers}

Errors == {"none", "version", "auth", "create", "unknown", "controller"}

VARIABLES
  version,    \* config.ProtocolVersion
  scrapers,   \* config.Scrapers
  result,     \* "pending" until newMetricsReceiver returns, then its error kind
  options     \* the scrapers given to NewScraperControllerReceiver

vars == <<version, scrapers, result, options>>

(* Mutant: an unknown name is skipped (continue) instead of returned.     *)
RECURSIVE BuildSkipUnknown(_, _, _, _)
BuildSkipUnknown(names, fails, i, opts) ==
  IF i > Len(names) THEN [err |-> "none", opts |-> opts]
  ELSE IF names[i] \notin AllScrapers THEN BuildSkipUnknown(names, fails, i + 1, opts)
  ELSE IF i \in fails THEN [err |-> "create", opts |-> <<>>]
  ELSE BuildSkipUnknown(names, fails, i + 1, Append(opts, names[i]))

(* The for loop of lines 65-76 from entry i on.  fails is the set of       *)
(* indices whose create function returns an error.  An error returns nil, *)
(* so the options gathered so far are dropped.                            *)
RECURSIVE BuildOptions(_, _, _, _)
BuildOptions(names, fails, i, opts) ==
  IF i > Len(names) THEN [err |-> "none", opts |-> opts]
  ELSE IF names[i] \notin AllScrapers THEN [err |-> "unknown", opts |-> <<>>]
  ELSE IF i \in fails THEN [err |-> "create", opts |-> <<>>]
  ELSE BuildOptions(names, fails, i + 1, Append(opts, names[i]))

\* sarama.ParseKafkaVersion is called only for a non-empty version (55-59).
VersionRejected(v) == v # "" /\ v \notin ValidVersions

Init ==
  /\ version \in Versions
  /\ scrapers \in Configs
  /\ result = "pending"
  /\ options = <<>>

(* One call of newMetricsReceiver: the version check (55-61), the          *)
(* authentication (62-64), the scraper loop (65-76) and the controller     *)
(* (78-83), each returning on its error.                                  *)
NewMetricsReceiver ==
  /\ result = "pending"
  /\ \E authOK, controllerOK \in BOOLEAN, fails \in SUBSET DOMAIN scrapers :
       LET loop == BuildOptions(scrapers, fails, 1, <<>>) IN
       CASE VersionRejected(version) ->
              result' = "version" /\ options' = <<>>
         [] ~authOK -> result' = "auth" /\ options' = <<>>
         [] loop.err # "none" -> result' = loop.err /\ options' = <<>>
         [] ~controllerOK -> result' = "controller" /\ options' = <<>>
         [] OTHER -> result' = "none" /\ options' = loop.opts
  /\ UNCHANGED <<version, scrapers>>

\* The factory has returned; nothing more happens.
Done == result # "pending" /\ UNCHANGED vars

Next == NewMetricsReceiver \/ Done

Spec == Init /\ [][Next]_vars

-----------------------------------------------------------------------------
(* Properties *)

\* Reference for the loop, without recursion: the first offending entry.
FirstBad(names, fails) ==
  LET bad == {i \in DOMAIN names : names[i] \notin AllScrapers \/ i \in fails}
  IN  IF bad = {} THEN 0 ELSE CHOOSE i \in bad : \A j \in bad : i <= j

(* The loop over config.Scrapers agrees with the reference for the        *)
(* configuration and every pattern of creation failures: it succeeds with *)
(* exactly the listed names in order (a name listed twice gives two       *)
(* scrapers), and otherwise reports the first unknown or failing entry.   *)
LoopMatchesReference ==
  \A fails \in SUBSET DOMAIN scrapers :
    LET k == FirstBad(scrapers, fails)
        r == BuildOptions(scrapers, fails, 1, <<>>)
    IN  IF k = 0 THEN r = [err |-> "none", opts |-> scrapers]
        ELSE r.err = IF scrapers[k] \notin AllScrapers THEN "unknown" ELSE "create"
=============================================================================
