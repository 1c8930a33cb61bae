--------------------------- MODULE MC_KafkaScrapers ---------------------------
EXTENDS KafkaScrapers

\* Every known name plus one unknown, up to three entries (so a name can be
\* listed twice and an unknown or failing entry can follow a good one).
MCScraperNames == {"brokers", "topics", "consumers", "bogus"}
MCVersions == {"", "2.0.0", "2.0"}
MCValidVersions == {"2.0.0"}
=============================================================================
