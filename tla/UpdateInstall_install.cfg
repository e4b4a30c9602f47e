\* Two actors, three files, power cuts anywhere; the config menu at any moment, or only
\* where a user is slower than the last few instructions of an install thread.
SPECIFICATION FairSpec
INVARIANTS PluginNeverLost TellsTheTruth NothingOutlivesTheMenu OnceOnly
PROPERTIES CardSpec OwedRelaunch FailureTold
