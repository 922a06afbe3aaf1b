------------------------------ MODULE Normaliser ------------------------------
(***************************************************************************)
(* src/src/ingestion/collector.py and models.py: how a posted log becomes  *)
(* a LogEntry, or nothing.  Pure.                                          *)
(*                                                                         *)
(* Strings are represented by a few of their kind: empty, blank, padded.   *)
(* Optional results are sets of at most one element.  Timestamps and the   *)
(* generated ids are left out.                                             *)
(*                                                                         *)
(* An operator Bad... is a plausible mistake in the one it is named after; *)
(* nothing uses it.                                                        *)
(***************************************************************************)

LogLevels == {"DEBUG", "INFO", "WARNING", "ERROR", "CRITICAL"}

\* What RawLogRequest lets through: any strings.
RawLogs == [service_name : {"", " ", " Payment ", "payment"},
            level        : {"", "INFO", "error", "WARN", "Fatal", "loud"},
            message      : {"", " ", " text ", "text"}]

\* str.strip().lower(), str.upper().
Stripped(s) ==
    CASE s = " " -> ""
      [] s = " Payment " -> "payment"
      [] s = " text " -> "text"
      [] OTHER -> s
Upper(s) ==
    CASE s = "error" -> "ERROR"
      [] s = "Fatal" -> "FATAL"
      [] s = "loud" -> "LOUD"
      [] OTHER -> s

Aliases == [WARN |-> "WARNING", FATAL |-> "CRITICAL"]

\* Levels that nobody knows are INFO.
BadParseLevel(level) ==
    IF Upper(level) \in DOMAIN Aliases THEN Aliases[Upper(level)] ELSE Upper(level)
ParseLevel(level) ==
    IF Upper(level) \in DOMAIN Aliases THEN Aliases[Upper(level)]
    ELSE IF Upper(level) \in LogLevels THEN Upper(level)
    ELSE "INFO"

\* The validators of LogEntry: they raise, or clean the field.
LogEntry(fields) ==
    IF Stripped(fields.service_name) = "" \/ Stripped(fields.message) = ""
          \/ fields.level \notin LogLevels
    THEN {}
    ELSE {[fields EXCEPT !.service_name = Stripped(@), !.message = Stripped(@)]}

\* The fields that _from_dict takes from what the endpoint posts: an empty one
\* gets its default, a blank one does not.
FromDict(raw) ==
    [service_name |-> IF raw.service_name = "" THEN "unknown" ELSE raw.service_name,
     level |-> ParseLevel(IF raw.level = "" THEN "INFO" ELSE raw.level),
     message |-> raw.message]

\* LogCollector.normalise: an exception is None.
Normalise(raw) == LogEntry(FromDict(raw))

\* What the consumer makes of it, LogConsumer._deserialise.
Deserialise(entry) == LogEntry(entry)

-----------------------------------------------------------------------------
\* A log with a text is rejected for a blank service name only, whatever its
\* level; and what the endpoint accepts is no garbage for the consumer, which
\* validates it again: it reads the entry that was sent.
AcceptedIsReadable ==
    \A raw \in RawLogs :
        /\ Stripped(raw.message) # "" /\ raw.service_name # " " => Normalise(raw) # {}
        /\ \A entry \in Normalise(raw) : Deserialise(entry) = {entry}
===============================================================================
