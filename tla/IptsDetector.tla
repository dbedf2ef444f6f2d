---------------------------- MODULE IptsDetector ----------------------------
(***************************************************************************)
(* The descriptor parser of iptsd-runner (android/ipts_detector.cpp): it   *)
(* decides from the report descriptor of a hidraw node whether an iptsd is *)
(* started for it.                                                         *)
(*                                                                         *)
(* parser_state is the variable "state".  Reports are found by type and id *)
(* over the whole descriptor.  The stack of collection usages is written   *)
(* and never read; only its depth is kept.                                 *)
(***************************************************************************)
EXTENDS HidItems

CONSTANTS
    MAX_REPORTS,            \* 64
    MAX_USAGES_PER_REPORT,  \* 32
    MAX_COLLECTION_DEPTH,   \* 16
    WORD                    \* 2^32, the number of values of the uint32_t that bits are counted in

ASSUME LimitAssumption ==
    /\ MAX_REPORTS \in Nat /\ MAX_USAGES_PER_REPORT \in Nat /\ MAX_COLLECTION_DEPTH \in Nat
    /\ WORD \in Nat \ {0}

VARIABLE state

ParserInit ==
    state = [usage_page |-> 0, report_id |-> NoID, report_count |-> 0, report_size |-> 0,
             usage |-> NoUsage, collection_depth |-> 0, reports |-> <<>>,
             has_touchscreen |-> FALSE, has_touchpad |-> FALSE]

-----------------------------------------------------------------------------

Matching(reports, type) ==
    {i \in DOMAIN reports : reports[i].type = type /\ reports[i].report_id = state.report_id}

FindOrCreateReport(type) ==
    IF Matching(state.reports, type) # {} \/ Len(state.reports) >= MAX_REPORTS
    THEN state.reports
    ELSE Append(state.reports,
                [type |-> type, report_id |-> state.report_id, total_bits |-> 0, usages |-> <<>>])

Extended(r) ==
    [r EXCEPT !.total_bits = (@ + state.report_count * state.report_size) % WORD,
              !.usages = IF state.usage # NoUsage /\ Len(@) < MAX_USAGES_PER_REPORT
                         THEN Append(@, state.usage) ELSE @]

\* A report that finds no room is dropped, and the usage is then not reset.
AddFieldToReport(item) ==
    /\ item.tag \in ReportTags
    /\ LET reports == FindOrCreateReport(item.tag)
           found == Matching(reports, item.tag)
           after == [reports EXCEPT ![CHOOSE i \in found : TRUE] = Extended(@)]
       IN  state' = IF found = {} THEN state ELSE [state EXCEPT !.usage = NoUsage, !.reports = after]

Collection(item) ==
    /\ item.tag = "Collection"
    /\ state' = [state EXCEPT
           !.collection_depth = IF @ < MAX_COLLECTION_DEPTH THEN @ + 1 ELSE @,
           !.has_touchscreen = @ \/ (item.payload = Application /\ state.usage = TOUCHSCREEN),
           !.has_touchpad = @ \/ (item.payload = Application /\ state.usage = TOUCHPAD),
           !.usage = NoUsage]

EndCollection(item) ==
    /\ item.tag = "EndCollection"
    /\ state' = [state EXCEPT !.collection_depth = IF @ > 0 THEN @ - 1 ELSE @]

\* The id is cast to eight bits and loses the upper ones.
Global(item) ==
    /\ item.tag \in {"UsagePage", "ReportSize", "ReportCount", "ReportID"}
    /\ state' = CASE item.tag = "UsagePage"   -> [state EXCEPT !.usage_page = item.payload]
                  [] item.tag = "ReportSize"  -> [state EXCEPT !.report_size = item.payload]
                  [] item.tag = "ReportCount" -> [state EXCEPT !.report_count = item.payload]
                  [] item.tag = "ReportID"    -> [state EXCEPT !.report_id = item.payload % 256]

MakeExtendedUsage(item) ==
    IF item.size = 4 THEN item.payload ELSE <<state.usage_page, item.payload>>

Usage(item) ==
    /\ item.tag = "Usage"
    /\ state' = [state EXCEPT !.usage = MakeExtendedUsage(item)]

\* Push, Pop and the limits of a usage range are not looked at.
Skip(item) ==
    /\ item.tag \in {"Push", "Pop", "UsageMinimum", "UsageMaximum", "Other"}
    /\ UNCHANGED state

ProcessItem(item) ==
    \/ AddFieldToReport(item)
    \/ Collection(item)
    \/ EndCollection(item)
    \/ Global(item)
    \/ Usage(item)
    \/ Skip(item)

-----------------------------------------------------------------------------
(* ipts_detect_device(), once the descriptor is parsed.                    *)

ReportHasUsage(r, usage) == \E i \in DOMAIN r.usages : r.usages[i] = usage

IsModesetting(r) ==
    r.type = "Feature" /\ r.total_bits = 8 /\ ReportHasUsage(r, SET_MODE)

\* Fault: one of the two usages is enough.
IsTouchInput_Either(r) ==
    r.type = "Input" /\ (ReportHasUsage(r, SCAN_TIME) \/ ReportHasUsage(r, GESTURE_DATA))

IsTouchInput(r) ==
    r.type = "Input" /\ ReportHasUsage(r, SCAN_TIME) /\ ReportHasUsage(r, GESTURE_DATA)

Detected ==
    LET reports == ToSet(state.reports)
    IN  (\E r \in reports : IsModesetting(r)) /\ (\E r \in reports : IsTouchInput(r))

DetectedType ==
    CASE state.has_touchpad /\ ~state.has_touchscreen -> "touchpad"
      [] state.has_touchscreen /\ ~state.has_touchpad -> "touchscreen"
      [] OTHER -> "unknown"
=============================================================================
