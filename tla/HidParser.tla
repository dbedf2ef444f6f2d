----------------------------- MODULE HidParser ------------------------------
(***************************************************************************)
(* The report descriptor parser of iptsd (hid/parser.hpp), and what the    *)
(* IPTS device built on it makes of the result (ipts/descriptor.hpp,       *)
(* ipts/device.hpp).                                                       *)
(*                                                                         *)
(* A collection keeps the reports of the collections closed inside it in   *)
(* "closed" and their types and usages in "inner", in the order in which   *)
(* find_reports and find_collections walk the tree.  A field is its usage; *)
(* its bits are counted in its report, limits and units are not kept.      *)
(***************************************************************************)
EXTENDS HidItems

VARIABLES
    m_global, m_global_stack,
    m_local,
    m_collection, m_collection_stack,
    status      \* "parsing", "done", "thrown", or "undefined" behaviour

hidVars == <<m_global, m_global_stack, m_local, m_collection, m_collection_stack, status>>

GlobalState == [usage_page |-> 0, report_id |-> NoID, report_count |-> 0, report_size |-> 0]

\* NoUsage stands for a missing minimum or maximum as well.
LocalState == [usage |-> NoUsage, usage_min |-> NoUsage, usage_max |-> NoUsage]

NewCollection(type, usage) ==
    [type |-> type, usage |-> usage, reports |-> <<>>, closed |-> <<>>, inner |-> <<>>]

HidInit ==
    /\ m_global = GlobalState /\ m_global_stack = <<>>
    /\ m_local = LocalState
    /\ m_collection = NewCollection(0, NoUsage) /\ m_collection_stack = <<>>
    /\ status = "parsing"

-----------------------------------------------------------------------------
(* One action per kind of item.                                            *)

FieldBits == m_global.report_count * m_global.report_size
Field == [usage |-> m_local.usage, usage_min |-> m_local.usage_min, usage_max |-> m_local.usage_max]

CreateReport(reports, type) ==
    IF \E i \in DOMAIN reports : reports[i].type = type /\ reports[i].report_id = m_global.report_id
    THEN reports
    ELSE Append(reports, [type |-> type, report_id |-> m_global.report_id, bits |-> 0, fields |-> <<>>])

WithField(report) == [report EXCEPT !.bits = @ + FieldBits, !.fields = Append(@, Field)]

AddField(own, type) ==
    LET reports == CreateReport(own, type)
        found == CHOOSE i \in DOMAIN reports :
                     reports[i].type = type /\ reports[i].report_id = m_global.report_id
    IN  [reports EXCEPT ![found] = WithField(@)]

CreateField(item) ==
    /\ item.tag \in ReportTags
    /\ m_collection' = [m_collection EXCEPT !.reports = AddField(@, item.tag)]
    /\ m_local' = LocalState
    /\ UNCHANGED <<m_global, m_global_stack, m_collection_stack, status>>

\* The type is narrowed to eight bits, which throws when it does not fit.  The
\* collection has been pushed by then.
OpenCollection(item) ==
    /\ item.tag = "Collection"
    /\ m_collection_stack' = Append(m_collection_stack, m_collection)
    /\ IF item.payload > 255
       THEN /\ status' = "thrown"
            /\ m_collection' = NewCollection(0, NoUsage)
            /\ UNCHANGED m_local
       ELSE /\ m_collection' = NewCollection(item.payload, m_local.usage)
            /\ m_local' = LocalState
            /\ UNCHANGED status
    /\ UNCHANGED <<m_global, m_global_stack>>

Reports_Own(coll) == coll.reports
Reports(coll)     == coll.reports \o coll.closed
Collections(coll) == <<[type |-> coll.type, usage |-> coll.usage]>> \o coll.inner

\* The top of an empty std::stack is undefined behaviour.
CloseCollection(item) ==
    /\ item.tag = "EndCollection"
    /\ IF m_collection_stack = <<>>
       THEN /\ status' = "undefined"
            /\ UNCHANGED <<m_collection, m_collection_stack>>
       ELSE /\ m_collection' = [Last(m_collection_stack) EXCEPT
                    !.closed = @ \o Reports(m_collection),
                    !.inner = @ \o Collections(m_collection)]
            /\ m_collection_stack' = Front(m_collection_stack)
            /\ UNCHANGED status
    /\ UNCHANGED <<m_global, m_global_stack, m_local>>

SetGlobal(item) ==
    /\ item.tag \in {"UsagePage", "ReportSize", "ReportCount", "ReportID"}
    /\ IF item.tag = "ReportID" /\ item.payload > 255
       THEN status' = "thrown" /\ UNCHANGED m_global
       ELSE /\ m_global' = CASE item.tag = "UsagePage"   -> [m_global EXCEPT !.usage_page = item.payload]
                             [] item.tag = "ReportSize"  -> [m_global EXCEPT !.report_size = item.payload]
                             [] item.tag = "ReportCount" -> [m_global EXCEPT !.report_count = item.payload]
                             [] item.tag = "ReportID"    -> [m_global EXCEPT !.report_id = item.payload]
            /\ UNCHANGED status
    /\ UNCHANGED <<m_global_stack, m_local, m_collection, m_collection_stack>>

PushGlobal(item) ==
    /\ item.tag = "Push"
    /\ m_global_stack' = Append(m_global_stack, m_global)
    /\ UNCHANGED <<m_global, m_local, m_collection, m_collection_stack, status>>

PopGlobal(item) ==
    /\ item.tag = "Pop"
    /\ IF m_global_stack = <<>>
       THEN status' = "undefined" /\ UNCHANGED <<m_global, m_global_stack>>
       ELSE /\ m_global' = Last(m_global_stack)
            /\ m_global_stack' = Front(m_global_stack)
            /\ UNCHANGED status
    /\ UNCHANGED <<m_local, m_collection, m_collection_stack>>

ExtendedUsage(page, item) ==
    IF item.size # 4 THEN <<page, item.payload>> ELSE item.payload

SetLocal(item) ==
    /\ item.tag \in LocalTags
    /\ LET usage == ExtendedUsage(m_global.usage_page, item)
       IN  m_local' = CASE item.tag = "Usage"        -> [m_local EXCEPT !.usage = usage]
                        [] item.tag = "UsageMinimum" -> [m_local EXCEPT !.usage_min = usage]
                        [] item.tag = "UsageMaximum" -> [m_local EXCEPT !.usage_max = usage]
    /\ UNCHANGED <<m_global, m_global_stack, m_collection, m_collection_stack, status>>

Ignore(item) == item.tag = "Other" /\ UNCHANGED hidVars

ParseItem(item) ==
    /\ status = "parsing"
    /\ \/ CreateField(item)
       \/ OpenCollection(item)
       \/ CloseCollection(item)
       \/ SetGlobal(item)
       \/ PushGlobal(item)
       \/ PopGlobal(item)
       \/ SetLocal(item)
       \/ Ignore(item)

\* The buffer ends, between two items or within one: reading on throws.
EndOfBuffer(truncated) ==
    /\ status = "parsing"
    /\ status' = IF truncated THEN "thrown" ELSE "done"
    /\ UNCHANGED <<m_global, m_global_stack, m_local, m_collection, m_collection_stack>>

-----------------------------------------------------------------------------
(* The descriptor parse() returns: what the current collection holds.      *)

DescReports     == Reports(m_collection)
DescCollections == m_collection.inner

Bytes(report) == (report.bits + 7) \div 8

Leq(u, v) == u[1] < v[1] \/ (u[1] = v[1] /\ u[2] <= v[2])

FieldHasUsage(field, usage) ==
    \/ field.usage = usage
    \/ /\ field.usage_min # NoUsage /\ field.usage_max # NoUsage
       /\ Leq(field.usage_min, usage) /\ Leq(usage, field.usage_max)

HasUsage(report, usage) == \E i \in DOMAIN report.fields : FieldHasUsage(report.fields[i], usage)

IsTouchData(report) ==
    report.type = "Input" /\ HasUsage(report, SCAN_TIME) /\ HasUsage(report, GESTURE_DATA)
IsSetMode(report) ==
    report.type = "Feature" /\ Bytes(report) = 1 /\ HasUsage(report, SET_MODE)

TouchDataReports == {r \in ToSet(DescReports) : IsTouchData(r)}
SetModeReports   == {r \in ToSet(DescReports) : IsSetMode(r)}

HasCollection(usage) == \E i \in DOMAIN DescCollections : DescCollections[i].usage = usage

\* The constructor of ipts::Device throws InvalidDevice otherwise.
DeviceAccepted == SetModeReports # {} /\ TouchDataReports # {}

\* Device::type(), "unknown" when it throws.
DeviceType ==
    CASE HasCollection(TOUCHPAD) /\ ~HasCollection(TOUCHSCREEN) -> "touchpad"
      [] HasCollection(TOUCHSCREEN) /\ ~HasCollection(TOUCHPAD) -> "touchscreen"
      [] OTHER -> "unknown"

\* find_modesetting_report, the first there is: none or one.
ModesettingReport ==
    {DescReports[i] : i \in {k \in DOMAIN DescReports :
        IsSetMode(DescReports[k]) /\ \A j \in 1..(k - 1) : ~IsSetMode(DescReports[j])}}

\* An iptsd for the device gets into its loop, as far as the descriptor decides:
\* the constructor of Runner asks for the type, the first set_mode for the id.
DeviceStarts ==
    /\ DeviceAccepted
    /\ DeviceType # "unknown"
    /\ \A r \in ModesettingReport : r.report_id # NoID

MaxOf(S) == CHOOSE x \in S : \A y \in S : x >= y

\* Device::buffer_size(), the size of the buffer every report is read into.
BufferSize == MaxOf({0} \cup {Bytes(r) : r \in TouchDataReports})
=============================================================================
