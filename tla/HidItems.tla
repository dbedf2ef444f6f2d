------------------------------ MODULE HidItems ------------------------------
(***************************************************************************)
(* The items of a HID report descriptor, as hid/protocol/item.hpp and      *)
(* android/ipts_detector.cpp decode them from the header byte.             *)
(*                                                                         *)
(* A usage is a pair <<page, id>>: 32 bits, the page in the upper half.    *)
(* The payload of a Usage item of four bytes holds both, that of a shorter *)
(* one only the id.  Items that neither parser acts on, or that only store *)
(* a number nobody reads (limits, units, strings), are the one tag "Other".*)
(***************************************************************************)
EXTENDS Integers, Sequences, SequencesExt, FiniteSets

ReportTags == {"Input", "Output", "Feature"}
MainTags   == ReportTags \cup {"Collection", "EndCollection"}
GlobalTags == {"UsagePage", "ReportSize", "ReportID", "ReportCount", "Push", "Pop"}
LocalTags  == {"Usage", "UsageMinimum", "UsageMaximum"}
Tags == MainTags \cup GlobalTags \cup LocalTags \cup {"Other"}

\* A header byte and the unsigned number that follows it, or the usage it stands for.
Items ==
    [tag : Tags \ LocalTags, size : {0, 1, 2, 4}, payload : Nat]
        \cup [tag : LocalTags, size : {0, 1, 2}, payload : Nat]
        \cup [tag : LocalTags, size : {4}, payload : Nat \X Nat]

\* No Report ID, std::nullopt or has_report_id = 0.
NoID == -1

NoUsage == <<0, 0>>

\* Usage pages and usages of ipts/protocol/descriptor.hpp.
DIGITIZER   == 13
VENDOR      == 65280
TOUCHSCREEN  == <<DIGITIZER, 4>>
TOUCHPAD     == <<DIGITIZER, 5>>
SCAN_TIME    == <<DIGITIZER, 86>>
GESTURE_DATA == <<DIGITIZER, 97>>
SET_MODE     == <<VENDOR, 200>>

\* The one collection type the detector looks for.
Application == 1
=============================================================================
