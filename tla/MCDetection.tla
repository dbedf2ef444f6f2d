---------------------------- MODULE MCDetection -----------------------------
EXTENDS Detection

It(tag, size, payload) == [tag |-> tag, size |-> size, payload |-> payload]
Usage4(usage) == It("Usage", 4, usage)
ID(id)      == <<It("ReportID", 1, id)>>
Size(bits)  == It("ReportSize", 1, bits)
Input       == It("Input", 1, 2)
Feature     == It("Feature", 1, 2)
CloseIt     == <<It("EndCollection", 0, 0)>>
OpenIt(usage, type) == <<Usage4(usage), It("Collection", 1, type)>>

\* A touchscreen with fields of one byte: what descriptors begin with.
Begin == OpenIt(TOUCHSCREEN, Application) \o <<Size(8), It("ReportCount", 1, 1)>>

ScanTime    == <<Usage4(SCAN_TIME), Input>>
GestureData == <<It("UsagePage", 1, DIGITIZER), It("Usage", 1, 97), Input>>
SetMode     == <<Usage4(SET_MODE), Size(8), Feature>>

\* Reports in application collections, nothing else.
Plainest == {ScanTime, GestureData, SetMode, CloseIt, OpenIt(NoUsage, Application), ID(1)}

\* Reports and collections in any order and nesting, and what is allowed in a
\* descriptor but seldom seen in one.
Usual == {ScanTime, GestureData, SetMode, CloseIt, ID(1), ID(256),
          OpenIt(TOUCHPAD, Application), <<It("Collection", 1, 2), Size(12), It("Other", 1, 0)>>,
          <<It("UsageMinimum", 4, SCAN_TIME), It("UsageMaximum", 4, GESTURE_DATA), Input>>,
          <<It("Push", 0, 0)>>, <<It("Pop", 0, 0)>>, <<It("Collection", 2, 256)>>}
=============================================================================
