---------------------------- MODULE MCStudioLease ----------------------------
(* TLC instance of StudioLease: two browsers with one page each, which may   *)
(* be reloaded.                                                              *)
EXTENDS StudioLease

CONSTANTS pageA, pageB, browserA, browserB

TwoPages == {pageA, pageB}
TwoBrowsers == {browserA, browserB}
BrowserOfPage == [t \in Tabs |-> IF t = pageA THEN browserA ELSE browserB]
=============================================================================
