------------------------------ MODULE MCFrontend ------------------------------
(***************************************************************************)
(* The browser's side of a scan: the event bus and the clients that follow *)
(* it, the store of the page, and the demonstration that plays the part of *)
(* the backend.  They share no state the models keep, so a behaviour is    *)
(* one of a single of them, which view names.                              *)
(***************************************************************************)
EXTENDS MCEventStream, ScanStore, DemoReplay

VARIABLE view

frontendVars == <<vars, storeVars, demoVars, view>>
EventView == view = "events" /\ Next /\ UNCHANGED <<storeVars, demoVars, view>>
StoreView == view = "store" /\ StoreNext /\ UNCHANGED <<vars, demoVars, view>>
DemoView == view = "demo" /\ DemoNext /\ UNCHANGED <<vars, storeVars, view>>
FrontendNext == EventView \/ StoreView \/ DemoView
FrontendInit ==
  /\ view \in {"events", "store", "demo"} /\ Init /\ StoreInit /\ DemoInit
  /\ view # "events" => \A c \in Clients : conn[c].scan = s1
FrontendSpec == FrontendInit /\ [][FrontendNext]_frontendVars

(* Types of the variables of all three.                                    *)
FrontendTypeOK == TypeOK /\ StoreTypeOK /\ DemoTypeOK

-----------------------------------------------------------------------------
(* Two demonstrations: one with a finding nobody plans for and one that    *)
(* neither is exploited nor patched, one whose first patch is marked.      *)
MCFindingsIn == [d \in {"askbit", "webgoat"} |-> IF d = "askbit" THEN <<"bac", "config", "sqli", "ssrf">> ELSE <<"wg-sqli", "path">>]
MCPlannedIn == [d \in {"askbit", "webgoat"} |-> IF d = "askbit" THEN <<"bac", "config", "sqli">> ELSE <<"wg-sqli", "path">>]
MCPatchedIn == [d \in {"askbit", "webgoat"} |-> IF d = "askbit" THEN <<"bac", "config">> ELSE <<"wg-sqli", "path">>]
MCMarkedIn == [d \in {"askbit", "webgoat"} |-> IF d = "askbit" THEN {"sqli"} ELSE {"wg-sqli"}]
=============================================================================
