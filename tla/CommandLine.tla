------------------------------ MODULE CommandLine ------------------------------
(***************************************************************************)
(* The command line: parseCommandLine takes an option at a time, with the  *)
(* argument behind it if it wants a value, whatever that argument looks    *)
(* like, and stops at the first error                                      *)
(* (src/config/src/CommandLineParser.cpp).                                 *)
(***************************************************************************)
EXTENDS Integers, FiniteSetsExt, SequencesExt

CONSTANTS
  CommandLines,  \* the sequences of arguments that the program may get
  Number         \* of the arguments that are decimal numbers, their value

ASSUME CommandLinesAssumption == CommandLines \subseteq Seq(STRING)
ASSUME NumberAssumption == \A argument \in DOMAIN Number : Number[argument] \in Nat

VARIABLES
  argv,
  argument,                \* the next argument to look at
  config,                  \* AppConfig, as far as the command line sets it
  viewerDumpCountExplicit

parseVars == <<argv, argument, config, viewerDumpCountExplicit>>

\* AppConfig{}; the server names stand for their text, "" for none.
Defaults ==
  [capture |-> TRUE, tcp |-> FALSE, port |-> 6688,
   webrtc |-> TRUE, webrtcPort |-> 6689, stun |-> "",
   readPolicy |-> "greedy", viewerPolicy |-> "event",
   dump |-> FALSE, maxFrames |-> 1]

ParseInit ==
  /\ argv \in CommandLines
  /\ argument = 1
  /\ config = Defaults
  /\ viewerDumpCountExplicit = FALSE

Flags ==
  {"--disable-capture", "--enable-tcp-streaming", "--disable-webrtc", "--enable-debug"}
Valued ==
  {"--port", "--webrtc-port", "--webrtc-stun", "--read-policy", "--viewer-policy",
   "--debug-frames"}

\* Mutant: an explicit count before --enable-debug is lost.
FiveFrames == 5

DebugFrames == IF viewerDumpCountExplicit THEN config.maxFrames ELSE 5

WithFlag(flag) ==
  CASE flag = "--disable-capture" -> [config EXCEPT !.capture = FALSE]
    [] flag = "--enable-tcp-streaming" -> [config EXCEPT !.tcp = TRUE]
    [] flag = "--disable-webrtc" -> [config EXCEPT !.webrtc = FALSE]
    [] flag = "--enable-debug" ->
         [config EXCEPT !.dump = TRUE, !.maxFrames = DebugFrames]

IsPort(value) == value \in DOMAIN Number /\ Number[value] \in 1..65535
IsPositiveCount(value) == value \in DOMAIN Number /\ Number[value] > 0

\* The values each option takes, and what it makes of them.
IsValid(option, value) ==
  CASE option \in {"--port", "--webrtc-port"} -> IsPort(value)
    [] option = "--webrtc-stun" -> TRUE
    [] option = "--read-policy" -> value \in {"greedy", "balanced"}
    [] option = "--viewer-policy" -> value \in {"event", "hot-loop"}
    [] option = "--debug-frames" -> IsPositiveCount(value)

WithValue(option, value) ==
  CASE option = "--port" -> [config EXCEPT !.port = Number[value]]
    [] option = "--webrtc-port" -> [config EXCEPT !.webrtcPort = Number[value]]
    [] option = "--webrtc-stun" ->
         [config EXCEPT !.stun = IF value = "none" THEN "" ELSE value]
    [] option = "--read-policy" -> [config EXCEPT !.readPolicy = value]
    [] option = "--viewer-policy" -> [config EXCEPT !.viewerPolicy = value]
    [] option = "--debug-frames" ->
         [config EXCEPT !.dump = TRUE, !.maxFrames = Number[value]]

ParsedAll == argument > Len(argv)
HasValue == argument < Len(argv)

ParseFlag ==
  /\ ~ParsedAll /\ argv[argument] \in Flags
  /\ config' = WithFlag(argv[argument])
  /\ argument' = argument + 1
  /\ UNCHANGED <<argv, viewerDumpCountExplicit>>

ParseValue ==
  /\ HasValue /\ argv[argument] \in Valued
  /\ LET option == argv[argument]
         value == argv[argument + 1]
     IN  /\ IsValid(option, value)
         /\ config' = WithValue(option, value)
         /\ viewerDumpCountExplicit' =
              (viewerDumpCountExplicit \/ option = "--debug-frames")
  /\ argument' = argument + 2
  /\ UNCHANGED argv

\* An option that is unknown, lacks its value, or got one it does not take.
ParseError ==
  /\ ~ParsedAll
  /\ argv[argument] \notin Flags
  /\ argv[argument] \in Valued /\ HasValue =>
       ~IsValid(argv[argument], argv[argument + 1])

-----------------------------------------------------------------------------
(* The reference                                                           *)

\* Which arguments are options: those that no option before them takes as its value.
IsOption[i \in Nat \ {0}] ==
  IF i = 1 THEN TRUE ELSE ~(IsOption[i - 1] /\ argv[i - 1] \in Valued)

Uses(option) == {i \in DOMAIN argv : IsOption[i] /\ argv[i] = option}
LastValue(option, default) ==
  IF Uses(option) = {} THEN default ELSE argv[Max(Uses(option)) + 1]
LastNumber(option, default) ==
  IF Uses(option) = {} THEN default ELSE Number[LastValue(option, "")]

\* What the options ask for: the last of several wins, and a number of frames wins
\* over the five of --enable-debug wherever the two stand (README.md:223-232).
Asked ==
  [capture |-> Uses("--disable-capture") = {},
   tcp |-> Uses("--enable-tcp-streaming") # {},
   port |-> LastNumber("--port", 6688),
   webrtc |-> Uses("--disable-webrtc") = {},
   webrtcPort |-> LastNumber("--webrtc-port", 6689),
   stun |-> IF LastValue("--webrtc-stun", "none") = "none" THEN ""
            ELSE LastValue("--webrtc-stun", "none"),
   readPolicy |-> LastValue("--read-policy", "greedy"),
   viewerPolicy |-> LastValue("--viewer-policy", "event"),
   dump |-> Uses("--enable-debug") \cup Uses("--debug-frames") # {},
   maxFrames |-> LastNumber("--debug-frames",
                            IF Uses("--enable-debug") # {} THEN 5 ELSE 1)]
=============================================================================
