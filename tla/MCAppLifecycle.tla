---------------------------- MODULE MCAppLifecycle ----------------------------
(* Images that the SDK may hand out: whole ones, tight or with padded rows, of *)
(* two sizes; and ones that are missing, of another format, too large, with    *)
(* rows too short for their pixels, or with bytes missing.                     *)
(* And the command lines of up to four arguments, of the kinds that matter.    *)
EXTENDS AppLifecycle

MCNumber == ("0" :> 0) @@ ("7" :> 7) @@ ("70000" :> 70000)

MCArguments ==
  {"--disable-capture", "--disable-webrtc", "--enable-debug", "--debug-frames",
   "--webrtc-port", "--webrtc-stun", "--viewer-policy", "hot-loop", "none", "7"}

MCCommandLines ==
  SeqOf(MCArguments, 4)
  \cup {<<option, value>> : option \in {"--port", "--debug-frames"}, value \in DOMAIN MCNumber}
  \cup {<<"--enable-tcp-streaming">>, <<"--read-policy", "balanced">>}

Image(format, width, height, stride, bytes) ==
  [format |-> format, width |-> width, height |-> height, stride |-> stride,
   bytes |-> bytes]

MCColorImages ==
  {NoImage,
   Image("bgra32", 2, 2, 8, 16),
   Image("bgra32", 4, 1, 20, 20),
   Image("bgra32", 4, 1, 8, 16),
   Image("bgra32", 2, 2, 8, 15),
   Image("bgra32", 16385, 1, 65540, 65540),
   Image("other", 2, 2, 8, 16)}

MCDepthImages ==
  {NoImage,
   Image("depth16", 3, 1, 6, 6),
   Image("depth16", 3, 1, 4, 6),
   Image("depth16", 3, 1, 6, 5),
   Image("other", 3, 1, 6, 6)}
=============================================================================
