----------------------------- MODULE MCStreamRelay -----------------------------
(* The producers of echo-service (delayed, failing, immediate failure and    *)
(* trailers responses) in front of nine wrappers, and clients whose body is  *)
(* echoed: four wrappers in, echo_body, and four wrappers out.               *)
EXTENDS StreamRelay

Producer(frames, pause, result, echo) ==
    [frames |-> frames, pause |-> pause, result |-> result, echo |-> echo]

EchoScripts ==
    { Producer(2, FALSE, "ok", 0), Producer(1, TRUE, "error", 0),
      Producer(2, TRUE, "error", 0), Producer(0, FALSE, "dropped", 0),
      Producer(1, FALSE, "ok", 0) }

ClientScripts ==
    { Producer(2, FALSE, "ok", 5), Producer(2, FALSE, "dropped", 5),
      Producer(0, FALSE, "ok", 5) }

AllScripts == EchoScripts \cup ClientScripts
=============================================================================
