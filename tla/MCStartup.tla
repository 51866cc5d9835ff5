----------------------------- MODULE MCStartup ------------------------------
(* Startup for TLC: files of up to MaxFileLines lines, valid and invalid.  *)
EXTENDS Startup

CONSTANTS MaxFileLines

UpTo(lines) == UNION {[1..n -> lines] : n \in 0..MaxFileLines}

\* Each key with two values, the limits of the port range, threads that a short
\* cannot hold, and lines that are refused.
MCFiles ==
  UpTo({Line("PORT", 1024, "1024"), Line("PORT", 65534, "65534"),
        Line("PORT", 65535, "65535"),
        Line("NUM_THREADS", 0, "0"), Line("NUM_THREADS", 8, "8"),
        Line("NUM_THREADS", 65536, "65536"),
        Line("NUM_THREADS", -1, "-1"),
        Line("LOG_LEVEL", 0, "debug"), Line("LOG_FILE", 0, "log"),
        Line("LOG_FILE", 0, ""), Line("none", 0, "")})
=============================================================================
