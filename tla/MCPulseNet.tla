----------------------------- MODULE MCPulseNet -----------------------------
(* An instance of PulseNet for TLC. *)
EXTENDS PulseNet

Host(value) == <<"HOST", "=">> \o value

\* A name twice, with the separator in its value; a name alone, which sets it, too;
\* an empty value, and a comment that looks like a parameter.
SmallFiles ==
  { << Host(<<"h">>), Host(<<"a", "=", "b">>) >>,
    << Host(<<"h">>), <<"HOST">>, <<"PORT", "=">> >>,
    << <<"*", "=", "h">>, <<"HOST">>, Host(<<"h">>), <<>> >> }
=============================================================================
