----------------------------- MODULE MCAdmission ----------------------------
(* Values of the environment variables for model checking Admission. *)
EXTENDS Admission

\* Without a bypass: every mode and profile, with swapped and plain paths.
Plain == [production : BOOLEAN, mode : {"unset", "empty", "warn", "strict"},
          profile : {"unset"}, bypass : {FALSE}, reason : {FALSE},
          ttl : {0}, optIn : {FALSE}, json : {TRUE}, swapped : BOOLEAN]

\* With a bypass, complete or not.
Bypass == [production : BOOLEAN, mode : {"unset", "warn", "off", "bad"},
           profile : {"empty", "bad"}, bypass : {TRUE}, reason : BOOLEAN,
           ttl : {0, 1}, optIn : BOOLEAN, json : {TRUE}, swapped : {FALSE}]

\* An artifact whose name does not end in .json.
NotJson == [production : {FALSE}, mode : {"strict"}, profile : {"fast", "standard"},
            bypass : {FALSE}, reason : {FALSE}, ttl : {0}, optIn : {FALSE},
            json : {FALSE}, swapped : {FALSE}]

MCEnvironments == Plain \cup Bypass \cup NotJson

=============================================================================
