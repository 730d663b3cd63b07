------------------------------ MODULE MCPQTune ------------------------------
(* Small instances of PQTune for TLC: one kind of work per session. *)
EXTENDS PQTune

Session(vers, cmds, blocks, values, scenes, limit) ==
  {[ver |-> v, cmds |-> cmds, blocks |-> blocks, values |-> values,
    scenes |-> scenes, limit |-> limit] : v \in vers}

AllTools ==
  \* files, with the list of scenes growing and shrinking
  Session({"r2p0", "r4p0"}, {"wr_xml", "rd_xml"}, {"abc"}, {5},
          {<<1>>, <<2>>, <<0, 2>>, <<1, 1>>}, 4)
  \cup Session({"lite-r2p0", "r3p0"}, {"wr_xml", "rd_xml"}, {"abc", "bld"},
               {5}, {<<1, 2>>}, 3)
  \* registers, which blocks share
  \cup Session({"r4p0"}, {"connect", "rd_reg", "wr_reg"}, {"cms", "abc"},
               {5, 6, 1030}, {<<1>>}, 4)
  \cup Session(Versions, {"rd_reg", "wr_reg", "rd_xml"},
               {"gamma", "bld", "cms", "hsv"}, {5, 1030}, {<<1>>}, 3)
  \* a whole configuration, and a block in the middle of it
  \cup Session({"r2p0", "r4p0"},
               {"start_write", "midst_write", "end_write", "start_read",
                "midst_read", "rd_reg"}, {"gamma", "abc"}, {5, 6}, {<<2>>}, 6)
  \* the screen
  \cup Session({"r3p0"}, {"pattern"}, {}, {}, {}, 5)
=============================================================================
