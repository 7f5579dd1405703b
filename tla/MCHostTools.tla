---------------------------- MODULE MCHostTools ----------------------------
\* Small instances of the host tools.
EXTENDS HostTools

MCHeaderSums == 1 .. 8 * Word - 1

\* All tests but some, with every choice of those the numbers depend on.
MCSelections ==
    {S \cup T : S \in SUBSET {3, 11, 19, 30, 31, 32, 34, 83}, T \in {{}, {5, 12, 15, 16, 18, 80, 81, 84, 85}}}

Design(l, b, g, p, y) == [label |-> l, board |-> b, group |-> g, publish |-> p, yocto |-> y]
MCDataVersions ==
    {<<Design("d1", "b1", "g2", TRUE, FALSE), Design("d2", "b2", "g1", TRUE, TRUE)>>,
     <<Design("d1", "b1", "g2", FALSE, FALSE), Design("d2", "b2", "g1", TRUE, TRUE),
       Design("d3", "b2", "g1", TRUE, FALSE)>>}
MCGroups == <<"g1", "g2", "g3">>
Text == <<"text">>
MCTemplates ==
    {<<Text, Start, Text, End, Text>>, <<Start, End, Text, Start, Text, End>>,
     <<Text, Start, Text>>, <<Text>>}

Hwh(k, mods) == [n \in DOMAIN mods |-> [inst |-> mods[n][1], ip |-> mods[n][2], of |-> k]]
MCNumbered == {"microblaze_0", "microblaze_1"}
MCMcsNames == {"ddr_mcs"}
MCA72Named == {"psv_cortexa72"}
MCA53Named == {"psu_cortexa53"}
MCR5Named == {"psv_cortexr5", "psu_cortexr5", "ddr5_ctl"}
Mig == Hwh("mcs", <<<<"microblaze_I", "microblaze">>>>)
MCXsas ==
    {Mig \o Hwh("top", <<<<"dma_mb", "microblaze">>, <<"microblaze_0", "microblaze">>>>),
     Hwh("top", <<<<"microblaze_1", "microblaze">>, <<"io_mb", "microblaze_mcs">>>>),
     Hwh("top", <<<<"ddr_mcs", "microblaze_mcs">>, <<"app_mb", "microblaze">>>>) \o Mig,
     Hwh("top", <<<<"cips", "versal_cips">>>>),
     Hwh("top", <<<<"cips", "versal_cips">>, <<"ddr", "ddr5_ctl">>>>),
     Hwh("top", <<<<"cips", "versal_cips">>, <<"apu", "psv_cortexa72">>>>)
        \o Hwh("other", <<<<"ddr", "ddr5_ctl">>>>),
     Hwh("top", <<<<"ps", "zynq_ultra_ps_e">>, <<"rpu", "psu_cortexr5">>, <<"apu", "psu_cortexa53">>>>),
     Hwh("top", <<<<"ps", "zynq_ultra_ps_e">>, <<"rpu", "psu_cortexr5">>>>),
     Hwh("top", <<<<"ps", "zynq_ultra_ps_e">>>>) \o Mig,
     Hwh("top", <<<<"ps", "zynq_ultra_ps_e">>>>),
     Hwh("top", <<<<"ps", "processing_system7">>>>),
     Hwh("top", <<<<"x", "axi_dma">>>>)}
MCConfigs ==
    [xsa : MCXsas, dtsi : {"none", "missing"},
     mods : {("microblaze" :> "code_local_bss_ddr"), ("microblaze" :> "relocate_to_ddr"),
             ("microblaze" :> "relocate_to_local_mem")},
     sizes : {[a \in {"microblaze", "versal"} |-> {".stack", ".heap"}]},
     combine : BOOLEAN,
     impl : {{"bit", "mmi", "fsbl", "pdi"}, {"bit", "xsa mmi", "fsbl", "app pdi"}, {"bit"}, {}}]
Dom(n, c, b) == [name |-> n, cpu |-> c, boot |-> b]
MCDomains ==
    {<<>>, <<Dom("fsbl", "a53", TRUE), Dom("other", "r5", FALSE), Dom("app", "a53", FALSE)>>,
     <<Dom("fsbl", "a53", TRUE)>>, <<Dom("app", "microblaze_0", FALSE)>>}
Ld(mems) == [mems |-> mems, at |-> [s \in Sections |-> mems[1]]]
MCScripts == {Ld(<<"ddr_0", "lmb_local_memory", "ddr_1">>), Ld(<<"lmb_local_memory">>), Ld(<<"ddr_0", "bram">>)}
MCLocalMems == {"lmb_local_memory"}
MCDdrMems == {"ddr_0", "ddr_1"}

F(c, d, n) == <<c, d, n>>
MCInstall ==
    {F("lwip", "src", "a"), F("lwip", "src", "b"), F("lwip", "data", "yaml"), F("lwip", "doc", "x"),
     F("timer", "src", "t"), F("pcie", "data", "yaml")}
MCPatches == {F("lwip", "src", "a")}
MCArchPatches == "microblaze" :> {F("lwip", "data", "yaml"), F("lwip", "src", "a"), F("new", "src", "n")}
=============================================================================
