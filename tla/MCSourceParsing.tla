---------------------------- MODULE MCSourceParsing ----------------------------
EXTENDS SourceParsingProperties, WorkbookSources, TableSources, PositionedSources,
        CombinedSources, PageSources

MCParsers ==
    [fermo_listed |-> FermoListed, fermo_applicants |-> FermoApplicants,
     lodi_listed |-> LodiListed, lodi_applicants |-> LodiApplicants,
     catania_listed |-> CataniaListed, catania_applicants |-> CataniaApplicants,
     matera_listed |-> MateraListed, matera_applicants |-> MateraApplicants,
     arezzo_listed |-> ArezzoListed, arezzo_applicants |-> ArezzoApplicants,
     campobasso_listed |-> CampobassoListed, campobasso_applicants |-> CampobassoApplicants,
     sassari_combined |-> SassariCombined, grosseto_listed |-> GrossetoListed,
     grosseto_applicants |-> GrossetoApplicants, brescia_listed |-> BresciaListed,
     brescia_applicants |-> BresciaApplicants, piacenza_listed |-> PiacenzaListed,
     piacenza_applicants |-> PiacenzaApplicants, firenze_listed |-> FirenzeListed,
     imperia_listed |-> ImperiaListed, imperia_applicants |-> ImperiaApplicants,
     prato_listed |-> PratoListed, prato_applicants |-> PratoApplicants,
     bolzano_listed |-> BolzanoListed, bolzano_applicants |-> BolzanoApplicants,
     messina_listed |-> MessinaListed, messina_applicants |-> MessinaApplicants,
     padova_listed |-> PadovaListed, padova_applicants |-> PadovaApplicants,
     bari_listed |-> BariListed, bari_applicants |-> BariApplicants,
     brindisi_listed |-> BrindisiListed, brindisi_applicants |-> BrindisiApplicants,
     barletta_listed |-> BarlettaListed, barletta_applicants |-> BarlettaApplicants,
     cagliari_listed |-> CagliariListed, cagliari_applicants |-> CagliariApplicants,
     caltanissetta_listed |-> CaltanissettaListed,
     caltanissetta_applicants |-> CaltanissettaApplicants, caserta_listed |-> CasertaListed,
     caserta_applicants |-> CasertaApplicants, catanzaro_listed |-> CatanzaroListed,
     catanzaro_applicants |-> CatanzaroApplicants, crotone_listed |-> CrotoneListed,
     crotone_applicants |-> CrotoneApplicants, ferrara_ordinary |-> FerraraOrdinary,
     ferrara_applicants |-> FerraraApplicants,
     ferrara_reconstruction |-> FerraraReconstruction, foggia_listed |-> FoggiaListed,
     foggia_applicants |-> FoggiaApplicants, frosinone_listed |-> FrosinoneListed,
     frosinone_applicants |-> FrosinoneApplicants, genova_listed |-> GenovaListed,
     genova_applicants |-> GenovaApplicants, gorizia_listed |-> GoriziaListed,
     gorizia_applicants |-> GoriziaApplicants, laquila_listed |-> LaquilaListed,
     laquila_applicants |-> LaquilaApplicants, lecce_listed |-> LecceListed,
     lecce_applicants |-> LecceApplicants, lecco_listed |-> LeccoListed,
     lecco_applicants |-> LeccoApplicants, lucca_listed |-> LuccaListed,
     lucca_applicants |-> LuccaApplicants, macerata_listed |-> MacerataListed,
     macerata_applicants |-> MacerataApplicants, modena_listed |-> ModenaListed,
     modena_applicants |-> ModenaApplicants, parma_combined |-> ParmaCombined,
     pistoia_listed |-> PistoiaListed, pistoia_applicants |-> PistoiaApplicants,
     alessandria_listed |-> AlessandriaListed,
     alessandria_applicants |-> AlessandriaApplicants, bologna_listed |-> BolognaListed,
     bologna_applicants |-> BolognaApplicants, aosta_listed |-> AostaListed,
     aosta_applicants |-> AostaApplicants, napoli_listed |-> NapoliListed,
     napoli_applicants |-> NapoliApplicants, pisa_listed |-> PisaListed,
     pisa_applicants |-> PisaApplicants, pisa_renewal_update |-> PisaRenewalUpdate,
     perugia_listed |-> PerugiaListed, perugia_applicants |-> PerugiaApplicants,
     pordenone_listed |-> PordenoneListed, pordenone_applicants |-> PordenoneApplicants,
     siracusa_listed |-> SiracusaListed, siracusa_applicants |-> SiracusaApplicants,
     torino_listed |-> TorinoListed, torino_applicants |-> TorinoApplicants,
     trapani_listed |-> TrapaniListed, trapani_applicants |-> TrapaniApplicants,
     trento_listed |-> TrentoListed, trento_applicants |-> TrentoApplicants,
     udine_listed |-> UdineListed, udine_applicants |-> UdineApplicants,
     benevento_listed |-> BeneventoListed, benevento_applicants |-> BeneventoApplicants,
     agrigento_listed |-> AgrigentoListed, agrigento_applicants |-> AgrigentoApplicants,
     asti_listed |-> AstiListed, asti_applicants |-> AstiApplicants,
     avellino_listed |-> AvellinoListed, avellino_applicants |-> AvellinoApplicants,
     bergamo_applicants |-> BergamoApplicants, bergamo_listed |-> BergamoListed,
     roma_listed |-> RomaListed, roma_applicants |-> RomaApplicants,
     cuneo_listed |-> CuneoListed, cuneo_applicants |-> CuneoApplicants,
     palermo_listed |-> PalermoListed, palermo_applicants |-> PalermoApplicants,
     firenze_applicants |-> FirenzeApplicants, ancona_combined |-> AnconaCombined,
     enna_applicants |-> EnnaApplicants, enna_listed |-> EnnaListed,
     belluno_combined |-> BellunoCombined, pesaro_combined |-> PesaroCombined,
     cremona_combined |-> CremonaCombined, cosenza_combined |-> CosenzaCombined,
     forli_combined |-> ForliCombined, ravenna_combined |-> RavennaCombined,
     como_listed |-> ComoListed, como_applicants |-> ComoApplicants,
     chieti_listed |-> ChietiListed, chieti_applicants |-> ChietiApplicants,
     milano_combined |-> MilanoCombined, ascoli_listed |-> AscoliListed,
     ascoli_applicants |-> AscoliApplicants, biella_applicants |-> BiellaApplicants,
     biella_listed |-> BiellaListed, pescara_listed |-> PescaraListed,
     pescara_applicants |-> PescaraApplicants, potenza_combined |-> PotenzaCombined,
     taranto_listed |-> TarantoListed, taranto_applicants |-> TarantoApplicants,
     viterbo_listed |-> ViterboListed, viterbo_applicants |-> ViterboApplicants]

RowA(n) == [Row EXCEPT !.note = n]

RowB(n) == [Row EXCEPT !.name = "b", !.id = "2", !.meant = "b", !.note = n]

Later(r) == [r EXCEPT !.section = "II", !.page = 2]

Heading(s) == [Row EXCEPT !.kind = "section", !.section = s]

Fragment(k) == [Row EXCEPT !.kind = k]

\* Rows that are not in the reviewed form, where the parser has a place for them.
Odd(p, r) ==
    LET places == p.reviewed \cup p.placed \cup p.repaired \cup p.supplied \cup p.carries
    IN {x \in {[r EXCEPT ![f] = v] : f \in Fields, v \in {Blank, "x"}} : Has(x, places) /\ ~Has(r, places)}

\* Two companies, one with and one without a note, or one company twice.
Companies == {<<RowA(m), RowB(n)>> : m, n \in {Blank, "update"}}

Twice == {<<RowA(n), RowA(n)>> : n \in {Blank, "update"}}

\* One company in two rows that do not quite agree.
Variants ==
    {<<RowA(Blank), x>> : x \in {[RowA(Blank) EXCEPT !.name = "b", !.meant = "b"],
                                 [RowA(Blank) EXCEPT !.id = "2"],
                                 [RowA(Blank) EXCEPT !.from = "d2"], RowA("update")}}

WithOdd(p) == UNION {{<<d[1], x>> : x \in Odd(p, d[2])} : d \in {e \in Companies : e[1].note = e[2].note}}

\* A company with more text than its row has, and another one or the same below it.
WithText(p) ==
    LET pairs == Companies \cup Twice
    IN {<<d[1], Fragment("tail"), d[2]>> : d \in pairs}
         \cup {<<d[1], Later(Fragment("tail")), Later(d[2])>> : d \in {e \in pairs : "top" \in p.joins}}

MCDocuments(p) ==
    IF p.under = "heading"
      THEN {<<Heading("I"), d[1], Heading("II"), Later(d[2])>> : d \in Companies \cup Twice}
             \cup {<<Heading("I"), d[1], Heading("II"), Later(d[1]), Later(d[2])>> : d \in Companies}
             \cup {<<Heading("I"), d[1], d[2]>> : d \in WithOdd(p) \cup Variants}
             \cup {<<Heading("I")>> \o d : d \in {e \in WithText(p) : p.joins # {}}}
      ELSE {<<d[1], Later(d[2])>> : d \in Companies \cup Twice \cup Variants \cup WithOdd(p)}
             \cup WithText(p)
             \cup {<<Fragment("lead"), d[1]>> : d \in Companies}
===============================================================================
