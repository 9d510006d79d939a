---- MODULE MCFTPCache ----
EXTENDS FTPCache, TLC

FileList == { <<"/", "root", "/", "f">>, <<"/", "root", "2", "/", "f">>, <<"/", "f">>,
              <<"/", "f", ":">>, <<"/", "root", "/", "..", "/", "f">> }
ExternalList == { <<"/">>, <<"/", "root">>, <<"/", "root", "/">> }
Sites == << <<"C">>, <<"sites">>, Host, Port >>
Cache == << <<"C">>, <<"cache">>, Host >>
Ported == Append(Cache, Port)
Web == << <<"C">>, <<"web">>, Host >>
TemplateList == { Sites, Web }
GlobalList == { Cache, Ported, Web }
Symmetry == Permutations(Profiles) \cup Permutations(Hosts)
====
