-------------------------- MODULE PlanoCron_proofs ---------------------------
(* Proofs about the cron plane: its types, and that the job overlaps only  *)
(* when it takes longer than its budget or runs without its lock.          *)
EXTENDS PlanoCron, TLAPS

LEMMA TipoDeEspera ==
    /\ EnEspera \in Pase /\ EnEspera.paso = "espera"
    /\ SinHilo \in Hilo /\ ~SinHilo.vivo
    /\ SinCerrojo \in Cerrojo
  BY PlanoAssumption, CerrojosAssumption
  DEF EnEspera, Pase, SinHilo, Hilo, SinCerrojo, Cerrojo

(* A pass that starts: what it holds is all that is new. *)
LEMMA TipoDeEmpezado ==
    ASSUME NEW i \in Instancias, NEW propio \in BOOLEAN,
           pase \in [Instancias -> Pase], Empezado(i, propio)
    PROVE  /\ pase' \in [Instancias -> Pase]
           /\ pase'[i].paso = "lanzar" /\ pase'[i].propio = propio
           /\ \A k \in Instancias : k # i => pase'[k] = pase[k]
  <1> DEFINE nuevo == [paso |-> "lanzar", propio |-> propio, edad |-> 0, plazo |-> 0]
  <1>1. 0 \in 0 .. TTL
    BY PlanoAssumption, CerrojosAssumption
  <1>2. nuevo \in Pase
    BY <1>1, Zenon DEF Pase
  <1>3. nuevo.paso = "lanzar" /\ nuevo.propio = propio
    OBVIOUS
  <1>4. pase' = [pase EXCEPT ![i] = nuevo]
    BY DEF Empezado
  <1> HIDE DEF nuevo
  <1> QED
    BY <1>2, <1>3, <1>4

LEMMA TipoInicial == Init => TypeOK
  BY TipoDeEspera, PlanoAssumption
  DEF Init, CerrojosInit, TypeOK, CerrojosTypeOK

-----------------------------------------------------------------------------
(* The statements of the table keep its type. *)
LEMMA AdquirirTipo ==
    ASSUME CerrojosTypeOK, NEW i \in Instancias, Adquirir(Cron, i, TTL)
    PROVE  CerrojosTypeOK'
  BY PlanoAssumption DEF CerrojosTypeOK, Adquirir, Cerrojo

LEMMA SoltarTipo ==
    ASSUME CerrojosTypeOK, NEW i \in Instancias, Soltar(Cron, i)
    PROVE  CerrojosTypeOK'
  BY TipoDeEspera DEF CerrojosTypeOK, Soltar, SoltarVarios

LEMMA RenovarTipo ==
    ASSUME CerrojosTypeOK, NEW i \in Instancias, Renovar(Cron, i, TTL)
    PROVE  CerrojosTypeOK'
  BY PlanoAssumption DEF CerrojosTypeOK, Renovar, Cerrojo

LEMMA EnvejecenTipo ==
    ASSUME CerrojosTypeOK, CerrojosEnvejecen
    PROVE  CerrojosTypeOK'
  BY CerrojosAssumption DEF CerrojosTypeOK, CerrojosEnvejecen, Cerrojo

LEMMA MasTipo ==
    ASSUME NEW n \in 0 .. TTL
    PROVE  /\ Mas(n) \in 0 .. TTL
           /\ Mas(n) < TTL => Mas(n) = n + 1
  BY PlanoAssumption, CerrojosAssumption DEF Mas

LEMMA TipoPaso == TypeOK /\ [Next]_vars => TypeOK'
  <1> SUFFICES ASSUME TypeOK, [Next]_vars PROVE TypeOK'
    OBVIOUS
  <1> USE DEF TypeOK
  <1>1. ASSUME NEW i \in Instancias, Tomar(i) PROVE TypeOK'
    <2>1. CerrojosTypeOK'
      BY <1>1, AdquirirTipo DEF Tomar
    <2>2. pase' \in [Instancias -> Pase]
      BY <1>1, TipoDeEmpezado DEF Tomar
    <2> QED
      BY <1>1, <2>1, <2>2 DEF Tomar
  <1>2. ASSUME NEW i \in Instancias, TomarAverias(i) PROVE TypeOK'
    <2>1. CerrojosTypeOK'
      BY <1>2, AdquirirTipo DEF TomarAverias, CerrojosTypeOK
    <2>2. pase' \in [Instancias -> Pase]
      BY <1>2, TipoDeEmpezado DEF TomarAverias
    <2>3. averias' \in 0 .. MaxAverias
      BY <1>2, PlanoAssumption DEF TomarAverias, Falla
    <2> QED
      BY <1>2, <2>1, <2>2, <2>3 DEF TomarAverias
  <1>3. ASSUME NEW i \in Instancias, Lanzar(i) PROVE TypeOK'
    <2>1. CerrojosTypeOK'
      BY <1>3 DEF Lanzar, CerrojosTypeOK
    <2>2. pase' \in [Instancias -> Pase]
      <3>1. TTL \in 0 .. TTL
        BY PlanoAssumption, CerrojosAssumption
      <3>2. \A p \in Pase : /\ [p EXCEPT !.paso = "finally"] \in Pase
                             /\ [p EXCEPT !.paso = "join", !.plazo = TTL] \in Pase
        BY <3>1 DEF Pase
      <3>3. CASE hilo[i].vivo
        <4>1. pase' = [pase EXCEPT ![i] = [pase[i] EXCEPT !.paso = "finally"]]
          BY <1>3, <3>3 DEF Lanzar
        <4> QED
          BY <4>1, <3>2
      <3>4. CASE ~hilo[i].vivo
        <4>1. pase' = [pase EXCEPT ![i] = [pase[i] EXCEPT !.paso = "join", !.plazo = TTL]]
          BY <1>3, <3>4 DEF Lanzar
        <4> QED
          BY <4>1, <3>2
      <3> QED
        BY <3>3, <3>4
    <2>3. hilo' \in [Instancias -> Hilo]
      <3>1. pase[i].propio \in BOOLEAN /\ pase[i].edad \in 0 .. TTL
        BY DEF Pase
      <3>2. [vivo |-> TRUE, propio |-> pase[i].propio, edad |-> pase[i].edad] \in Hilo
        BY <3>1, Zenon DEF Hilo
      <3> QED
        BY <1>3, <3>2 DEF Lanzar
    <2> QED
      BY <1>3, <2>1, <2>2, <2>3 DEF Lanzar
  <1>4. ASSUME NEW i \in Instancias, FinDelJoin(i) PROVE TypeOK'
    BY <1>4 DEF FinDelJoin, CerrojosTypeOK, Pase
  <1>5. ASSUME NEW i \in Instancias, Finally(i) PROVE TypeOK'
    <2>1. CerrojosTypeOK'
      BY <1>5, SoltarTipo, RenovarTipo DEF Finally, CerrojosTypeOK
    <2>2. averias' \in 0 .. MaxAverias
      BY <1>5, PlanoAssumption DEF Finally, Falla
    <2> QED
      BY <1>5, <2>1, <2>2, TipoDeEspera DEF Finally
  <1>6. ASSUME NEW i \in Instancias, Terminar(i) PROVE TypeOK'
    BY <1>6, TipoDeEspera DEF Terminar, CerrojosTypeOK
  <1>7. ASSUME NEW i \in Instancias, Caida(i) PROVE TypeOK'
    <2>1. CerrojosTypeOK'
      BY <1>7, PlanoAssumption DEF Caida, CerrojosTypeOK, Cerrojo
    <2>2. caidas' \in 0 .. MaxCaidas
      BY <1>7, PlanoAssumption DEF Caida
    <2> QED
      BY <1>7, <2>1, <2>2, TipoDeEspera DEF Caida
  <1>8. CASE Tiempo
    <2>1. CerrojosTypeOK'
      BY <1>8, EnvejecenTipo DEF Tiempo
    <2>2. pase' \in [Instancias -> Pase]
      <3>1. \A p \in Pase, e, t \in 0 .. TTL :
              [p EXCEPT !.edad = e, !.plazo = t] \in Pase
        BY DEF Pase
      <3>2. \A k \in Instancias :
              /\ pase[k].edad \in 0 .. TTL /\ Mas(pase[k].edad) \in 0 .. TTL
              /\ pase[k].plazo \in 0 .. TTL
        BY MasTipo DEF Pase
      <3>3. \A n \in 0 .. TTL : (IF n > 0 THEN n - 1 ELSE 0) \in 0 .. TTL
        BY PlanoAssumption, CerrojosAssumption
      <3> QED
        BY <1>8, <3>1, <3>2, <3>3 DEF Tiempo
    <2>3. hilo' \in [Instancias -> Hilo]
      <3>1. \A h \in Hilo, e \in 0 .. TTL : [h EXCEPT !.edad = e] \in Hilo
        BY DEF Hilo
      <3>2. \A k \in Instancias : Mas(hilo[k].edad) \in 0 .. TTL
        BY MasTipo DEF Hilo
      <3>3. 0 \in 0 .. TTL
        BY PlanoAssumption, CerrojosAssumption
      <3> QED
        BY <1>8, <3>1, <3>2, <3>3 DEF Tiempo
    <2> QED
      BY <1>8, <2>1, <2>2, <2>3 DEF Tiempo
  <1>9. CASE UNCHANGED vars
    BY <1>9 DEF vars, CerrojosTypeOK
  <1> QED
    BY <1>1, <1>2, <1>3, <1>4, <1>5, <1>6, <1>7, <1>8, <1>9 DEF Next, Instancia

(* The locks, the instances and their threads keep their types, whatever   *)
(* dies or fails (cron_plane.py, loop.py, job_locks.py).                   *)
THEOREM TipoCorrecto == Spec => []TypeOK
  BY TipoInicial, TipoPaso, PTL DEF Spec

-----------------------------------------------------------------------------
(* An instance that took the lock is within its budget between the taking  *)
(* and the launch, and while the thread it launched then is young.         *)
EnPlazo(i) ==
    \/ pase[i].paso = "lanzar" /\ pase[i].propio /\ pase[i].edad < TTL
    \/ hilo[i].vivo /\ hilo[i].propio /\ hilo[i].edad < TTL

(* What makes overlaps late: the row is of whoever is within its budget,   *)
(* for at least what is left of it.                                        *)
LlevaCerrojo(i) ==
    /\ cerrojos[Cron].dueno = i
    /\ (pase[i].paso = "lanzar" /\ pase[i].propio) => cerrojos[Cron].resta >= TTL - pase[i].edad
    /\ (hilo[i].vivo /\ hilo[i].propio) => cerrojos[Cron].resta >= TTL - hilo[i].edad

CerrojoInv == \A i \in Instancias : EnPlazo(i) => LlevaCerrojo(i)

(* Whoever is within its budget has an unexpired row of its own. *)
LEMMA EnPlazoVigente ==
    ASSUME TypeOK, CerrojoInv, NEW k \in Instancias, EnPlazo(k)
    PROVE  cerrojos[Cron].dueno = k /\ Vigente(Cron)
  <1>1. LlevaCerrojo(k)
    BY DEF CerrojoInv
  <1>2. /\ cerrojos[Cron].resta \in Nat /\ TTL \in Nat
        /\ pase[k].edad \in Nat /\ hilo[k].edad \in Nat
    BY PlanoAssumption, CerrojosAssumption
    DEF TypeOK, CerrojosTypeOK, Cerrojo, Pase, Hilo
  <1> QED
    BY <1>1, <1>2 DEF EnPlazo, LlevaCerrojo, Vigente

(* A step that leaves the row and what i does alone leaves i its row. *)
LEMMA LlevaIgual ==
    ASSUME CerrojoInv, NEW i \in Instancias,
           pase'[i] = pase[i], hilo'[i] = hilo[i], EnPlazo(i)',
           cerrojos'[Cron].dueno = cerrojos[Cron].dueno,
           cerrojos'[Cron].resta = cerrojos[Cron].resta
    PROVE  LlevaCerrojo(i)'
  <1>1. EnPlazo(i)
    BY DEF EnPlazo
  <1>2. LlevaCerrojo(i)
    BY <1>1 DEF CerrojoInv
  <1> QED
    BY <1>2 DEF LlevaCerrojo

LEMMA CerrojoPaso == TypeOK /\ CerrojoInv /\ [Next]_vars => CerrojoInv'
  <1> SUFFICES ASSUME TypeOK, CerrojoInv, [Next]_vars,
                      NEW k \in Instancias, EnPlazo(k)'
               PROVE  LlevaCerrojo(k)'
    BY DEF CerrojoInv
  <1>t. /\ TTL \in Nat \ {0} /\ TTL <= MaxTTL /\ MaxTTL \in Nat
        /\ cerrojos[Cron].resta \in Nat /\ Cron \in Nombres
        /\ pase[k] \in Pase /\ pase[k].edad \in 0 .. TTL
        /\ hilo[k] \in Hilo /\ hilo[k].edad \in 0 .. TTL
        /\ DOMAIN pase = Instancias /\ DOMAIN hilo = Instancias
        /\ DOMAIN cerrojos = Nombres
    BY PlanoAssumption, CerrojosAssumption
    DEF TypeOK, CerrojosTypeOK, Cerrojo, Pase, Hilo
  <1>1. ASSUME NEW i \in Instancias, Tomar(i) PROVE LlevaCerrojo(k)'
    <2>1. ~Vigente(Cron) /\ hilo' = hilo
      BY <1>1 DEF Tomar, Adquirir, Adquirible
    <2>2. ~EnPlazo(k)
      BY <2>1, EnPlazoVigente
    <2>3. pase'[i].edad = 0 /\ (k # i => pase'[k] = pase[k])
      BY <1>1, <1>t DEF Tomar, Empezado
    <2>4. k = i
      BY <2>1, <2>2, <2>3 DEF EnPlazo
    <2>5. cerrojos'[Cron].dueno = i /\ cerrojos'[Cron].resta = TTL
      BY <1>1, <1>t DEF Tomar, Adquirir
    <2> QED
      BY <2>1, <2>3, <2>4, <2>5, <1>t DEF LlevaCerrojo
  <1>2. ASSUME NEW i \in Instancias, TomarAverias(i) PROVE LlevaCerrojo(k)'
    <2>1. hilo' = hilo /\ pase'[i].propio = FALSE /\ (k # i => pase'[k] = pase[k])
      BY <1>2, TipoDeEmpezado DEF TomarAverias, TypeOK
    <2>2. EnPlazo(k)
      BY <2>1 DEF EnPlazo
    <2>3. LlevaCerrojo(k) /\ Vigente(Cron)
      BY <2>2, EnPlazoVigente DEF CerrojoInv
    <2>4. UNCHANGED cerrojos
      BY <1>2, <2>3 DEF TomarAverias, Adquirir, Adquirible
    <2> QED
      BY <2>1, <2>3, <2>4 DEF LlevaCerrojo
  <1>3. ASSUME NEW i \in Instancias, Lanzar(i) PROVE LlevaCerrojo(k)'
    <2>0. cerrojos' = cerrojos /\ (k # i => pase'[k] = pase[k] /\ hilo'[k] = hilo[k])
      BY <1>3, <1>t DEF Lanzar
    <2>1. CASE k # i
      BY <2>0, <2>1, LlevaIgual
    <2>2. CASE k = i /\ hilo[i].vivo
      <3>1. hilo' = hilo /\ pase'[i].paso = "finally"
        <4>1. pase' = [pase EXCEPT ![i] = [pase[i] EXCEPT !.paso = "finally"]] /\ hilo' = hilo
          BY <1>3, <2>2 DEF Lanzar
        <4>2. [pase[i] EXCEPT !.paso = "finally"].paso = "finally"
          BY <2>2, <1>t DEF Pase
        <4> QED
          BY <4>1, <4>2, <1>t
      <3>2. EnPlazo(k)
        BY <2>2, <3>1 DEF EnPlazo
      <3>3. LlevaCerrojo(k)
        BY <3>2 DEF CerrojoInv
      <3> QED
        BY <2>0, <2>2, <3>1, <3>3 DEF LlevaCerrojo
    <2>3. CASE k = i /\ ~hilo[i].vivo
      <3>1. /\ pase[i].paso = "lanzar" /\ pase'[i].paso = "join"
            /\ hilo'[i].propio = pase[i].propio /\ hilo'[i].edad = pase[i].edad
        <4>1. /\ pase[i].paso = "lanzar"
              /\ pase' = [pase EXCEPT ![i] = [pase[i] EXCEPT !.paso = "join", !.plazo = TTL]]
              /\ hilo' = [hilo EXCEPT ![i] =
                            [vivo |-> TRUE, propio |-> pase[i].propio, edad |-> pase[i].edad]]
          BY <1>3, <2>3 DEF Lanzar
        <4>2. [pase[i] EXCEPT !.paso = "join", !.plazo = TTL].paso = "join"
          BY <2>3, <1>t DEF Pase
        <4> QED
          BY <4>1, <4>2, <1>t
      <3>2. EnPlazo(k)
        BY <2>3, <3>1 DEF EnPlazo
      <3>3. LlevaCerrojo(k) /\ pase[i].propio
        BY <2>3, <3>1, <3>2 DEF CerrojoInv, EnPlazo
      <3> QED
        BY <2>0, <2>3, <3>1, <3>3 DEF LlevaCerrojo
    <2> QED
      BY <2>1, <2>2, <2>3
  <1>4. ASSUME NEW i \in Instancias, FinDelJoin(i) PROVE LlevaCerrojo(k)'
    <2>1. /\ cerrojos' = cerrojos /\ hilo' = hilo
          /\ pase'[k] = pase[k] \/ pase'[k].paso = "finally"
      BY <1>4, <1>t DEF FinDelJoin
    <2>2. EnPlazo(k)
      BY <2>1 DEF EnPlazo
    <2>3. LlevaCerrojo(k)
      BY <2>2 DEF CerrojoInv
    <2> QED
      BY <2>1, <2>3 DEF LlevaCerrojo
  <1>5. ASSUME NEW i \in Instancias, Finally(i) PROVE LlevaCerrojo(k)'
    <2>1. /\ hilo' = hilo /\ pase[i].paso = "finally"
          /\ pase'[k] = pase[k] \/ (k = i /\ pase'[k] = EnEspera)
      BY <1>5, <1>t DEF Finally
    <2>2. EnPlazo(k)
      BY <2>1, TipoDeEspera DEF EnPlazo
    <2>3. LlevaCerrojo(k) /\ cerrojos[Cron].dueno = k
      BY <2>2, EnPlazoVigente DEF CerrojoInv
    <2>4. CASE UNCHANGED cerrojos
      BY <2>1, <2>3, <2>4, TipoDeEspera DEF LlevaCerrojo
    <2>5. CASE Renovar(Cron, i, TTL)
      <3>1. cerrojos'[Cron].dueno = k /\ cerrojos'[Cron].resta \in {cerrojos[Cron].resta, TTL}
        BY <2>3, <2>5, <1>t DEF Renovar, EsDe
      <3> QED
        BY <2>1, <2>3, <3>1, <1>t, TipoDeEspera DEF LlevaCerrojo
    <2>6. CASE ~hilo[i].vivo /\ Soltar(Cron, i)
      <3>1. k # i
        BY <2>1, <2>2, <2>6 DEF EnPlazo
      <3>2. cerrojos'[Cron] = cerrojos[Cron]
        BY <2>3, <2>6, <3>1, <1>t DEF Soltar, SoltarVarios, EsDe
      <3> QED
        BY <2>1, <2>3, <3>1, <3>2 DEF LlevaCerrojo
    <2> QED
      BY <1>5, <2>4, <2>5, <2>6 DEF Finally
  <1>6. ASSUME NEW i \in Instancias, Terminar(i) PROVE LlevaCerrojo(k)'
    <2>1. /\ cerrojos' = cerrojos /\ pase' = pase
          /\ hilo'[k] = hilo[k] \/ hilo'[k] = SinHilo
      BY <1>6, <1>t DEF Terminar
    <2>2. EnPlazo(k)
      BY <2>1, TipoDeEspera DEF EnPlazo
    <2>3. LlevaCerrojo(k)
      BY <2>2 DEF CerrojoInv
    <2> QED
      BY <2>1, <2>3, TipoDeEspera DEF LlevaCerrojo
  <1>7. ASSUME NEW i \in Instancias, Caida(i) PROVE LlevaCerrojo(k)'
    <2>1. k = i => pase'[k] = EnEspera /\ hilo'[k] = SinHilo
      BY <1>7, <1>t DEF Caida
    <2>2. k # i
      BY <2>1, TipoDeEspera DEF EnPlazo
    <2>3. pase'[k] = pase[k] /\ hilo'[k] = hilo[k]
      BY <1>7, <2>2, <1>t DEF Caida
    <2>4. cerrojos[Cron].dueno = k
      BY <2>3, EnPlazoVigente DEF EnPlazo
    <2>5. /\ cerrojos'[Cron].dueno = cerrojos[Cron].dueno
          /\ cerrojos'[Cron].resta = cerrojos[Cron].resta
      BY <1>7, <2>2, <2>4, <1>t DEF Caida, TypeOK, CerrojosTypeOK, Cerrojo
    <2> QED
      BY <2>3, <2>5, LlevaIgual
  <1>8. CASE Tiempo
    <2>1. /\ pase'[k].paso = pase[k].paso /\ pase'[k].propio = pase[k].propio
          /\ pase'[k].edad = IF pase[k].paso = "lanzar" THEN Mas(pase[k].edad) ELSE pase[k].edad
      BY <1>8, <1>t DEF Tiempo, Pase
    <2>2. /\ hilo'[k].vivo = hilo[k].vivo /\ hilo'[k].propio = hilo[k].propio
          /\ hilo'[k].edad = IF hilo[k].vivo THEN Mas(hilo[k].edad) ELSE 0
      BY <1>8, <1>t DEF Tiempo, Hilo
    <2>3. /\ cerrojos'[Cron].dueno = cerrojos[Cron].dueno
          /\ cerrojos'[Cron].resta = IF cerrojos[Cron].resta > 0
                                     THEN cerrojos[Cron].resta - 1 ELSE 0
      BY <1>8, <1>t DEF Tiempo, CerrojosEnvejecen, TypeOK, CerrojosTypeOK, Cerrojo
    <2>4. EnPlazo(k)
      BY <2>1, <2>2, <1>t DEF EnPlazo, Mas
    <2>5. LlevaCerrojo(k)
      BY <2>4 DEF CerrojoInv
    <2> QED
      BY <2>1, <2>2, <2>3, <2>5, <1>t DEF LlevaCerrojo, Mas
  <1>9. CASE UNCHANGED vars
    BY <1>9, LlevaIgual DEF vars
  <1> QED
    BY <1>1, <1>2, <1>3, <1>4, <1>5, <1>6, <1>7, <1>8, <1>9 DEF Next, Instancia

LEMMA CerrojoInicial == Init => CerrojoInv
  BY TipoDeEspera DEF Init, CerrojoInv, EnPlazo

(* Two owners within their budget would both be the holder of the row. *)
LEMMA DosDuenos == TypeOK /\ CerrojoInv => SolapeSoloSiTarda
  <1> SUFFICES ASSUME TypeOK, CerrojoInv,
                      NEW i \in Instancias, NEW k \in Instancias,
                      i # k, hilo[i].vivo, hilo[k].vivo,
                      hilo[i].propio, hilo[k].propio,
                      hilo[i].edad # TTL, hilo[k].edad # TTL
               PROVE  FALSE
    BY DEF SolapeSoloSiTarda
  <1>1. /\ hilo[i].edad \in 0 .. TTL /\ hilo[k].edad \in 0 .. TTL /\ TTL \in Nat
    BY PlanoAssumption, CerrojosAssumption DEF TypeOK, Hilo
  <1>2. EnPlazo(i) /\ EnPlazo(k)
    BY <1>1 DEF EnPlazo
  <1> QED
    BY <1>2, EnPlazoVigente

(* Two instances run the job at once only if one of them has used up its   *)
(* budget or runs without the lock, however many instances there are and   *)
(* whatever dies or fails (cron_plane.py:177, job_locks.py:92, 139).       *)
THEOREM ElSolapeEsTardio == Spec => []SolapeSoloSiTarda
  BY TipoInicial, TipoPaso, CerrojoInicial, CerrojoPaso, DosDuenos, PTL DEF Spec
=============================================================================
