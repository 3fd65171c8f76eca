------------------------------ MODULE CrcTables ------------------------------
(***************************************************************************)
(* The literal tables of hb_check.c, entry by entry.  Entry i of the code  *)
(* is at i + 1 here.  The numbers of TLC have 32 bits with a sign, so an   *)
(* entry of crc32_table is two halves, the upper one at 2 * i + 1.         *)
(***************************************************************************)
EXTENDS Integers, Sequences

crc8_entries ==
  <<\h00, \h07, \h0E, \h09, \h1C, \h1B, \h12, \h15, \h38, \h3F, \h36, \h31, \h24, \h23, \h2A, \h2D,
    \h70, \h77, \h7E, \h79, \h6C, \h6B, \h62, \h65, \h48, \h4F, \h46, \h41, \h54, \h53, \h5A, \h5D,
    \hE0, \hE7, \hEE, \hE9, \hFC, \hFB, \hF2, \hF5, \hD8, \hDF, \hD6, \hD1, \hC4, \hC3, \hCA, \hCD,
    \h90, \h97, \h9E, \h99, \h8C, \h8B, \h82, \h85, \hA8, \hAF, \hA6, \hA1, \hB4, \hB3, \hBA, \hBD,
    \hC7, \hC0, \hC9, \hCE, \hDB, \hDC, \hD5, \hD2, \hFF, \hF8, \hF1, \hF6, \hE3, \hE4, \hED, \hEA,
    \hB7, \hB0, \hB9, \hBE, \hAB, \hAC, \hA5, \hA2, \h8F, \h88, \h81, \h86, \h93, \h94, \h9D, \h9A,
    \h27, \h20, \h29, \h2E, \h3B, \h3C, \h35, \h32, \h1F, \h18, \h11, \h16, \h03, \h04, \h0D, \h0A,
    \h57, \h50, \h59, \h5E, \h4B, \h4C, \h45, \h42, \h6F, \h68, \h61, \h66, \h73, \h74, \h7D, \h7A,
    \h89, \h8E, \h87, \h80, \h95, \h92, \h9B, \h9C, \hB1, \hB6, \hBF, \hB8, \hAD, \hAA, \hA3, \hA4,
    \hF9, \hFE, \hF7, \hF0, \hE5, \hE2, \hEB, \hEC, \hC1, \hC6, \hCF, \hC8, \hDD, \hDA, \hD3, \hD4,
    \h69, \h6E, \h67, \h60, \h75, \h72, \h7B, \h7C, \h51, \h56, \h5F, \h58, \h4D, \h4A, \h43, \h44,
    \h19, \h1E, \h17, \h10, \h05, \h02, \h0B, \h0C, \h21, \h26, \h2F, \h28, \h3D, \h3A, \h33, \h34,
    \h4E, \h49, \h40, \h47, \h52, \h55, \h5C, \h5B, \h76, \h71, \h78, \h7F, \h6A, \h6D, \h64, \h63,
    \h3E, \h39, \h30, \h37, \h22, \h25, \h2C, \h2B, \h06, \h01, \h08, \h0F, \h1A, \h1D, \h14, \h13,
    \hAE, \hA9, \hA0, \hA7, \hB2, \hB5, \hBC, \hBB, \h96, \h91, \h98, \h9F, \h8A, \h8D, \h84, \h83,
    \hDE, \hD9, \hD0, \hD7, \hC2, \hC5, \hCC, \hCB, \hE6, \hE1, \hE8, \hEF, \hFA, \hFD, \hF4, \hF3>>

crc16_entries ==
  <<\h0000, \hC0C1, \hC181, \h0140, \hC301, \h03C0, \h0280, \hC241,
    \hC601, \h06C0, \h0780, \hC741, \h0500, \hC5C1, \hC481, \h0440,
    \hCC01, \h0CC0, \h0D80, \hCD41, \h0F00, \hCFC1, \hCE81, \h0E40,
    \h0A00, \hCAC1, \hCB81, \h0B40, \hC901, \h09C0, \h0880, \hC841,
    \hD801, \h18C0, \h1980, \hD941, \h1B00, \hDBC1, \hDA81, \h1A40,
    \h1E00, \hDEC1, \hDF81, \h1F40, \hDD01, \h1DC0, \h1C80, \hDC41,
    \h1400, \hD4C1, \hD581, \h1540, \hD701, \h17C0, \h1680, \hD641,
    \hD201, \h12C0, \h1380, \hD341, \h1100, \hD1C1, \hD081, \h1040,
    \hF001, \h30C0, \h3180, \hF141, \h3300, \hF3C1, \hF281, \h3240,
    \h3600, \hF6C1, \hF781, \h3740, \hF501, \h35C0, \h3480, \hF441,
    \h3C00, \hFCC1, \hFD81, \h3D40, \hFF01, \h3FC0, \h3E80, \hFE41,
    \hFA01, \h3AC0, \h3B80, \hFB41, \h3900, \hF9C1, \hF881, \h3840,
    \h2800, \hE8C1, \hE981, \h2940, \hEB01, \h2BC0, \h2A80, \hEA41,
    \hEE01, \h2EC0, \h2F80, \hEF41, \h2D00, \hEDC1, \hEC81, \h2C40,
    \hE401, \h24C0, \h2580, \hE541, \h2700, \hE7C1, \hE681, \h2640,
    \h2200, \hE2C1, \hE381, \h2340, \hE101, \h21C0, \h2080, \hE041,
    \hA001, \h60C0, \h6180, \hA141, \h6300, \hA3C1, \hA281, \h6240,
    \h6600, \hA6C1, \hA781, \h6740, \hA501, \h65C0, \h6480, \hA441,
    \h6C00, \hACC1, \hAD81, \h6D40, \hAF01, \h6FC0, \h6E80, \hAE41,
    \hAA01, \h6AC0, \h6B80, \hAB41, \h6900, \hA9C1, \hA881, \h6840,
    \h7800, \hB8C1, \hB981, \h7940, \hBB01, \h7BC0, \h7A80, \hBA41,
    \hBE01, \h7EC0, \h7F80, \hBF41, \h7D00, \hBDC1, \hBC81, \h7C40,
    \hB401, \h74C0, \h7580, \hB541, \h7700, \hB7C1, \hB681, \h7640,
    \h7200, \hB2C1, \hB381, \h7340, \hB101, \h71C0, \h7080, \hB041,
    \h5000, \h90C1, \h9181, \h5140, \h9301, \h53C0, \h5280, \h9241,
    \h9601, \h56C0, \h5780, \h9741, \h5500, \h95C1, \h9481, \h5440,
    \h9C01, \h5CC0, \h5D80, \h9D41, \h5F00, \h9FC1, \h9E81, \h5E40,
    \h5A00, \h9AC1, \h9B81, \h5B40, \h9901, \h59C0, \h5880, \h9841,
    \h8801, \h48C0, \h4980, \h8941, \h4B00, \h8BC1, \h8A81, \h4A40,
    \h4E00, \h8EC1, \h8F81, \h4F40, \h8D01, \h4DC0, \h4C80, \h8C41,
    \h4400, \h84C1, \h8581, \h4540, \h8701, \h47C0, \h4680, \h8641,
    \h8201, \h42C0, \h4380, \h8341, \h4100, \h81C1, \h8081, \h4040>>

crc32_halves ==
  <<\h0000, \h0000, \h04C1, \h1DB7, \h0982, \h3B6E, \h0D43, \h26D9, \h1304, \h76DC, \h17C5, \h6B6B, \h1A86, \h4DB2, \h1E47, \h5005,
    \h2608, \hEDB8, \h22C9, \hF00F, \h2F8A, \hD6D6, \h2B4B, \hCB61, \h350C, \h9B64, \h31CD, \h86D3, \h3C8E, \hA00A, \h384F, \hBDBD,
    \h4C11, \hDB70, \h48D0, \hC6C7, \h4593, \hE01E, \h4152, \hFDA9, \h5F15, \hADAC, \h5BD4, \hB01B, \h5697, \h96C2, \h5256, \h8B75,
    \h6A19, \h36C8, \h6ED8, \h2B7F, \h639B, \h0DA6, \h675A, \h1011, \h791D, \h4014, \h7DDC, \h5DA3, \h709F, \h7B7A, \h745E, \h66CD,
    \h9823, \hB6E0, \h9CE2, \hAB57, \h91A1, \h8D8E, \h9560, \h9039, \h8B27, \hC03C, \h8FE6, \hDD8B, \h82A5, \hFB52, \h8664, \hE6E5,
    \hBE2B, \h5B58, \hBAEA, \h46EF, \hB7A9, \h6036, \hB368, \h7D81, \hAD2F, \h2D84, \hA9EE, \h3033, \hA4AD, \h16EA, \hA06C, \h0B5D,
    \hD432, \h6D90, \hD0F3, \h7027, \hDDB0, \h56FE, \hD971, \h4B49, \hC736, \h1B4C, \hC3F7, \h06FB, \hCEB4, \h2022, \hCA75, \h3D95,
    \hF23A, \h8028, \hF6FB, \h9D9F, \hFBB8, \hBB46, \hFF79, \hA6F1, \hE13E, \hF6F4, \hE5FF, \hEB43, \hE8BC, \hCD9A, \hEC7D, \hD02D,
    \h3486, \h7077, \h3047, \h6DC0, \h3D04, \h4B19, \h39C5, \h56AE, \h2782, \h06AB, \h2343, \h1B1C, \h2E00, \h3DC5, \h2AC1, \h2072,
    \h128E, \h9DCF, \h164F, \h8078, \h1B0C, \hA6A1, \h1FCD, \hBB16, \h018A, \hEB13, \h054B, \hF6A4, \h0808, \hD07D, \h0CC9, \hCDCA,
    \h7897, \hAB07, \h7C56, \hB6B0, \h7115, \h9069, \h75D4, \h8DDE, \h6B93, \hDDDB, \h6F52, \hC06C, \h6211, \hE6B5, \h66D0, \hFB02,
    \h5E9F, \h46BF, \h5A5E, \h5B08, \h571D, \h7DD1, \h53DC, \h6066, \h4D9B, \h3063, \h495A, \h2DD4, \h4419, \h0B0D, \h40D8, \h16BA,
    \hACA5, \hC697, \hA864, \hDB20, \hA527, \hFDF9, \hA1E6, \hE04E, \hBFA1, \hB04B, \hBB60, \hADFC, \hB623, \h8B25, \hB2E2, \h9692,
    \h8AAD, \h2B2F, \h8E6C, \h3698, \h832F, \h1041, \h87EE, \h0DF6, \h99A9, \h5DF3, \h9D68, \h4044, \h902B, \h669D, \h94EA, \h7B2A,
    \hE0B4, \h1DE7, \hE475, \h0050, \hE936, \h2689, \hEDF7, \h3B3E, \hF3B0, \h6B3B, \hF771, \h768C, \hFA32, \h5055, \hFEF3, \h4DE2,
    \hC6BC, \hF05F, \hC27D, \hEDE8, \hCF3E, \hCB31, \hCBFF, \hD686, \hD5B8, \h8683, \hD179, \h9B34, \hDC3A, \hBDED, \hD8FB, \hA05A,
    \h690C, \hE0EE, \h6DCD, \hFD59, \h608E, \hDB80, \h644F, \hC637, \h7A08, \h9632, \h7EC9, \h8B85, \h738A, \hAD5C, \h774B, \hB0EB,
    \h4F04, \h0D56, \h4BC5, \h10E1, \h4686, \h3638, \h4247, \h2B8F, \h5C00, \h7B8A, \h58C1, \h663D, \h5582, \h40E4, \h5143, \h5D53,
    \h251D, \h3B9E, \h21DC, \h2629, \h2C9F, \h00F0, \h285E, \h1D47, \h3619, \h4D42, \h32D8, \h50F5, \h3F9B, \h762C, \h3B5A, \h6B9B,
    \h0315, \hD626, \h07D4, \hCB91, \h0A97, \hED48, \h0E56, \hF0FF, \h1011, \hA0FA, \h14D0, \hBD4D, \h1993, \h9B94, \h1D52, \h8623,
    \hF12F, \h560E, \hF5EE, \h4BB9, \hF8AD, \h6D60, \hFC6C, \h70D7, \hE22B, \h20D2, \hE6EA, \h3D65, \hEBA9, \h1BBC, \hEF68, \h060B,
    \hD727, \hBBB6, \hD3E6, \hA601, \hDEA5, \h80D8, \hDA64, \h9D6F, \hC423, \hCD6A, \hC0E2, \hD0DD, \hCDA1, \hF604, \hC960, \hEBB3,
    \hBD3E, \h8D7E, \hB9FF, \h90C9, \hB4BC, \hB610, \hB07D, \hABA7, \hAE3A, \hFBA2, \hAAFB, \hE615, \hA7B8, \hC0CC, \hA379, \hDD7B,
    \h9B36, \h60C6, \h9FF7, \h7D71, \h92B4, \h5BA8, \h9675, \h461F, \h8832, \h161A, \h8CF3, \h0BAD, \h81B0, \h2D74, \h8571, \h30C3,
    \h5D8A, \h9099, \h594B, \h8D2E, \h5408, \hABF7, \h50C9, \hB640, \h4E8E, \hE645, \h4A4F, \hFBF2, \h470C, \hDD2B, \h43CD, \hC09C,
    \h7B82, \h7D21, \h7F43, \h6096, \h7200, \h464F, \h76C1, \h5BF8, \h6886, \h0BFD, \h6C47, \h164A, \h6104, \h3093, \h65C5, \h2D24,
    \h119B, \h4BE9, \h155A, \h565E, \h1819, \h7087, \h1CD8, \h6D30, \h029F, \h3D35, \h065E, \h2082, \h0B1D, \h065B, \h0FDC, \h1BEC,
    \h3793, \hA651, \h3352, \hBBE6, \h3E11, \h9D3F, \h3AD0, \h8088, \h2497, \hD08D, \h2056, \hCD3A, \h2D15, \hEBE3, \h29D4, \hF654,
    \hC5A9, \h2679, \hC168, \h3BCE, \hCC2B, \h1D17, \hC8EA, \h00A0, \hD6AD, \h50A5, \hD26C, \h4D12, \hDF2F, \h6BCB, \hDBEE, \h767C,
    \hE3A1, \hCBC1, \hE760, \hD676, \hEA23, \hF0AF, \hEEE2, \hED18, \hF0A5, \hBD1D, \hF464, \hA0AA, \hF927, \h8673, \hFDE6, \h9BC4,
    \h89B8, \hFD09, \h8D79, \hE0BE, \h803A, \hC667, \h84FB, \hDBD0, \h9ABC, \h8BD5, \h9E7D, \h9662, \h933E, \hB0BB, \h97FF, \hAD0C,
    \hAFB0, \h10B1, \hAB71, \h0D06, \hA632, \h2BDF, \hA2F3, \h3668, \hBCB4, \h666D, \hB875, \h7BDA, \hB536, \h5D03, \hB1F7, \h40B4>>
=============================================================================
